------------------------ MODULE DispatchQueueProofs ------------------------
(***************************************************************************)
(* Proofs about DispatchQueue: the queue, the frames, the mark and the     *)
(* task agree (QueueInv), and nobody but a living dispatch holds the       *)
(* project (HeldOnlyByTheLiving).  Every step of the drain does one of     *)
(* five things to the queue (DrainMoves); the invariant follows from these *)
(* alone.                                                                  *)
(*                                                                         *)
(* Then about AuthoringRun, the second process that drives turns of a      *)
(* borrowed session: the status an author reads is the one the stream      *)
(* earned (AuthoringInv, StatusIsEarned), and a cancelled run does nothing *)
(* more (CancelIsObeyed).  The two components share no variable.           *)
(*                                                                         *)
(* Of each what is left to do falls, and nobody sets it back               *)
(* (PressesAreReached, RunsRunOut).                                        *)
(***************************************************************************)
EXTENDS DispatchQueue, AuthoringRun, WellFoundedInduction, TLAPS

\* A press is made when every earlier one was.
PressedInOrder ==
  \A p, q \in Presses : q < p /\ shown[p] # "new" => shown[q] # "new"

\* A dispatch has the project from the save of its join to that of its release.
HeldInside ==
  \A p \in Presses : holder = p /\ p \notin cut =>
    Running(p) /\ task \in Guarded \union Releasing

\* The drain stays within one dispatch.
Within ==
  /\ UNCHANGED <<queue, shown, draining>>
  /\ task \in AtWork /\ task' \in AtWork
  /\ stop' => stop
  /\ \A p \in Presses : turn'[p] # "none" => turn[p] # "none" \/ Running(p)

\* It goes from one dispatch to the next, or to its end.
GoesOn ==
  /\ ~stop /\ ~stop' /\ task \in AtWork /\ UNCHANGED turn
  /\ \E p \in Presses : Running(p) /\ \E outcome \in Ended : Record(p, outcome)

\* It leaves with the dispatch it was cancelled in.
Leaves ==
  /\ task \in AtWork /\ ~stop'
  /\ \E p \in Presses : Running(p) /\ Die(p)

DrainMoves == Within \/ GoesOn \/ Leaves \/ Begin \/ NeverBegins

\* Every step of the drain is one of the five.
LEMMA DrainDoes == TypeOK /\ OneAtATime /\ DrainStep => DrainMoves
  <1> SUFFICES ASSUME TypeOK, OneAtATime, DrainStep PROVE DrainMoves
    OBVIOUS
  <1> USE DEF AtWork, Joining, Guarded, Releasing, At, project
  <1>1. CASE Resolve \/ LoadProject \/ CreateSession \/ Attach \/ FailGuarded
             \/ StopGuarded \/ StopSettling
    BY <1>1 DEF Resolve, LoadProject, CreateSession, Attach, FailGuarded, StopGuarded,
       StopSettling, Step, Finally, DrainMoves, Within
  <1>2. CASE Begin \/ NeverBegins
    BY <1>2 DEF DrainMoves
  <1>3. ASSUME NEW p \in Presses, SaveJoin(p) \/ StartTurn(p) \/ Answered(p) \/ LoadHeld(p)
        PROVE  DrainMoves
    <2>1. StartTurn(p) => \A q \in Presses : turn'[q] # "none" => turn[q] # "none" \/ Running(q)
      BY DEF StartTurn, TypeOK
    <2>2. ~StartTurn(p) => UNCHANGED turn
      BY <1>3 DEF SaveJoin, Answered, LoadHeld, Step, Finally
    <2>3. /\ UNCHANGED <<queue, shown, draining>>
          /\ task \in AtWork /\ task' \in AtWork
          /\ stop' => stop
      BY <1>3 DEF SaveJoin, StartTurn, Answered, LoadHeld, Step, Finally
    <2> QED
      BY <2>1, <2>2, <2>3 DEF DrainMoves, Within
  <1>4. ASSUME NEW p \in Presses, FailToJoin(p) \/ FailToRelease(p) \/ Reread(p)
        PROVE  DrainMoves
    BY <1>4 DEF FailToJoin, FailToRelease, Reread, DrainMoves, GoesOn, Ended
  <1>5. ASSUME NEW p \in Presses, Running(p), ~stop, task \in Releasing, AfterRelease(p)
        PROVE  DrainMoves
    <2>1. CASE ending = "done"
      BY <1>5, <2>1 DEF AfterRelease, DrainMoves, Within
    <2>2. CASE ending # "done"
      BY <1>5, <2>2 DEF AfterRelease, DrainMoves, GoesOn, TypeOK
    <2> QED
      BY <2>1, <2>2
  <1>6. ASSUME NEW p \in Presses, NothingToRelease(p) \/ SaveRelease(p) PROVE DrainMoves
    BY <1>5, <1>6 DEF NothingToRelease, SaveRelease, DrainMoves, Leaves
  <1>7. ASSUME NEW p \in Presses, StopJoining(p) \/ StopReleasing(p) PROVE DrainMoves
    BY <1>7 DEF StopJoining, StopReleasing, DrainMoves, Leaves
  <1> QED
    BY <1>1, <1>2, <1>3, <1>4, <1>6, <1>7 DEF DrainStep

(***************************************************************************)
(* Types.                                                                  *)
(***************************************************************************)

\* The next press off the queue, or none.
LEMMA AdvanceTypes ==
  ASSUME TypeOK, NEW frames \in [Presses -> {"new", "queued", "running"} \union Ended],
         Advance(frames)
  PROVE  /\ queue' \in Seq(Presses)
         /\ shown' \in [Presses -> {"new", "queued", "running"} \union Ended]
         /\ draining' \in BOOLEAN
         /\ task' \in Alive \union {"none"}
  <1>1. CASE queue = <<>>
    BY <1>1 DEF Advance, TypeOK
  <1>2. CASE queue # <<>>
    <2>1. /\ Head(queue) \in Presses /\ Tail(queue) \in Seq(Presses)
          /\ draining \in BOOLEAN /\ "resolving" \in Alive
      BY <1>2 DEF TypeOK, Alive, AtWork, Joining
    <2>2. /\ task' = "resolving" /\ queue' = Tail(queue) /\ draining' = draining
          /\ shown' = [frames EXCEPT ![Head(queue)] = "running"]
      BY <1>2 DEF Advance
    <2>3. shown' \in [Presses -> {"new", "queued", "running"} \union Ended]
      BY <2>1, <2>2
    <2> QED
      BY <2>1, <2>2, <2>3
  <1> QED
    BY <1>1, <1>2

\* What a dispatch writes to its record is a record.
LEMMA RecordTypes ==
  ASSUME TypeOK, NEW p \in Presses, NEW outcome \in Ended, Record(p, outcome)
  PROVE  /\ queue' \in Seq(Presses)
         /\ shown' \in [Presses -> {"new", "queued", "running"} \union Ended]
         /\ draining' \in BOOLEAN
         /\ task' \in Alive \union {"none"}
  <1>1. [shown EXCEPT ![p] = outcome] \in [Presses -> {"new", "queued", "running"} \union Ended]
    BY DEF TypeOK
  <1> QED
    BY <1>1, AdvanceTypes DEF Record

\* What the drain does to the queue, the frames, the mark and the task.
LEMMA DrainTypes ==
  ASSUME TypeOK, DrainMoves
  PROVE  /\ queue' \in Seq(Presses)
         /\ shown' \in [Presses -> {"new", "queued", "running"} \union Ended]
         /\ draining' \in BOOLEAN
         /\ task' \in Alive \union {"none"}
  <1>1. CASE Within
    BY <1>1 DEF Within, TypeOK, Alive
  <1>2. CASE GoesOn
    BY <1>2, RecordTypes DEF GoesOn
  <1>3. CASE Leaves
    BY <1>3 DEF Leaves, Die, TypeOK, Ended
  <1>4. CASE Begin
    BY <1>4, AdvanceTypes DEF Begin, TypeOK
  <1>5. CASE NeverBegins
    BY <1>5 DEF NeverBegins, TypeOK
  <1> QED
    BY <1>1, <1>2, <1>3, <1>4, <1>5 DEF DrainMoves

\* What the project promises keeps its types.
LEMMA LeaseTypes ==
  ASSUME TypeOK,
         \/ \E s \in Presses \union Others : Lease!Acquire(s)
         \/ Lease!GiveBack
         \/ \E next \in {"created", "archived", "deleted"} : Lease!Retire(next)
         \/ UNCHANGED <<status, holder, custody>>
  PROVE  /\ status' \in {"created", "archived", "deleted"}
         /\ holder' \in Presses \union Others \union {Nobody}
         /\ custody' \in Seq(Presses \union Others)
  <1>0. /\ status \in {"created", "archived", "deleted"}
        /\ holder \in Presses \union Others \union {Nobody}
        /\ custody \in Seq(Presses \union Others)
    BY DEF TypeOK
  <1>1. ASSUME NEW s \in Presses \union Others, Lease!Acquire(s)
        PROVE  status' = status /\ holder' = s /\ custody' \in Seq(Presses \union Others)
    BY <1>0, <1>1 DEF Lease!Acquire
  <1>2. CASE Lease!GiveBack
    BY <1>0, <1>2 DEF Lease!GiveBack
  <1>3. ASSUME NEW next \in {"created", "archived", "deleted"}, Lease!Retire(next)
        PROVE  status' = next /\ UNCHANGED <<holder, custody>>
    BY <1>3 DEF Lease!Retire
  <1> QED
    BY <1>0, <1>1, <1>2, <1>3

\* The types are inductive together with OneAtATime.
LEMMA TypesStay == TypeOK /\ OneAtATime /\ [Next]_vars => TypeOK'
  <1> SUFFICES ASSUME TypeOK, OneAtATime, [Next]_vars PROVE TypeOK'
    OBVIOUS
  <1> USE DEF project
  <1>1. CASE DrainStep
    <2>1. /\ queue' \in Seq(Presses)
          /\ shown' \in [Presses -> {"new", "queued", "running"} \union Ended]
          /\ draining' \in BOOLEAN
          /\ task' \in Alive \union {"none"}
      BY <1>1, DrainDoes, DrainTypes
    <2>2. \/ \E s \in Presses \union Others : Lease!Acquire(s)
          \/ Lease!GiveBack
          \/ UNCHANGED <<status, holder, custody>>
      BY <1>1 DEF DrainStep, Begin, Resolve, LoadProject, CreateSession, Attach, FailGuarded,
         NeverBegins, StopGuarded, StopSettling, SaveJoin, FailToJoin, StartTurn, Answered,
         LoadHeld, NothingToRelease, SaveRelease, FailToRelease, Reread, StopJoining,
         StopReleasing, Finally
    <2>3. /\ status' \in {"created", "archived", "deleted"}
          /\ holder' \in Presses \union Others \union {Nobody}
          /\ custody' \in Seq(Presses \union Others)
      BY <2>2, LeaseTypes
    <2>4. stop' \in BOOLEAN /\ moved' \in BOOLEAN /\ cancels' = cancels
      BY <1>1 DEF DrainStep, Begin, Resolve, LoadProject, CreateSession, Attach, FailGuarded,
         NeverBegins, StopGuarded, StopSettling, SaveJoin, FailToJoin, StartTurn, Answered,
         LoadHeld, NothingToRelease, SaveRelease, FailToRelease, Reread, StopJoining,
         StopReleasing, Finally, Step, AfterRelease, Die, TypeOK
    <2>5. ending' \in Ended
      BY <1>1 DEF DrainStep, Begin, Resolve, LoadProject, CreateSession, Attach, FailGuarded,
         NeverBegins, StopGuarded, StopSettling, SaveJoin, FailToJoin, StartTurn, Answered,
         LoadHeld, NothingToRelease, SaveRelease, FailToRelease, Reread, StopJoining,
         StopReleasing, Finally, Step, AfterRelease, Die, TypeOK, Ended
    <2>6. turn' \in [Presses -> {"none", "running", "answered", "failed"}]
      BY <1>1 DEF DrainStep, Begin, Resolve, LoadProject, CreateSession, Attach, FailGuarded,
         NeverBegins, StopGuarded, StopSettling, SaveJoin, FailToJoin, StartTurn, Answered,
         LoadHeld, NothingToRelease, SaveRelease, FailToRelease, Reread, StopJoining,
         StopReleasing, Finally, Step, AfterRelease, Die, TypeOK
    <2>7. cut' \subseteq Presses
      BY <1>1 DEF DrainStep, Begin, Resolve, LoadProject, CreateSession, Attach, FailGuarded,
         NeverBegins, StopGuarded, StopSettling, SaveJoin, FailToJoin, StartTurn, Answered,
         LoadHeld, NothingToRelease, SaveRelease, FailToRelease, Reread, StopJoining,
         StopReleasing, Finally, Step, AfterRelease, Die, TypeOK
    <2> QED
      BY <2>1, <2>3, <2>4, <2>5, <2>6, <2>7 DEF TypeOK
  <1>2. ASSUME NEW p \in Presses, Press(p) PROVE TypeOK'
    BY <1>2 DEF Press, TypeOK, Alive
  <1>3. ASSUME NEW p \in Presses, TurnEnds(p) \/ TimeOut(p) PROVE TypeOK'
    BY <1>3 DEF TurnEnds, TimeOut, TypeOK, Alive, AtWork, Guarded
  <1>4. CASE Cancel
    <2>1. cancels' \in 0..MaxCancels
      BY <1>4, BoundsAssumption DEF Cancel, TypeOK
    <2>2. shown' \in [Presses -> {"new", "queued", "running"} \union Ended]
      BY <1>4 DEF Cancel, TypeOK, Ended
    <2> QED
      BY <1>4, <2>1, <2>2 DEF Cancel, TypeOK
  <1>5. CASE Elsewhere
    <2>1. /\ status' \in {"created", "archived", "deleted"}
          /\ holder' \in Presses \union Others \union {Nobody}
          /\ custody' \in Seq(Presses \union Others)
      BY <1>5, LeaseTypes DEF Elsewhere
    <2> QED
      BY <1>5, <2>1 DEF Elsewhere, TypeOK
  <1>6. CASE UNCHANGED vars
    BY <1>6 DEF vars, TypeOK
  <1> QED
    BY <1>1, <1>2, <1>3, <1>4, <1>5, <1>6 DEF Next

(***************************************************************************)
(* The queue.                                                              *)
(***************************************************************************)
Order == InOrder /\ PressedInOrder /\ OneAtATime

\* Frames that the drain may have written when it takes the next press: those
\* of the waiting presses are untouched, and nothing runs.
LEMMA AdvanceKeepsOrder ==
  ASSUME TypeOK, Order, draining, NEW frames \in [Presses -> {"new", "queued", "running"} \union Ended],
         \A p \in Presses : /\ frames[p] \in {"new", "queued"} \/ shown[p] \in {"new", "queued"}
                                => frames[p] = shown[p]
                            /\ frames[p] # "running"
                            /\ frames[p] \in {"done", "failed"}
                                => shown[p] \in {"running", "done", "failed"},
         Advance(frames)
  PROVE  Order' /\ (task' \in Alive => draining')
  <1> USE DEF Order, Running
  <1>1. CASE queue = <<>>
    <2>1. /\ task' = "none" /\ queue' = <<>> /\ shown' = frames
          /\ \A p \in Presses : shown[p] # "queued"
      BY <1>1 DEF Advance, InOrder
    <2>2. InOrder'
      BY <2>1 DEF InOrder
    <2>3. PressedInOrder'
      BY <2>1 DEF PressedInOrder
    <2>4. OneAtATime' /\ task' \notin Alive
      BY <2>1 DEF OneAtATime, AtWork, Alive, Joining, Guarded, Releasing
    <2> QED
      BY <2>2, <2>3, <2>4
  <1>2. CASE queue # <<>>
    <2> DEFINE h == Head(queue)
    <2>1. /\ h \in Presses /\ queue[1] = h /\ 1 \in DOMAIN queue
          /\ \A i \in DOMAIN queue : queue[i] \in Presses
      BY <1>2 DEF TypeOK
    <2>2. /\ task' = "resolving" /\ queue' = Tail(queue) /\ draining' = draining
          /\ \A p \in Presses : shown'[p] = IF p = h THEN "running" ELSE frames[p]
      BY <1>2 DEF Advance
    <2>3. /\ \A i \in DOMAIN Tail(queue) : Tail(queue)[i] = queue[i + 1] /\ i + 1 \in DOMAIN queue
          /\ \A i \in DOMAIN queue : i # 1 => i - 1 \in DOMAIN Tail(queue)
                                            /\ Tail(queue)[i - 1] = queue[i]
      BY <1>2 DEF TypeOK
    <2>4. shown[h] = "queued" /\ \A i \in DOMAIN queue : i # 1 => h < queue[i]
      BY <2>1 DEF InOrder, TypeOK
    <2> HIDE DEF h
    <2>5. \A p \in Presses : shown'[p] = "queued" <=> \E i \in DOMAIN queue' : queue'[i] = p
      <3>1. ASSUME NEW p \in Presses, shown'[p] = "queued"
            PROVE  \E i \in DOMAIN queue' : queue'[i] = p
        <4>1. p # h /\ shown[p] = "queued"
          BY <2>2, <3>1
        <4>2. PICK i \in DOMAIN queue : queue[i] = p
          BY <4>1 DEF InOrder
        <4>3. i # 1
          BY <2>1, <4>1, <4>2
        <4> QED
          BY <2>2, <2>3, <4>2, <4>3
      <3>2. ASSUME NEW p \in Presses, NEW i \in DOMAIN queue', queue'[i] = p
            PROVE  shown'[p] = "queued"
        <4>1. i \in DOMAIN Tail(queue) /\ queue[i + 1] = p /\ i + 1 \in DOMAIN queue
          BY <2>2, <2>3, <3>2
        <4>2. i + 1 # 1
          BY <2>2, <4>1 DEF TypeOK
        <4>3. h < p /\ h \in Int
          BY <2>1, <2>4, <4>1, <4>2 DEF Presses
        <4>4. p # h
          BY <4>3
        <4>5. shown[p] = "queued"
          BY <4>1 DEF InOrder
        <4> QED
          BY <2>2, <4>4, <4>5
      <3> QED
        BY <3>1, <3>2
    <2>6. \A i, j \in DOMAIN queue' : i < j => queue'[i] < queue'[j]
      <3> SUFFICES ASSUME NEW i \in DOMAIN Tail(queue), NEW j \in DOMAIN Tail(queue), i < j
                   PROVE  Tail(queue)[i] < Tail(queue)[j]
        BY <2>2
      <3>1. i + 1 \in DOMAIN queue /\ j + 1 \in DOMAIN queue /\ i + 1 < j + 1
        BY <2>3 DEF TypeOK
      <3>2. queue[i + 1] < queue[j + 1]
        BY <3>1 DEF InOrder
      <3> QED
        BY <2>3, <3>2
    <2>7. \A p, q \in Presses :
            shown'[p] = "queued" /\ shown'[q] \in {"running", "done", "failed"} => q < p
      <3> SUFFICES ASSUME NEW p \in Presses, NEW q \in Presses, shown'[p] = "queued",
                          shown'[q] \in {"running", "done", "failed"}
                   PROVE  q < p
        OBVIOUS
      <3>1. p # h /\ shown[p] = "queued"
        BY <2>2
      <3>2. CASE q = h
        <4>1. PICK i \in DOMAIN queue : queue[i] = p
          BY <3>1 DEF InOrder
        <4> QED
          BY <2>1, <2>4, <3>1, <3>2, <4>1
      <3>3. CASE q # h
        <4>1. shown[q] \in {"running", "done", "failed"}
          BY <2>2, <3>3
        <4> QED
          BY <3>1, <4>1 DEF InOrder
      <3> QED
        BY <3>2, <3>3
    <2>8. InOrder'
      BY <2>5, <2>6, <2>7 DEF InOrder
    <2>9. PressedInOrder'
      BY <2>2, <2>4 DEF PressedInOrder
    <2>10. OneAtATime'
      BY <2>1, <2>2 DEF OneAtATime, AtWork, Joining
    <2>11. draining' = draining
      BY <2>2
    <2> QED
      BY <2>8, <2>9, <2>10, <2>11
  <1> QED
    BY <1>1, <1>2

\* The frame of the dispatch that ends is written before the next is taken.
LEMMA GoesOnKeepsOrder ==
  ASSUME TypeOK, Order, draining, GoesOn
  PROVE  Order' /\ (task' \in Alive => draining')
  <1>1. PICK p \in Presses : Running(p) /\ \E outcome \in Ended : Record(p, outcome)
    BY DEF GoesOn
  <1>2. PICK outcome \in Ended : Record(p, outcome)
    BY <1>1
  <1> DEFINE frames == [shown EXCEPT ![p] = outcome]
  <1>3. frames \in [Presses -> {"new", "queued", "running"} \union Ended]
    BY DEF TypeOK
  <1>4. \A q \in Presses : frames[q] = IF q = p THEN outcome ELSE shown[q]
    BY DEF TypeOK
  <1>5. \A q \in Presses : /\ frames[q] \in {"new", "queued"} \/ shown[q] \in {"new", "queued"}
                               => frames[q] = shown[q]
                           /\ frames[q] # "running"
                           /\ frames[q] \in {"done", "failed"}
                               => shown[q] \in {"running", "done", "failed"}
    BY <1>1, <1>4 DEF Order, OneAtATime, Running, Ended
  <1>6. Advance(frames)
    BY <1>2 DEF Record
  <1> HIDE DEF frames
  <1> QED
    BY <1>3, <1>5, <1>6, AdvanceKeepsOrder

\* The order of the presses is inductive.
LEMMA OrderStays ==
  TypeOK /\ Order /\ MarkFollowsTask /\ [Next]_vars => Order' /\ MarkFollowsTask'
  <1> SUFFICES ASSUME TypeOK, Order, MarkFollowsTask, [Next]_vars
               PROVE  Order' /\ MarkFollowsTask'
    OBVIOUS
  <1>a. task \in AtWork => task \in Alive /\ draining
    BY DEF Alive, MarkFollowsTask
  <1>b. "none" \notin Alive /\ "fresh" \notin AtWork /\ "none" \notin AtWork
    BY DEF Alive, AtWork, Joining, Guarded, Releasing
  <1>1. CASE DrainStep
    <2>1. CASE Within
      <3>1. InOrder' /\ PressedInOrder'
        BY <2>1 DEF Within, Order, InOrder, PressedInOrder
      <3>2. OneAtATime'
        BY <2>1 DEF Within, Order, OneAtATime, Running
      <3>3. MarkFollowsTask'
        BY <2>1 DEF Within, MarkFollowsTask, Alive, Running
      <3> QED
        BY <3>1, <3>2, <3>3 DEF Order
    <2>2. CASE GoesOn
      <3>1. Order' /\ (task' \in Alive => draining')
        BY <1>a, <2>2, GoesOnKeepsOrder DEF GoesOn
      <3>2. \A p \in Presses : turn'[p] # "none" => shown'[p] \notin {"new", "queued"}
        <4> SUFFICES ASSUME NEW p \in Presses, turn[p] # "none"
                     PROVE  shown'[p] \notin {"new", "queued"}
          BY <2>2 DEF GoesOn
        <4>1. shown[p] \notin {"new", "queued"}
          BY DEF MarkFollowsTask
        <4>2. PICK q \in Presses : Running(q) /\ \E outcome \in Ended : Record(q, outcome)
          BY <2>2 DEF GoesOn
        <4>3. PICK outcome \in Ended : Record(q, outcome)
          BY <4>2
        <4> QED
          BY <4>1, <4>3 DEF Record, Advance, TypeOK, Ended
      <3> QED
        BY <2>2, <3>1, <3>2 DEF GoesOn, MarkFollowsTask
    <2>3. CASE Leaves
      <3>1. PICK p \in Presses : Running(p) /\ Die(p)
        BY <2>3 DEF Leaves
      <3>2. /\ task' = "none" /\ queue' = queue /\ turn' = turn /\ shown[p] = "running"
            /\ \A q \in Presses : shown'[q] = IF q = p THEN "cancelled" ELSE shown[q]
        BY <3>1 DEF Die, Running, TypeOK
      <3>3. InOrder'
        BY <3>2 DEF Order, InOrder
      <3>4. PressedInOrder'
        BY <3>2 DEF Order, PressedInOrder
      <3>5. OneAtATime'
        BY <1>b, <3>1, <3>2 DEF Order, OneAtATime, Running
      <3>6. MarkFollowsTask'
        BY <1>b, <2>3, <3>2 DEF Leaves, MarkFollowsTask
      <3> QED
        BY <3>3, <3>4, <3>5, <3>6 DEF Order
    <2>4. CASE Begin
      <3>1. draining /\ ~stop /\ ~stop' /\ UNCHANGED turn /\ Advance(shown)
        BY <2>4 DEF Begin, At, MarkFollowsTask, Alive
      <3>2. shown \in [Presses -> {"new", "queued", "running"} \union Ended]
        BY DEF TypeOK
      <3>3. \A p \in Presses : shown[p] # "running"
        BY <1>b, <2>4 DEF Begin, At, Order, OneAtATime, Running
      <3>4. Order' /\ (task' \in Alive => draining')
        BY <3>1, <3>2, <3>3, AdvanceKeepsOrder
      <3>5. \A p \in Presses : turn'[p] # "none" => shown'[p] \notin {"new", "queued"}
        BY <3>1 DEF MarkFollowsTask, Advance, TypeOK
      <3> QED
        BY <3>1, <3>4, <3>5 DEF MarkFollowsTask
    <2>5. CASE NeverBegins
      <3>1. /\ UNCHANGED <<queue, shown, turn>> /\ task = "fresh" /\ task' = "none" /\ ~stop'
        BY <2>5 DEF NeverBegins
      <3>2. InOrder' /\ PressedInOrder'
        BY <3>1 DEF Order, InOrder, PressedInOrder
      <3>3. OneAtATime'
        BY <1>b, <3>1 DEF Order, OneAtATime, Running
      <3>4. MarkFollowsTask'
        BY <1>b, <3>1 DEF MarkFollowsTask
      <3> QED
        BY <3>2, <3>3, <3>4 DEF Order
    <2> QED
      BY <1>1, <2>1, <2>2, <2>3, <2>4, <2>5, DrainDoes DEF DrainMoves, Order
  <1>2. ASSUME NEW p \in Presses, Press(p) PROVE Order' /\ MarkFollowsTask'
    <2>1. /\ queue' = Append(queue, p) /\ shown[p] = "new"
          /\ \A q \in Presses : shown'[q] = IF q = p THEN "queued" ELSE shown[q]
          /\ \A q \in Presses : q < p => shown[q] # "new"
          /\ UNCHANGED <<stop, turn>>
      BY <1>2 DEF Press, TypeOK, Pressed, Presses
    <2>2. \A q \in Presses : shown[q] # "new" => q < p
      BY <2>1 DEF Order, PressedInOrder, Presses
    <2>3. /\ \A i \in DOMAIN queue : queue'[i] = queue[i] /\ queue[i] \in Presses
          /\ Len(queue) \in Nat /\ DOMAIN queue = 1..Len(queue)
          /\ DOMAIN queue' = 1..(Len(queue) + 1) /\ queue'[Len(queue) + 1] = p
      BY <2>1 DEF TypeOK
    <2>4. \A q \in Presses : shown'[q] = "queued" <=> \E i \in DOMAIN queue' : queue'[i] = q
      <3>1. ASSUME NEW q \in Presses, shown'[q] = "queued"
            PROVE  \E i \in DOMAIN queue' : queue'[i] = q
        <4>1. CASE q = p
          BY <2>3, <4>1
        <4>2. CASE q # p
          <5>1. PICK i \in DOMAIN queue : queue[i] = q
            BY <2>1, <3>1, <4>2 DEF Order, InOrder
          <5> QED
            BY <2>3, <5>1
        <4> QED
          BY <4>1, <4>2
      <3>2. ASSUME NEW q \in Presses, NEW i \in DOMAIN queue', queue'[i] = q
            PROVE  shown'[q] = "queued"
        <4>1. CASE i = Len(queue) + 1
          BY <2>1, <2>3, <3>2, <4>1
        <4>2. CASE i # Len(queue) + 1
          <5>1. i \in DOMAIN queue /\ queue[i] = q
            BY <2>3, <3>2, <4>2
          <5> QED
            BY <2>1, <5>1 DEF Order, InOrder
        <4> QED
          BY <4>1, <4>2
      <3> QED
        BY <3>1, <3>2
    <2>5. \A i, j \in DOMAIN queue' : i < j => queue'[i] < queue'[j]
      <3> SUFFICES ASSUME NEW i \in DOMAIN queue', NEW j \in DOMAIN queue', i < j
                   PROVE  queue'[i] < queue'[j]
        OBVIOUS
      <3>1. i \in DOMAIN queue
        BY <2>3
      <3>2. CASE j = Len(queue) + 1
        <4>1. shown[queue[i]] = "queued"
          BY <2>3, <3>1 DEF Order, InOrder
        <4> QED
          BY <2>2, <2>3, <3>1, <3>2, <4>1
      <3>3. CASE j # Len(queue) + 1
        <4>1. j \in DOMAIN queue
          BY <2>3, <3>3
        <4> QED
          BY <2>3, <3>1, <4>1 DEF Order, InOrder
      <3> QED
        BY <3>2, <3>3
    <2>6. \A q, r \in Presses :
            shown'[q] = "queued" /\ shown'[r] \in {"running", "done", "failed"} => r < q
      BY <2>1, <2>2 DEF Order, InOrder
    <2>7. InOrder'
      BY <2>4, <2>5, <2>6 DEF InOrder
    <2>8. PressedInOrder'
      BY <2>1 DEF Order, PressedInOrder
    <2>9. draining' /\ task' = IF draining THEN task ELSE "fresh"
      BY <1>2 DEF Press
    <2>10. OneAtATime'
      BY <1>a, <1>b, <2>1, <2>9 DEF Order, OneAtATime, Running
    <2>11. MarkFollowsTask'
      BY <2>1, <2>9 DEF MarkFollowsTask, Alive
    <2> QED
      BY <2>7, <2>8, <2>10, <2>11 DEF Order
  <1>3. ASSUME NEW p \in Presses, TurnEnds(p) PROVE Order' /\ MarkFollowsTask'
    <2>1. /\ UNCHANGED <<queue, shown, draining, task, stop>>
          /\ \A q \in Presses : turn'[q] # "none" => turn[q] # "none"
      BY <1>3 DEF TurnEnds, TypeOK
    <2> QED
      BY <2>1 DEF Order, InOrder, PressedInOrder, OneAtATime, Running, MarkFollowsTask
  <1>4. ASSUME NEW p \in Presses, TimeOut(p) PROVE Order' /\ MarkFollowsTask'
    <2>1. /\ UNCHANGED <<queue, shown, draining, stop, turn>>
          /\ task \in AtWork /\ task' \in AtWork
      BY <1>4 DEF TimeOut, At, AtWork, Guarded
    <2> QED
      BY <2>1 DEF Order, InOrder, PressedInOrder, OneAtATime, Running, MarkFollowsTask, Alive
  <1>5. CASE Cancel
    <2>1. /\ queue' = <<>> /\ UNCHANGED <<draining, task, turn>>
          /\ stop' = (stop \/ task \in Alive)
          /\ \A p \in Presses :
               shown'[p] = IF shown[p] = "queued" THEN "cancelled" ELSE shown[p]
      BY <1>5 DEF Cancel
    <2>2. InOrder' /\ PressedInOrder'
      BY <2>1 DEF Order, InOrder, PressedInOrder
    <2>3. OneAtATime'
      BY <2>1 DEF Order, OneAtATime, Running
    <2>4. MarkFollowsTask'
      BY <2>1 DEF MarkFollowsTask
    <2> QED
      BY <2>2, <2>3, <2>4 DEF Order
  <1>6. CASE Elsewhere \/ UNCHANGED vars
    <2>1. UNCHANGED <<queue, shown, draining, task, stop, turn>>
      BY <1>6 DEF Elsewhere, vars
    <2> QED
      BY <2>1 DEF Order, InOrder, PressedInOrder, OneAtATime, Running, MarkFollowsTask
  <1> QED
    BY <1>1, <1>2, <1>3, <1>4, <1>5, <1>6 DEF Next

\* The queue starts empty, and no task with it.
LEMMA QueueStarts == Init => TypeOK /\ Order /\ MarkFollowsTask
  <1> SUFFICES ASSUME Init PROVE TypeOK /\ Order /\ MarkFollowsTask
    OBVIOUS
  <1>1. TypeOK
    <2>1. queue \in Seq(Presses) /\ custody \in Seq(Presses \union Others)
      BY DEF Init
    <2>2. /\ shown \in [Presses -> {"new", "queued", "running"} \union Ended]
          /\ turn \in [Presses -> {"none", "running", "answered", "failed"}]
      BY DEF Init
    <2>3. cancels \in 0..MaxCancels
      BY BoundsAssumption DEF Init
    <2>4. ending \in Ended /\ task \in Alive \union {"none"}
      BY DEF Init, Ended
    <2> QED
      BY <2>1, <2>2, <2>3, <2>4 DEF Init, TypeOK
  <1>2. Order /\ MarkFollowsTask
    BY DEF Init, Order, InOrder, PressedInOrder, OneAtATime, Running, MarkFollowsTask, AtWork,
       Alive, Joining, Guarded, Releasing
  <1> QED
    BY <1>1, <1>2

\* However presses, cancels, failures and turns interleave, the queue holds
\* what was announced as queued in the order of pressing, at most one dispatch
\* runs, and the mark, the task and the cancellation on its way agree
\* (dispatch.py: start, cancel and _drain).
THEOREM QueueInvariant == Spec => []QueueInv
  <1>1. TypeOK /\ Order /\ MarkFollowsTask /\ [Next]_vars
          => (TypeOK /\ Order /\ MarkFollowsTask)'
    BY TypesStay, OrderStays DEF Order
  <1>2. TypeOK /\ Order /\ MarkFollowsTask => QueueInv
    BY DEF Order, QueueInv
  <1> QED
    BY <1>1, <1>2, QueueStarts, PTL DEF Spec

(***************************************************************************)
(* The project.                                                            *)
(***************************************************************************)

\* A dispatch has the project only between the save of its join and that of its
\* release: the drain goes on, leaves or begins with the project given back, or
\* with its press among those cut short.
LEMMA HoldStays ==
  TypeOK /\ Order /\ MarkFollowsTask /\ HeldInside /\ [Next]_vars => HeldInside'
  <1> SUFFICES ASSUME TypeOK, Order, MarkFollowsTask, HeldInside, [Next]_vars,
                      NEW p \in Presses, holder' = p, p \notin cut'
               PROVE  shown'[p] = "running" /\ task' \in Guarded \union Releasing
    BY DEF HeldInside, Running
  <1> USE DEF project
  <1>a. holder = p /\ p \notin cut => shown[p] = "running" /\ task \in Guarded \union Releasing
    BY DEF HeldInside, Running
  <1>b. \A q \in Presses : shown[q] = "running" /\ shown[p] = "running" => q = p
    BY DEF Order, OneAtATime, Running
  <1>c. p # Nobody /\ p \notin Others
    BY NamesAssumption
  <1>1. ASSUME holder' = holder, cut' = cut, shown'[p] = shown[p],
               task \in Guarded \union Releasing => task' \in Guarded \union Releasing
        PROVE  shown'[p] = "running" /\ task' \in Guarded \union Releasing
    BY <1>a, <1>1
  <1>2. CASE Resolve \/ LoadProject \/ CreateSession \/ Attach \/ FailGuarded \/ StopGuarded
             \/ StopSettling
    BY <1>1, <1>2 DEF Resolve, LoadProject, CreateSession, Attach, FailGuarded, StopGuarded,
       StopSettling, Step, Finally, At, Guarded, Releasing
  <1>3. CASE Begin \/ NeverBegins
    BY <1>3, <1>a DEF Begin, NeverBegins, At, Guarded, Releasing
  <1>4. ASSUME NEW q \in Presses, SaveJoin(q)
        PROVE  shown'[p] = "running" /\ task' \in Guarded \union Releasing
    <2>1. holder' = q /\ shown' = shown /\ task' = "attaching" /\ shown[q] = "running"
      BY <1>4 DEF SaveJoin, Step, Running, Lease!Acquire
    <2> QED
      BY <2>1 DEF Guarded
  <1>5. ASSUME NEW q \in Presses, StartTurn(q) \/ Answered(q) \/ LoadHeld(q) \/ TimeOut(q)
        PROVE  shown'[p] = "running" /\ task' \in Guarded \union Releasing
    BY <1>1, <1>5 DEF StartTurn, Answered, LoadHeld, TimeOut, Step, Finally, At, Guarded, Releasing
  <1>6. ASSUME NEW q \in Presses, FailToJoin(q) \/ Reread(q)
        PROVE  FALSE
    <2>1. holder' = holder /\ cut' = cut /\ task \in Joining \union {"rereading"}
      BY <1>6 DEF FailToJoin, Reread, At
    <2> QED
      BY <1>a, <2>1 DEF Joining, Guarded, Releasing
  <1>7. ASSUME NEW q \in Presses, NothingToRelease(q) \/ SaveRelease(q) \/ FailToRelease(q)
        PROVE  FALSE
    <2>1. /\ shown[q] = "running"
          /\ \/ holder' = holder /\ cut' = cut /\ holder # q
             \/ holder' = Nobody
             \/ holder' = holder /\ cut' = cut \union {q}
      BY <1>7 DEF NothingToRelease, SaveRelease, FailToRelease, AfterRelease, NotHeld, Running,
         Lease!GiveBack
    <2> QED
      BY <1>a, <1>b, <1>c, <2>1
  <1>8. ASSUME NEW q \in Presses, StopJoining(q) PROVE FALSE
    <2>1. /\ task \in Joining \union {"rereading"}
          /\ \/ holder' = holder /\ cut' = cut
             \/ holder' = q /\ cut' = cut \union {q}
      BY <1>8 DEF StopJoining, Lease!Acquire
    <2> QED
      BY <1>a, <2>1 DEF Joining, Guarded, Releasing
  <1>9. ASSUME NEW q \in Presses, StopReleasing(q) PROVE FALSE
    <2>1. /\ shown[q] = "running"
          /\ \/ holder' = holder /\ cut' = cut \union {q}
             \/ holder' = Nobody
      BY <1>9 DEF StopReleasing, Running, Lease!GiveBack
    <2> QED
      BY <1>a, <1>b, <1>c, <2>1
  <1>10. CASE DrainStep
    BY <1>2, <1>3, <1>4, <1>5, <1>6, <1>7, <1>8, <1>9, <1>10 DEF DrainStep
  <1>11. ASSUME NEW q \in Presses, Press(q)
         PROVE  shown'[p] = "running" /\ task' \in Guarded \union Releasing
    <2>1. /\ holder' = holder /\ cut' = cut
          /\ shown[p] = "running" => shown'[p] = "running"
          /\ task \in Alive => task' = task
      BY <1>11 DEF Press, TypeOK, MarkFollowsTask
    <2> QED
      BY <1>a, <2>1 DEF Alive, AtWork
  <1>12. ASSUME NEW q \in Presses, TurnEnds(q)
         PROVE  shown'[p] = "running" /\ task' \in Guarded \union Releasing
    BY <1>1, <1>12 DEF TurnEnds
  <1>13. CASE Cancel
    <2>1. /\ UNCHANGED <<holder, cut, task>>
          /\ shown[p] = "running" => shown'[p] = "running"
      BY <1>13 DEF Cancel
    <2> QED
      BY <1>a, <2>1
  <1>14. CASE Elsewhere
    <2>1. UNCHANGED <<shown, task, cut>> /\ (holder' = holder \/ holder' \in Others \union {Nobody})
      BY <1>14 DEF Elsewhere, Lease!Acquire, Lease!GiveBack, Lease!Retire
    <2> QED
      BY <1>a, <1>c, <2>1
  <1>15. CASE UNCHANGED vars
    BY <1>1, <1>15 DEF vars
  <1> QED
    BY <1>5, <1>10, <1>11, <1>12, <1>13, <1>14, <1>15 DEF Next

\* A dispatch that is over holds the project no longer, unless its release
\* raised or a cancellation reached the release itself or the save that joined
\* (topic_dispatch.py: the finally of dispatch).
THEOREM OnlyTheLivingHold == Spec => []HeldOnlyByTheLiving
  <1> DEFINE IInv == TypeOK /\ Order /\ MarkFollowsTask /\ HeldInside
  <1>1. Init => IInv
    <2>1. Init => HeldInside
      BY NamesAssumption DEF Init, HeldInside
    <2> QED
      BY <2>1, QueueStarts
  <1>2. IInv /\ [Next]_vars => IInv'
    BY TypesStay, OrderStays, HoldStays DEF Order
  <1>3. IInv => HeldOnlyByTheLiving
    BY DEF HeldInside, HeldOnlyByTheLiving, Joining, Guarded, Releasing
  <1> QED
    BY <1>1, <1>2, <1>3, PTL DEF Spec

(***************************************************************************)
(* What is before a press: those that wait in front of it, and the awaits  *)
(* of the dispatch that runs.                                              *)
(***************************************************************************)
\* The place of a waiting press in the queue.
PlaceOf(p) == IF shown[p] = "queued" THEN CHOOSE i \in DOMAIN queue : queue[i] = p ELSE 0

\* The awaits of the dispatch that runs, of which the turn's answer is one.
Stage ==
  CASE task = "resolving"  -> 11
    [] task = "loading"    -> 10
    [] task = "creating"   -> 9
    [] task = "joining"    -> 8
    [] task = "attaching"  -> 7
    [] task = "admitting"  -> 6
    [] task = "waiting"    -> IF \E q \in Presses : Running(q) /\ turn[q] = "running" THEN 5 ELSE 4
    [] task = "settling"   -> 4
    [] task = "releasing"  -> 3
    [] task = "returning"  -> 2
    [] task = "rereading"  -> 1
    [] OTHER -> 0

\* Fewer presses in front, or as many and fewer awaits.
Nearer(p) == PlaceOf(p)' < PlaceOf(p) \/ (PlaceOf(p)' = PlaceOf(p) /\ Stage' < Stage)

Waits(p) == Attended(p) \/ Running(p)

\* A step of the drain, or the one of its turn that it waits for.
ServiceStep ==
  \/ DrainStep
  \/ \E q \in Presses : TimeOut(q) \/ (task = "waiting" /\ Running(q) /\ TurnEnds(q))

\* A press that is attended or runs comes nearer to its end with each of them, and
\* no other press, cancel or holder of the project sets it back; it goes on
\* being attended until it runs, and running until it is over.
PressesComeCloser ==
  [][\A p \in Presses : Waits(p) =>
       \/ shown'[p] \in Ended
       \/ /\ Waits(p)'
          /\ ServiceStep => Nearer(p)
          /\ Nearer(p) \/ (PlaceOf(p)' = PlaceOf(p) /\ Stage' = Stage)]_vars

\* While a press waits or runs there is a drain at work on it, and a drain that
\* awaits a turn awaits one that was started.
DrainIsAtWork ==
  /\ \A p \in Presses : Waits(p) => task \in Alive
  /\ \A p \in Presses : Running(p) /\ task = "waiting" => turn[p] # "none"

StageStarted == \A p \in Presses : Running(p) /\ task = "waiting" => turn[p] # "none"

\* A press is at one place.
OnePlace ==
  \A p \in Presses : \A i \in DOMAIN queue :
    queue[i] = p => shown[p] = "queued" /\ PlaceOf(p) = i /\ i \in Nat /\ i >= 1

LEMMA PlaceIs == TypeOK /\ InOrder => OnePlace
  <1> SUFFICES ASSUME NEW p \in Presses, NEW i \in DOMAIN queue, TypeOK, InOrder, queue[i] = p
               PROVE  shown[p] = "queued" /\ PlaceOf(p) = i /\ i \in Nat /\ i >= 1
    BY DEF OnePlace
  <1>1. shown[p] = "queued"
    BY DEF InOrder
  <1>2. \A j \in DOMAIN queue : queue[j] = p => j = i
    <2> SUFFICES ASSUME NEW j \in DOMAIN queue, queue[j] = p, j # i PROVE FALSE
      OBVIOUS
    <2>1. i < j \/ j < i
      BY DEF TypeOK
    <2>2. p < p
      BY <2>1 DEF InOrder
    <2> QED
      BY <2>2 DEF Presses
  <1>3. (CHOOSE j \in DOMAIN queue : queue[j] = p) = i
    BY <1>2
  <1> QED
    BY <1>1, <1>3 DEF PlaceOf, TypeOK

LEMMA PlaceIsThen == TypeOK' /\ InOrder' => OnePlace'
  BY PlaceIs, PTL

\* The drain takes the first of the queue, and the others move up.
LEMMA AdvanceBringsNearer ==
  ASSUME TypeOK, InOrder, TypeOK', InOrder', NEW p \in Presses, shown[p] = "queued",
         NEW frames \in [Presses -> {"new", "queued", "running"} \union Ended],
         frames[p] = "queued", Advance(frames)
  PROVE  /\ task' = "resolving" /\ PlaceOf(p)' < PlaceOf(p)
         /\ shown'[p] \in {"running", "queued"}
  <1>1. PICK i \in DOMAIN queue : queue[i] = p
    BY DEF InOrder
  <1>2. PlaceOf(p) = i /\ i \in Nat /\ i >= 1
    BY <1>1, PlaceIs DEF OnePlace
  <1>3. queue # <<>> /\ Head(queue) = queue[1] /\ Head(queue) \in Presses
    BY <1>1 DEF TypeOK
  <1>4. /\ task' = "resolving" /\ queue' = Tail(queue)
        /\ shown' = [frames EXCEPT ![Head(queue)] = "running"]
    BY <1>3 DEF Advance
  <1>5. CASE i = 1
    <2>1. shown'[p] = "running"
      BY <1>1, <1>3, <1>4, <1>5
    <2>2. PlaceOf(p)' = 0
      BY <2>1 DEF PlaceOf
    <2> QED
      BY <1>2, <1>4, <2>1, <2>2
  <1>6. CASE i # 1
    <2>1. i - 1 \in DOMAIN queue' /\ queue'[i - 1] = p
      BY <1>1, <1>3, <1>4, <1>6 DEF TypeOK
    <2>2. shown'[p] = "queued" /\ PlaceOf(p)' = i - 1
      BY <2>1, PlaceIsThen DEF OnePlace
    <2> QED
      BY <1>2, <1>4, <2>2
  <1> QED
    BY <1>5, <1>6

\* A step within one dispatch takes an await off it, and only a cancellation
\* that has reached the drain makes its release the last thing it does.
LEMMA WithinComesNearer ==
  ASSUME TypeOK, OneAtATime, DrainStep, Within
  PROVE  /\ Stage' < Stage
         /\ ~stop /\ task' \in Releasing =>
              (task \in Releasing /\ ending' = ending) \/ ending' # "cancelled"
  <1>0. task \in AtWork /\ task' \in AtWork /\ queue' = queue
    BY DEF Within
  <1> DEFINE Stays == ~stop => (task \in Releasing /\ ending' = ending) \/ ending' # "cancelled" \/ task' \notin Releasing
             Falls(from, to) == task \in from /\ task' = to
  <1>1. CASE Resolve \/ LoadProject \/ CreateSession \/ Attach
    BY <1>1 DEF Resolve, LoadProject, CreateSession, Attach, Step, At, Stage, Releasing
  <1>2. CASE FailGuarded \/ StopGuarded \/ StopSettling
    BY <1>2 DEF FailGuarded, StopGuarded, StopSettling, Finally, Guarded, Stage
  <1>3. ASSUME NEW p \in Presses, SaveJoin(p) \/ LoadHeld(p)
        PROVE  Stage' < Stage /\ Stays
    BY <1>3 DEF SaveJoin, LoadHeld, Step, At, Stage, Releasing
  <1>4. ASSUME NEW p \in Presses, StartTurn(p) \/ Answered(p)
        PROVE  Stage' < Stage /\ Stays
    BY <1>4 DEF StartTurn, Answered, Finally, At, Stage, Releasing
  <1>5. ASSUME NEW p \in Presses, NEW outcome \in Ended, Record(p, outcome)
        PROVE  FALSE
    <2>1. CASE queue = <<>>
      BY <1>0, <1>5, <2>1 DEF Record, Advance, AtWork, Joining, Guarded, Releasing
    <2>2. CASE queue # <<>>
      <3>1. queue' = Tail(queue) /\ queue \in Seq(Presses)
        BY <1>5, <2>2 DEF Record, Advance, TypeOK
      <3>2. Len(Tail(queue)) = Len(queue) - 1 /\ Len(queue) \in Nat
        BY <2>2, <3>1
      <3>3. Tail(queue) = queue
        BY <1>0, <3>1
      <3>4. Len(queue) = Len(queue) - 1
        BY <3>2, <3>3
      <3> QED
        BY <3>2, <3>4
    <2> QED
      BY <2>1, <2>2
  <1>6. ASSUME NEW p \in Presses, Die(p) PROVE FALSE
    BY <1>0, <1>6 DEF Die, AtWork, Joining, Guarded, Releasing
  <1>7. CASE Begin \/ NeverBegins
    BY <1>0, <1>7 DEF Begin, NeverBegins, At, AtWork, Joining, Guarded, Releasing
  <1>8. ASSUME NEW p \in Presses, FailToJoin(p) \/ FailToRelease(p) \/ Reread(p) PROVE FALSE
    BY <1>5, <1>8 DEF FailToJoin, FailToRelease, Reread, Ended
  <1>9. ASSUME NEW p \in Presses, StopJoining(p) \/ StopReleasing(p) PROVE FALSE
    BY <1>6, <1>9 DEF StopJoining, StopReleasing
  <1>10. ASSUME NEW p \in Presses, NothingToRelease(p) \/ SaveRelease(p)
         PROVE  Stage' < Stage /\ Stays
    <2>1. AfterRelease(p) /\ task \in Releasing
      BY <1>6, <1>10 DEF NothingToRelease, SaveRelease, At, Releasing
    <2>2. task' = "rereading"
      BY <1>5, <2>1 DEF AfterRelease, TypeOK
    <2> QED
      BY <2>1, <2>2 DEF Stage, Releasing
  <1> QED
    BY <1>1, <1>2, <1>3, <1>4, <1>7, <1>8, <1>9, <1>10 DEF DrainStep

\* A drain leaves presses behind only if it was cancelled.
LEMMA OnlyTheCancelledLeave ==
  ASSUME TypeOK, OneAtATime, DrainStep, task \in AtWork, task' = "none", queue # <<>>
  PROVE  stop \/ (task \in Releasing /\ ending = "cancelled")
  <1> SUFFICES ASSUME ~stop, task \notin Releasing \/ ending # "cancelled" PROVE FALSE
    OBVIOUS
  <1>1. CASE Resolve \/ LoadProject \/ CreateSession \/ Attach \/ FailGuarded
    BY <1>1 DEF Resolve, LoadProject, CreateSession, Attach, FailGuarded, Step, Finally
  <1>2. CASE StopGuarded \/ StopSettling \/ NeverBegins
    BY <1>2 DEF StopGuarded, StopSettling, NeverBegins
  <1>3. ASSUME NEW p \in Presses, SaveJoin(p) \/ StartTurn(p) \/ Answered(p) \/ LoadHeld(p) PROVE FALSE
    BY <1>3 DEF SaveJoin, StartTurn, Answered, LoadHeld, Step, Finally
  <1>4. ASSUME NEW p \in Presses, NEW outcome \in Ended, Record(p, outcome) PROVE FALSE
    BY <1>4 DEF Record, Advance
  <1>5. ASSUME NEW p \in Presses, FailToJoin(p) \/ FailToRelease(p) \/ Reread(p) PROVE FALSE
    BY <1>4, <1>5 DEF FailToJoin, FailToRelease, Reread, Ended
  <1>6. ASSUME NEW p \in Presses, NothingToRelease(p) \/ SaveRelease(p) PROVE FALSE
    <2>1. AfterRelease(p)
      BY <1>6 DEF NothingToRelease, SaveRelease, At, Releasing
    <2> QED
      BY <1>4, <2>1 DEF AfterRelease, TypeOK
  <1>7. ASSUME NEW p \in Presses, StopJoining(p) \/ StopReleasing(p) PROVE FALSE
    BY <1>7 DEF StopJoining, StopReleasing
  <1>8. CASE Begin
    BY <1>8 DEF Begin, At, AtWork, Joining, Guarded, Releasing
  <1> QED
    BY <1>1, <1>2, <1>3, <1>5, <1>6, <1>7, <1>8 DEF DrainStep

\* The drain awaits a turn because it has started it.
LEMMA WaitingIsStarted ==
  ASSUME TypeOK, OneAtATime, DrainStep, task' = "waiting"
  PROVE  \E p \in Presses : StartTurn(p)
  <1>1. ~(Resolve \/ LoadProject \/ CreateSession \/ Attach \/ FailGuarded \/ StopGuarded
            \/ StopSettling \/ NeverBegins)
    BY DEF Resolve, LoadProject, CreateSession, Attach, FailGuarded, StopGuarded, StopSettling,
           NeverBegins, Step, Finally
  <1>2. ASSUME NEW frames, Advance(frames) PROVE FALSE
    BY <1>2 DEF Advance
  <1>3. ASSUME NEW p \in Presses, FailToJoin(p) \/ FailToRelease(p) \/ Reread(p) \/ Begin PROVE FALSE
    BY <1>2, <1>3 DEF FailToJoin, FailToRelease, Reread, Begin, Record
  <1>4. ASSUME NEW p \in Presses, Die(p) \/ AfterRelease(p) PROVE FALSE
    BY <1>2, <1>4 DEF Die, AfterRelease, Record
  <1>5. ASSUME NEW p \in Presses, SaveJoin(p) \/ Answered(p) \/ LoadHeld(p) PROVE FALSE
    BY <1>5 DEF SaveJoin, Answered, LoadHeld, Step, Finally
  <1>6. ASSUME NEW p \in Presses, NothingToRelease(p) \/ SaveRelease(p) PROVE FALSE
    BY <1>4, <1>6 DEF NothingToRelease, SaveRelease
  <1>7. ASSUME NEW p \in Presses, StopJoining(p) \/ StopReleasing(p) PROVE FALSE
    BY <1>4, <1>7 DEF StopJoining, StopReleasing
  <1>8. ~Begin
    BY <1>2 DEF Begin
  <1> QED
    BY <1>1, <1>3, <1>5, <1>6, <1>7, <1>8 DEF DrainStep

\* So the turn that it awaits runs, or is over.
LEMMA StartedStays ==
  TypeOK /\ OneAtATime /\ MarkFollowsTask /\ StageStarted /\ [Next]_vars => StageStarted'
  <1> SUFFICES ASSUME TypeOK, OneAtATime, MarkFollowsTask, StageStarted, [Next]_vars,
                      NEW p \in Presses, shown'[p] = "running", task' = "waiting"
               PROVE  turn'[p] # "none"
    BY DEF StageStarted, Running
  <1>0. /\ turn \in [Presses -> {"none", "running", "answered", "failed"}]
        /\ shown \in [Presses -> {"new", "queued", "running"} \union Ended]
        /\ shown[p] = "running" /\ task = "waiting" => turn[p] # "none"
    BY DEF TypeOK, StageStarted, Running
  <1>1. ASSUME NEW q \in Presses, Press(q) PROVE turn'[p] # "none"
    BY <1>0, <1>1 DEF Press
  <1>2. ASSUME NEW q \in Presses, TurnEnds(q) PROVE turn'[p] # "none"
    BY <1>0, <1>2 DEF TurnEnds
  <1>3. ASSUME NEW q \in Presses, TimeOut(q) PROVE turn'[p] # "none"
    BY <1>3 DEF TimeOut
  <1>4. CASE Cancel
    BY <1>0, <1>4 DEF Cancel
  <1>5. CASE DrainStep
    <2>1. PICK q \in Presses : StartTurn(q)
      BY <1>5, WaitingIsStarted
    <2>2. p = q
      BY <2>1 DEF StartTurn, Running, OneAtATime
    <2> QED
      BY <1>0, <2>1, <2>2 DEF StartTurn
  <1>6. CASE Elsewhere \/ UNCHANGED vars
    BY <1>0, <1>6 DEF Elsewhere, vars
  <1> QED
    BY <1>1, <1>2, <1>3, <1>4, <1>5, <1>6 DEF Next

\* What is before a press is read off the queue, the frames, the task and the
\* turn of the press that runs.
LEMMA BeforeIsKept ==
  ASSUME NEW p \in Presses, task' = task, (shown[p] = "queued" <=> shown'[p] = "queued"),
         shown[p] = "queued" => queue' = queue,
         \A q \in Presses : (Running(q) <=> Running(q)')
                          /\ (task = "waiting" /\ Running(q) => turn'[q] = turn[q])
  PROVE  PlaceOf(p)' = PlaceOf(p) /\ Stage' = Stage
  <1>1. ASSUME shown[p] = "queued" PROVE PlaceOf(p)' = PlaceOf(p)
    BY <1>1 DEF PlaceOf
  <1>2. ASSUME shown[p] # "queued" PROVE PlaceOf(p)' = PlaceOf(p)
    <2>1. PlaceOf(p) = 0
      BY <1>2 DEF PlaceOf
    <2>2. PlaceOf(p)' = 0
      BY <1>2 DEF PlaceOf
    <2> QED
      BY <2>1, <2>2
  <1>3. task = "waiting" =>
          ((\E q \in Presses : Running(q) /\ turn[q] = "running")'
             <=> \E q \in Presses : Running(q) /\ turn[q] = "running")
    OBVIOUS
  <1>4. Stage' = Stage
    BY <1>3 DEF Stage
  <1> QED
    BY <1>1, <1>2, <1>4

\* The drain's own steps.
LEMMA DrainBringsNearer ==
  ASSUME QueueInv, QueueInv', DrainStep, NEW p \in Presses, Waits(p)
  PROVE  shown'[p] \in Ended \/ (Waits(p)' /\ Nearer(p))
  <1>0. /\ TypeOK /\ InOrder /\ OneAtATime /\ TypeOK' /\ InOrder'
        /\ shown \in [Presses -> {"new", "queued", "running"} \union Ended]
        /\ shown[p] # "queued" => PlaceOf(p) = 0
        /\ shown'[p] # "queued" => PlaceOf(p)' = 0
    BY DEF QueueInv, TypeOK, PlaceOf
  <1>1. CASE Within
    <2>1. /\ Stage' < Stage
          /\ ~stop /\ task' \in Releasing => (task \in Releasing /\ ending' = ending) \/ ending' # "cancelled"
      BY <1>0, <1>1, WithinComesNearer
    <2>2. PlaceOf(p)' = PlaceOf(p) /\ task' \in Alive /\ shown' = shown /\ (stop' => stop)
      BY <1>1 DEF Within, PlaceOf, Alive
    <2>3. Waits(p)'
      BY <2>1, <2>2 DEF Waits, Attended, Running
    <2> QED
      BY <2>1, <2>2, <2>3 DEF Nearer
  <1>2. ASSUME NEW frames \in [Presses -> {"new", "queued", "running"} \union Ended],
               Advance(frames), shown[p] = "queued", frames[p] = "queued", ~stop'
        PROVE  Waits(p)' /\ Nearer(p)
    <2>1. task' = "resolving" /\ PlaceOf(p)' < PlaceOf(p) /\ shown'[p] \in {"running", "queued"}
      BY <1>0, <1>2, AdvanceBringsNearer
    <2>2. Waits(p)'
      BY <1>2, <2>1 DEF Waits, Attended, Running, Alive, AtWork, Joining, Releasing
    <2> QED
      BY <2>1, <2>2 DEF Nearer
  <1>3. CASE GoesOn
    <2>1. PICK q \in Presses : Running(q) /\ \E outcome \in Ended : Record(q, outcome)
      BY <1>3 DEF GoesOn
    <2>2. PICK outcome \in Ended : Record(q, outcome)
      BY <2>1
    <2> DEFINE frames == [shown EXCEPT ![q] = outcome]
    <2>3. frames \in [Presses -> {"new", "queued", "running"} \union Ended] /\ Advance(frames) /\ ~stop'
      BY <1>0, <1>3, <2>2 DEF Record, GoesOn
    <2>4. CASE p = q
      <3>1. queue # <<>> => Head(queue) # p /\ Head(queue) \in Presses
        <4> SUFFICES ASSUME queue # <<>> PROVE Head(queue) # p /\ Head(queue) \in Presses
          OBVIOUS
        <4>1. 1 \in DOMAIN queue /\ Head(queue) = queue[1] /\ queue[1] \in Presses
          BY <1>0 DEF TypeOK
        <4>2. shown[queue[1]] = "queued"
          BY <1>0, <4>1 DEF InOrder
        <4> QED
          BY <2>1, <2>4, <4>1, <4>2 DEF Running
      <3>2. shown'[p] = outcome
        BY <1>0, <2>3, <2>4, <3>1 DEF Advance
      <3> QED
        BY <3>2
    <2>5. CASE p # q
      <3>1. shown[p] = "queued"
        BY <1>0, <2>1, <2>5 DEF Waits, Attended, OneAtATime
      <3>2. frames[p] = "queued"
        BY <1>0, <2>5, <3>1
      <3> QED
        BY <1>2, <2>3, <3>1, <3>2
    <2> QED
      BY <2>4, <2>5
  <1>4. CASE Leaves
    <2>1. PICK q \in Presses : Running(q) /\ Die(q)
      BY <1>4 DEF Leaves
    <2>2. CASE p = q
      <3>1. shown'[p] = "cancelled"
        BY <1>0, <2>1, <2>2 DEF Die
      <3> QED
        BY <3>1 DEF Ended
    <2>3. CASE p # q
      <3>1. shown[p] = "queued" /\ Attended(p)
        BY <1>0, <2>1, <2>3 DEF Waits, Attended, OneAtATime
      <3>2. queue # <<>>
        BY <1>0, <3>1 DEF InOrder
      <3>3. stop \/ (task \in Releasing /\ ending = "cancelled")
        BY <1>0, <1>4, <2>1, <3>2, OnlyTheCancelledLeave DEF Leaves, Die
      <3> QED
        BY <3>1, <3>3 DEF Attended
    <2> QED
      BY <2>2, <2>3
  <1>5. CASE Begin
    <2>1. shown[p] = "queued" /\ ~stop /\ stop' = stop /\ Advance(shown)
      BY <1>0, <1>5 DEF Begin, At, Waits, Attended, OneAtATime, AtWork, Joining, Guarded, Releasing
    <2> QED
      BY <1>0, <1>2, <2>1
  <1>6. CASE NeverBegins
    BY <1>0, <1>6 DEF NeverBegins, Waits, Attended, OneAtATime, AtWork, Joining, Guarded, Releasing
  <1> QED
    BY <1>0, <1>1, <1>3, <1>4, <1>5, <1>6, DrainDoes DEF DrainMoves

\* An attended press has a drain at work, with a turn to await where it awaits
\* one, and each step of the drain brings it nearer to its end: the presses in
\* front of it fall, or the awaits of the one that runs do.  No later press, no
\* cancel and no holder of the project sets it back (dispatch.py: start, cancel
\* and _drain; topic_dispatch.py: dispatch).
THEOREM PressesAreReached == Spec => []DrainIsAtWork /\ PressesComeCloser
  <1> DEFINE IInv == TypeOK /\ Order /\ MarkFollowsTask /\ StageStarted
  <1>1. Init => IInv
    <2>1. Init => StageStarted
      BY DEF Init, StageStarted
    <2> QED
      BY <2>1, QueueStarts
  <1>2. IInv /\ [Next]_vars => IInv'
    BY TypesStay, OrderStays, StartedStays DEF Order
  <1>3. IInv => DrainIsAtWork
    BY DEF Order, OneAtATime, StageStarted, DrainIsAtWork, Waits, Attended, Running, Alive
  <1>4. IInv /\ IInv' /\ [Next]_vars
          => [\A p \in Presses : Waits(p) =>
                \/ shown'[p] \in Ended
                \/ /\ Waits(p)'
                   /\ ServiceStep => Nearer(p)
                   /\ Nearer(p) \/ (PlaceOf(p)' = PlaceOf(p) /\ Stage' = Stage)]_vars
    <2> SUFFICES ASSUME IInv, IInv', Next, NEW p \in Presses, Waits(p)
                 PROVE  \/ shown'[p] \in Ended
                        \/ /\ Waits(p)'
                           /\ ServiceStep => Nearer(p)
                           /\ Nearer(p) \/ (PlaceOf(p)' = PlaceOf(p) /\ Stage' = Stage)
      OBVIOUS
    <2>0. /\ QueueInv /\ QueueInv' /\ StageStarted
          /\ shown \in [Presses -> {"new", "queued", "running"} \union Ended]
          /\ turn \in [Presses -> {"none", "running", "answered", "failed"}]
          /\ task \in Alive /\ draining
      BY <1>3 DEF QueueInv, Order, TypeOK, MarkFollowsTask, DrainIsAtWork
    <2> HIDE DEF IInv
    <2>1. CASE DrainStep
      BY <2>0, <2>1, DrainBringsNearer
    <2>2. ASSUME NEW q \in Presses, TimeOut(q) \/ (task = "waiting" /\ Running(q) /\ TurnEnds(q))
          PROVE  Waits(p)' /\ Nearer(p)
      <3>1. /\ task = "waiting" /\ Running(q) /\ turn[q] = "running"
            /\ UNCHANGED <<queue, shown, stop, ending>>
            /\ task' \in {"waiting", "settling"}
        BY <2>2 DEF TimeOut, TurnEnds, At
      <3>2. PlaceOf(p)' = PlaceOf(p)
        BY <3>1 DEF PlaceOf
      <3>3. Stage = 5
        BY <3>1 DEF Stage
      <3>4. Stage' = 4
        <4>1. CASE task' = "settling"
          BY <4>1 DEF Stage
        <4>2. CASE task' = "waiting"
          <5>1. TurnEnds(q)
            BY <2>2, <4>2 DEF TimeOut
          <5>2. turn'[q] # "running"
            BY <2>0, <5>1 DEF TurnEnds
          <5>3. \A v \in Presses : Running(v)' => v = q
            BY <2>0, <3>1 DEF QueueInv, OneAtATime, Running
          <5> QED
            BY <4>2, <5>2, <5>3 DEF Stage
        <4> QED
          BY <3>1, <4>1, <4>2
      <3>5. Waits(p)'
        BY <3>1 DEF Waits, Attended, Running, Alive, AtWork, Guarded, Releasing
      <3> QED
        BY <3>2, <3>3, <3>4, <3>5 DEF Nearer
    <2>3. ASSUME NEW q \in Presses, Press(q)
          PROVE  Waits(p)' /\ PlaceOf(p)' = PlaceOf(p) /\ Stage' = Stage
      <3>1. /\ shown[q] = "new" /\ shown' = [shown EXCEPT ![q] = "queued"] /\ task' = task
            /\ queue' = Append(queue, q) /\ UNCHANGED <<stop, ending, turn>>
        BY <2>0, <2>3 DEF Press
      <3>2. p # q /\ shown'[p] = shown[p] /\ \A v \in Presses : Running(v) <=> Running(v)'
        BY <2>0, <3>1 DEF Waits, Attended, Running
      <3>3. Waits(p)'
        BY <3>1, <3>2 DEF Waits, Attended, Running
      <3>4. CASE shown[p] = "queued"
        <4>1. PICK i \in DOMAIN queue : queue[i] = p
          BY <2>0, <3>4 DEF QueueInv, InOrder
        <4>2. i \in DOMAIN queue' /\ queue'[i] = p
          BY <2>0, <3>1, <4>1 DEF QueueInv, TypeOK
        <4>3. PlaceOf(p) = i /\ PlaceOf(p)' = i
          BY <2>0, <4>1, <4>2, PlaceIs, PlaceIsThen DEF QueueInv, OnePlace
        <4>4. Stage' = Stage
          BY <3>1, <3>2 DEF Stage
        <4> QED
          BY <3>3, <4>3, <4>4
      <3>5. CASE shown[p] # "queued"
        BY <3>1, <3>2, <3>3, <3>5, BeforeIsKept
      <3> QED
        BY <3>4, <3>5
    <2>4. CASE Cancel
      <3>1. /\ shown' = [v \in Presses |-> IF shown[v] = "queued" THEN "cancelled" ELSE shown[v]]
            /\ UNCHANGED <<task, ending, turn>>
        BY <2>4 DEF Cancel
      <3>2. CASE shown[p] = "queued"
        BY <3>1, <3>2 DEF Ended
      <3>3. CASE shown[p] # "queued"
        <4>1. Running(p) /\ shown'[p] = shown[p] /\ \A v \in Presses : Running(v) <=> Running(v)'
          BY <3>1, <3>3 DEF Waits, Attended, Running
        <4>2. Waits(p)' /\ PlaceOf(p)' = PlaceOf(p) /\ Stage' = Stage
          BY <3>1, <3>3, <4>1, BeforeIsKept DEF Waits
        <4> QED
          BY <2>1, <2>2, <4>2 DEF ServiceStep
      <3> QED
        BY <3>2, <3>3
    <2>5. ASSUME NEW q \in Presses, TurnEnds(q), ~(task = "waiting" /\ Running(q))
          PROVE  Waits(p)' /\ PlaceOf(p)' = PlaceOf(p) /\ Stage' = Stage
      <3>1. UNCHANGED <<queue, shown, task, stop, ending>>
        BY <2>5 DEF TurnEnds
      <3>2. \A v \in Presses : task = "waiting" /\ Running(v) => turn'[v] = turn[v]
        BY <2>0, <2>5 DEF TurnEnds
      <3>3. Waits(p)' /\ \A v \in Presses : Running(v) <=> Running(v)'
        BY <3>1 DEF Waits, Attended, Running
      <3> QED
        BY <3>1, <3>2, <3>3, BeforeIsKept
    <2>6. ASSUME Elsewhere PROVE Waits(p)' /\ PlaceOf(p)' = PlaceOf(p) /\ Stage' = Stage
      <3>1. UNCHANGED <<queue, shown, task, stop, ending, turn>>
        BY <2>6 DEF Elsewhere
      <3>2. Waits(p)' /\ \A v \in Presses : Running(v) <=> Running(v)'
        BY <3>1 DEF Waits, Attended, Running
      <3> QED
        BY <3>1, <3>2, BeforeIsKept
    <2> QED
      BY <2>1, <2>2, <2>3, <2>4, <2>5, <2>6 DEF Next, ServiceStep
  <1> QED
    BY <1>1, <1>2, <1>3, <1>4, PTL DEF Spec, PressesComeCloser

(***************************************************************************)
(* AuthoringRun: the strengthening.                                        *)
(***************************************************************************)
\* The awaits of a target's task.
InTarget == {"joining", "turn", "files", "releasing"}

\* The outcomes of a run are those of its first n targets.
OutcomesUpTo(r, n) == \A t \in Targets : log[r].outcome[t] # "none" <=> t <= n

\* What is on a run's stream is what its driver has come to.
StreamOf(r) ==
  /\ pc[r] \in {"new", "starting"} => log[r].status = "new" /\ r \notin asked
  /\ pc[r] \in {"new", "starting", "fresh"} => OutcomesUpTo(r, 0) /\ ~stopped[r]
  /\ Driven(r) => log[r].status = "running"
  /\ log[r].status \in SettledStatus => pc[r] = "over" /\ log[r].status = Status(r)
  /\ pc[r] \in {"working", "recording"} => OutcomesUpTo(r, target[r] - 1)
  /\ pc[r] = "noting" => OutcomesUpTo(r, target[r])
  /\ pc[r] \in {"settling", "over"} =>
       stopped[r] \/ \A t \in TargetsOf(r) : log[r].outcome[t] # "none"
  /\ \A t, u \in Targets :
       u <= t /\ log[r].outcome[t] # "none" => log[r].outcome[u] # "none"

StreamFollows == \A r \in Runs : StreamOf(r)

\* The evaluations that a target which ends well must have.
Due(t) == IF t = Overview THEN 0 ELSE NPhases

\* The evaluations of a target, noted by its task and then appended, are at least
\* its phases when it ends well, and never more than two for each of them; the
\* overview has none.
NotesOf(r) ==
  /\ work[r] \in InTarget => pc[r] = "working"
  /\ pc[r] = "working" => work[r] # "none"
  /\ pc[r] = "recording" => work[r] = "over"
  /\ work[r] = "joining" => phase[r] = 1 /\ ~again[r] /\ notes[r] = 0
  /\ work[r] \in {"turn", "files"} =>
       /\ phase[r] - 1 <= notes[r]
       /\ notes[r] <= 2 * (phase[r] - 1) + (IF again[r] THEN 1 ELSE 0)
  /\ pc[r] \in {"working", "recording"} /\ work[r] \in {"releasing", "over"} =>
       (finish[r] = "ok" => notes[r] >= Due(target[r]))
  /\ \A t \in Targets :
       /\ log[r].outcome[t] = "none" => log[r].checks[t] = 0
       /\ log[r].outcome[t] = "authored" =>
            log[r].checks[t] >= Due(t) \/ (t = target[r] /\ pc[r] \in {"noting", "dead"})
  /\ pc[r] = "noting" =>
       /\ log[r].checks[target[r]] + notes[r] <= MaxNotes
       /\ log[r].outcome[target[r]] = "authored" =>
            log[r].checks[target[r]] + notes[r] >= Due(target[r])

NotesAdd == \A r \in Runs : NotesOf(r)

\* Nothing looks at the overview.
UnseenOf(r) ==
  /\ log[r].checks[Overview] = 0
  /\ pc[r] \in {"working", "recording", "noting"} /\ target[r] = Overview =>
       notes[r] = 0 /\ work[r] # "files"

OverviewUnseen == \A r \in Runs : UnseenOf(r)

\* A run that was alone has the slot, and its mark is there if it was asked to stop.
SlotIsOwn ==
  /\ \A q, r \in Runs : q # r /\ Driven(q) /\ Driven(r) => {q, r} \subseteq shared
  /\ inflight # None => pc[inflight] \in {"working", "recording", "noting"}
  /\ \A r \in Runs \ shared :
       /\ Driven(r) => tasks = r /\ frame = r /\ (mark <=> r \in asked)
       /\ pc[r] = "working" => inflight = r
       /\ hurry[r] \/ finish[r] = "cancelled" \/ stopped[r] => r \in asked

AuthoringIInv == AuthoringTypes /\ StreamFollows /\ NotesAdd /\ OverviewUnseen /\ SlotIsOwn

\* The driver of a run at the top of its loop, with the target t before it.
AtLoopTop(r, t) ==
  /\ pc[r] \in {"fresh", "noting"}
  /\ OutcomesUpTo(r, t - 1)
  /\ pc[r] = "noting" => notes[r] = 0 /\ t = target[r] + 1
  /\ NextTarget(r, t)
  /\ UNCHANGED <<stream, finish, frame, tasks, mark, asked, shared, crashes>>

\* The numbers of the runs, targets and phases.
LEMMA AuthoringSizes ==
  /\ Runs \subseteq Nat /\ None \notin Runs
  /\ Targets = 1..Overview /\ 1 \in Targets /\ Overview \in Targets
  /\ Areas \subseteq Targets /\ Overview \notin Areas /\ Targets \ {Overview} = Areas
  /\ Phases = 1..NPhases /\ 1 \in Phases
  /\ Overview \in Nat \ {0} /\ NPhases \in Nat \ {0} /\ MaxNotes \in Nat /\ MaxNotes = 2 * NPhases
  /\ \A r \in Runs : LastTarget(r) \in Targets /\ TargetsOf(r) = 1..LastTarget(r) /\ 1 \in TargetsOf(r)
  BY SizesAssumption, AuthoringNames
     DEF Runs, Targets, Areas, Overview, Phases, MaxNotes, LastTarget, TargetsOf

\* A driver that begins, or that is through with a target, is at the top of its loop.
LEMMA LoopTop ==
  ASSUME AuthoringIInv, NEW r \in Runs, BeginRun(r) \/ NextAfter(r)
  PROVE  \E t \in 1..(Overview + 1) : AtLoopTop(r, t)
  <1> USE AuthoringSizes
  <1>1. target[r] \in Targets /\ 1 \in 1..(Overview + 1)
    BY DEF AuthoringIInv, AuthoringTypes
  <1>2. CASE BeginRun(r)
    <2>1. AtLoopTop(r, 1)
      <3>1. OutcomesUpTo(r, 0) /\ 1 - 1 = 0
        BY <1>2 DEF BeginRun, AuthoringIInv, StreamFollows, StreamOf
      <3>2. OutcomesUpTo(r, 1 - 1)
        BY <3>1
      <3> QED
        BY <1>2, <3>2 DEF BeginRun, AtLoopTop
    <2> QED
      BY <1>1, <2>1
  <1>3. CASE NextAfter(r)
    <2>1. target[r] + 1 \in 1..(Overview + 1) /\ (target[r] + 1) - 1 = target[r]
      BY <1>1
    <2>2. AtLoopTop(r, target[r] + 1)
      <3>1. OutcomesUpTo(r, target[r])
        BY <1>3 DEF NextAfter, AuthoringIInv, StreamFollows, StreamOf
      <3>2. OutcomesUpTo(r, (target[r] + 1) - 1)
        BY <2>1, <3>1
      <3>3. pc[r] = "noting" /\ notes[r] = 0 /\ NextTarget(r, target[r] + 1)
        BY <1>3 DEF NextAfter
      <3>4. UNCHANGED <<stream, finish, frame, tasks, mark, asked, shared, crashes>>
        BY <1>3 DEF NextAfter
      <3> QED
        BY <3>2, <3>3, <3>4 DEF AtLoopTop
    <2> QED
      BY <2>1, <2>2
  <1> QED
    BY <1>2, <1>3

\* Nothing has begun at the start.
LEMMA AuthoringStarts == AuthoringInit => AuthoringIInv
  <1> SUFFICES ASSUME AuthoringInit PROVE AuthoringIInv
    OBVIOUS
  <1> USE AuthoringSizes DEF AuthoringInit
  <1>1. \A r \in Runs : log[r] = [status |-> "new", outcome |-> [t \in Targets |-> "none"],
                                  checks |-> [t \in Targets |-> 0]]
    OBVIOUS
  <1>2. AuthoringTypes
    <2>1. log \in [Runs -> Run]
      BY DEF Run
    <2>2. 0 \in 0..MaxNotes /\ 0 \in 0..MaxCrashes
      BY SizesAssumption
    <2> QED
      BY <2>1, <2>2 DEF AuthoringTypes, Driving
  <1>3. StreamFollows
    BY <1>1 DEF StreamFollows, StreamOf, OutcomesUpTo, Driven, Driving, SettledStatus
  <1>4. NotesAdd
    BY <1>1 DEF NotesAdd, NotesOf, InTarget
  <1>5. OverviewUnseen
    BY <1>1 DEF OverviewUnseen, UnseenOf
  <1>6. SlotIsOwn
    BY DEF SlotIsOwn, Driven, Driving
  <1> QED
    BY <1>2, <1>3, <1>4, <1>5, <1>6 DEF AuthoringIInv

\* What an append leaves of a run is a run.
LEMMA AppendedRun ==
  ASSUME log \in [Runs -> Run], NEW r \in Runs
  PROVE  /\ \A s \in {"running"} \union SettledStatus :
              /\ [log EXCEPT ![r].status = s] \in [Runs -> Run]
              /\ [log EXCEPT ![r].status = s][r].status = s
              /\ [log EXCEPT ![r].status = s][r].outcome = log[r].outcome
              /\ [log EXCEPT ![r].status = s][r].checks = log[r].checks
         /\ \A t \in Targets, o \in {"authored", "failed"} :
              /\ [log EXCEPT ![r].outcome[t] = o] \in [Runs -> Run]
              /\ [log EXCEPT ![r].outcome[t] = o][r].status = log[r].status
              /\ [log EXCEPT ![r].outcome[t] = o][r].outcome = [log[r].outcome EXCEPT ![t] = o]
              /\ [log EXCEPT ![r].outcome[t] = o][r].checks = log[r].checks
         /\ \A t \in Targets, n \in 0..MaxNotes :
              /\ [log EXCEPT ![r].checks[t] = n] \in [Runs -> Run]
              /\ [log EXCEPT ![r].checks[t] = n][r].status = log[r].status
              /\ [log EXCEPT ![r].checks[t] = n][r].outcome = log[r].outcome
              /\ [log EXCEPT ![r].checks[t] = n][r].checks = [log[r].checks EXCEPT ![t] = n]
  <1>1. /\ log[r] \in Run /\ log[r].status \in {"new", "running"} \union SettledStatus
        /\ log[r].outcome \in [Targets -> {"none", "authored", "failed"}]
        /\ log[r].checks \in [Targets -> 0..MaxNotes]
    BY DEF Run
  <1>2. ASSUME NEW x \in Run PROVE [log EXCEPT ![r] = x] \in [Runs -> Run]
    OBVIOUS
  <1>3. ASSUME NEW s \in {"running"} \union SettledStatus
        PROVE  [log EXCEPT ![r].status = s] \in [Runs -> Run]
    <2>1. [log[r] EXCEPT !.status = s] \in Run
      BY <1>1 DEF Run
    <2> QED
      BY <1>2, <2>1
  <1>4. ASSUME NEW t \in Targets, NEW o \in {"authored", "failed"}
        PROVE  [log EXCEPT ![r].outcome[t] = o] \in [Runs -> Run]
    <2>1. [log[r].outcome EXCEPT ![t] = o] \in [Targets -> {"none", "authored", "failed"}]
      BY <1>1
    <2>2. [log[r] EXCEPT !.outcome[t] = o] \in Run
      BY <1>1, <2>1 DEF Run
    <2> QED
      BY <1>2, <2>2
  <1>5. ASSUME NEW t \in Targets, NEW n \in 0..MaxNotes
        PROVE  [log EXCEPT ![r].checks[t] = n] \in [Runs -> Run]
    <2>1. [log[r].checks EXCEPT ![t] = n] \in [Targets -> 0..MaxNotes]
      BY <1>1
    <2>2. [log[r] EXCEPT !.checks[t] = n] \in Run
      BY <1>1, <2>1 DEF Run
    <2> QED
      BY <1>2, <2>2
  <1>6. \A s : /\ [log EXCEPT ![r].status = s][r].status = s
               /\ [log EXCEPT ![r].status = s][r].outcome = log[r].outcome
               /\ [log EXCEPT ![r].status = s][r].checks = log[r].checks
    BY <1>1 DEF Run
  <1>7. \A t, o : /\ [log EXCEPT ![r].outcome[t] = o][r].status = log[r].status
                  /\ [log EXCEPT ![r].outcome[t] = o][r].outcome = [log[r].outcome EXCEPT ![t] = o]
                  /\ [log EXCEPT ![r].outcome[t] = o][r].checks = log[r].checks
    BY <1>1 DEF Run
  <1>8. \A t, n : /\ [log EXCEPT ![r].checks[t] = n][r].status = log[r].status
                  /\ [log EXCEPT ![r].checks[t] = n][r].outcome = log[r].outcome
                  /\ [log EXCEPT ![r].checks[t] = n][r].checks = [log[r].checks EXCEPT ![t] = n]
    BY <1>1 DEF Run
  <1> QED
    BY <1>3, <1>4, <1>5, <1>6, <1>7, <1>8

\* What the types say of one run.
LEMMA TypesOfARun ==
  ASSUME AuthoringTypes, NEW r \in Runs
  PROVE  /\ log[r] \in Run /\ target[r] \in Targets /\ phase[r] \in Phases
         /\ log[r].status \in {"new", "running"} \union SettledStatus
         /\ log[r].outcome \in [Targets -> {"none", "authored", "failed"}]
         /\ log[r].checks \in [Targets -> 0..MaxNotes]
         /\ notes[r] \in 0..MaxNotes /\ again[r] \in BOOLEAN
         /\ \A s \in {"running"} \union SettledStatus : [log[r] EXCEPT !.status = s] \in Run
  <1>1. /\ log[r] \in Run /\ target[r] \in Targets /\ phase[r] \in Phases
        /\ notes[r] \in 0..MaxNotes /\ again[r] \in BOOLEAN
    BY DEF AuthoringTypes
  <1> QED
    BY <1>1 DEF Run

\* A number of evaluations that a step adds or takes stays within its bounds.
LEMMA NotesAreBounded ==
  ASSUME AuthoringTypes, NotesAdd, NEW r \in Runs
  PROVE  /\ Carried(r) \in 0..MaxNotes
         /\ work[r] = "files" => notes[r] + 1 \in 0..MaxNotes
         /\ work[r] = "files" /\ phase[r] # NPhases => phase[r] + 1 \in Phases
         /\ pc[r] = "noting" /\ notes[r] > 0 =>
              /\ log[r].checks[target[r]] + 1 \in 0..MaxNotes
              /\ notes[r] - 1 \in 0..MaxNotes
  <1>1. /\ notes[r] \in 0..MaxNotes /\ phase[r] \in 1..NPhases /\ again[r] \in BOOLEAN
        /\ log[r].checks[target[r]] \in 0..MaxNotes
        /\ NPhases \in Nat /\ MaxNotes = 2 * NPhases
    BY TypesOfARun, AuthoringSizes
  <1>2. Carried(r) \in 0..MaxNotes
    BY <1>1 DEF Carried
  <1>3. work[r] = "files" => notes[r] <= 2 * (phase[r] - 1) + (IF again[r] THEN 1 ELSE 0)
    BY DEF NotesAdd, NotesOf
  <1>4. pc[r] = "noting" => log[r].checks[target[r]] + notes[r] <= MaxNotes
    BY DEF NotesAdd, NotesOf
  <1>5. work[r] = "files" => notes[r] + 1 \in 0..MaxNotes
    BY <1>1, <1>3
  <1>6. phase[r] # NPhases => phase[r] + 1 \in Phases
    BY <1>1, AuthoringSizes
  <1>7. pc[r] = "noting" /\ notes[r] > 0 =>
          /\ log[r].checks[target[r]] + 1 \in 0..MaxNotes
          /\ notes[r] - 1 \in 0..MaxNotes
    BY <1>1, <1>4
  <1> QED
    BY <1>2, <1>5, <1>6, <1>7

\* What the driver, its task and the requests may leave in the variables.
LEMMA AuthoringTypesStay == AuthoringIInv /\ [AuthoringNext]_authoringVars => AuthoringTypes'
  <1> SUFFICES ASSUME AuthoringIInv, [AuthoringNext]_authoringVars PROVE AuthoringTypes'
    OBVIOUS
  <1>0. AuthoringTypes /\ NotesAdd /\ None \notin Runs
    BY AuthoringSizes DEF AuthoringIInv
  <1> DEFINE Places == {"new", "starting", "over", "dead"} \union Driving
             Works == {"none", "joining", "turn", "files", "releasing", "over"}
             Ends == {"ok", "refused", "raised", "cancelled"}
  <1>a. /\ log \in [Runs -> Run] /\ pc \in [Runs -> Places] /\ target \in [Runs -> Targets]
        /\ stopped \in [Runs -> BOOLEAN] /\ work \in [Runs -> Works] /\ phase \in [Runs -> Phases]
        /\ again \in [Runs -> BOOLEAN] /\ notes \in [Runs -> 0..MaxNotes]
        /\ hurry \in [Runs -> BOOLEAN] /\ finish \in [Runs -> Ends]
        /\ frame \in Runs \union {None} /\ tasks \in Runs \union {None}
        /\ inflight \in Runs \union {None} /\ mark \in BOOLEAN
        /\ asked \subseteq Runs /\ shared \subseteq Runs /\ broken \subseteq Runs
        /\ crashes \in 0..MaxCrashes
    BY <1>0 DEF AuthoringTypes
  <1>b. ASSUME /\ log' \in [Runs -> Run] /\ pc' \in [Runs -> Places] /\ target' \in [Runs -> Targets]
               /\ stopped' \in [Runs -> BOOLEAN] /\ work' \in [Runs -> Works] /\ phase' \in [Runs -> Phases]
               /\ again' \in [Runs -> BOOLEAN] /\ notes' \in [Runs -> 0..MaxNotes]
               /\ hurry' \in [Runs -> BOOLEAN] /\ finish' \in [Runs -> Ends]
               /\ frame' \in Runs \union {None} /\ tasks' \in Runs \union {None}
               /\ inflight' \in Runs \union {None} /\ mark' \in BOOLEAN
               /\ asked' \subseteq Runs /\ shared' \subseteq Runs /\ broken' \subseteq Runs
               /\ crashes' \in 0..MaxCrashes
        PROVE  AuthoringTypes'
    BY <1>b DEF AuthoringTypes
  <1>c. "settling" \in Places /\ "working" \in Places /\ "dead" \in Places /\ "starting" \in Places
        /\ "fresh" \in Places /\ "recording" \in Places /\ "noting" \in Places /\ "over" \in Places
    BY DEF Driving
  <1>d. 0 \in 0..MaxNotes /\ 1 \in Phases
    BY AuthoringSizes
  <1> HIDE DEF Places
  <1>2. ASSUME NEW r \in Runs, Start(r) \/ FailStart(r) PROVE AuthoringTypes'
    <2>1. pc' \in [Runs -> Places]
      BY <1>a, <1>c, <1>2 DEF Start, FailStart
    <2>2. UNCHANGED <<stream, target, stopped, inner, memory, history>>
      BY <1>2 DEF Start, FailStart
    <2> QED
      BY <1>a, <1>b, <2>1, <2>2 DEF stream, inner, memory, history
  <1>3. ASSUME NEW r \in Runs, Register(r) PROVE AuthoringTypes'
    <2>1. log' \in [Runs -> Run]
      BY <1>a, <1>3, AppendedRun DEF Register
    <2>2. pc' \in [Runs -> Places] /\ shared' \subseteq Runs
      BY <1>a, <1>c, <1>3 DEF Register
    <2> QED
      BY <1>a, <1>b, <1>3, <2>1, <2>2 DEF Register, inner
  <1>4. ASSUME NEW r \in Runs, BeginRun(r) \/ NextAfter(r) PROVE AuthoringTypes'
    <2>1. PICK t \in 1..(Overview + 1) : AtLoopTop(r, t)
      BY <1>0, <1>4, LoopTop
    <2>2. t <= LastTarget(r) => t \in Targets
      BY AuthoringSizes
    <2>3. Popped(t) \in Runs \union {None}
      BY <1>a DEF Popped
    <2>4. NextTarget(r, t) /\ UNCHANGED <<log, finish, frame, tasks, mark, asked, shared, crashes>>
      BY <2>1 DEF AtLoopTop, stream
    <2>5. pc' \in [Runs -> Places] /\ target' \in [Runs -> Targets] /\ stopped' \in [Runs -> BOOLEAN]
      <3>1. \E place \in Places : pc' = [pc EXCEPT ![r] = place]
        BY <1>c, <2>4 DEF NextTarget
      <3>2. target' = target \/ (t <= LastTarget(r) /\ target' = [target EXCEPT ![r] = t])
        BY <2>4 DEF NextTarget
      <3>3. stopped' = stopped \/ stopped' = [stopped EXCEPT ![r] = TRUE]
        BY <2>4 DEF NextTarget
      <3>4. pc' \in [Runs -> Places]
        BY <1>a, <3>1
      <3>5. target' \in [Runs -> Targets]
        BY <1>a, <2>2, <3>2
      <3>6. stopped' \in [Runs -> BOOLEAN]
        BY <1>a, <3>3
      <3> QED
        BY <3>4, <3>5, <3>6
    <2>6. inflight' \in Runs \union {None} /\ work' \in [Runs -> Works] /\ phase' \in [Runs -> Phases]
      BY <1>a, <1>d, <2>3, <2>4 DEF NextTarget
    <2>7. /\ again' \in [Runs -> BOOLEAN] /\ notes' \in [Runs -> 0..MaxNotes]
          /\ hurry' \in [Runs -> BOOLEAN] /\ broken' = broken
      <3>1. /\ again' = again \/ again' = [again EXCEPT ![r] = FALSE]
            /\ notes' = notes \/ notes' = [notes EXCEPT ![r] = 0]
            /\ hurry' = hurry \/ hurry' = [hurry EXCEPT ![r] = FALSE]
            /\ broken' = broken
        BY <2>4 DEF NextTarget
      <3>2. again' \in [Runs -> BOOLEAN]
        BY <1>a, <3>1
      <3>3. notes' \in [Runs -> 0..MaxNotes]
        BY <1>a, <1>d, <3>1
      <3>4. hurry' \in [Runs -> BOOLEAN]
        BY <1>a, <3>1
      <3> QED
        BY <3>1, <3>2, <3>3, <3>4
    <2> QED
      BY <1>a, <1>b, <2>4, <2>5, <2>6, <2>7
  <1>5. ASSUME NEW r \in Runs, Return(r) PROVE AuthoringTypes'
    <2>1. /\ pc' \in [Runs -> Places] /\ stopped' \in [Runs -> BOOLEAN]
          /\ inflight' \in Runs \union {None} /\ notes' \in [Runs -> 0..MaxNotes]
      <3>1. /\ \E place \in {"settling", "recording"} : pc' = [pc EXCEPT ![r] = place]
            /\ stopped' = stopped \/ stopped' = [stopped EXCEPT ![r] = TRUE]
            /\ notes' = notes \/ notes' = [notes EXCEPT ![r] = 0]
            /\ inflight' = inflight \/ inflight' = None
        BY <1>5 DEF Return
      <3>2. pc' \in [Runs -> Places]
        BY <1>a, <1>c, <3>1
      <3>3. stopped' \in [Runs -> BOOLEAN]
        BY <1>a, <3>1
      <3>4. notes' \in [Runs -> 0..MaxNotes]
        BY <1>a, <1>d, <3>1
      <3>5. inflight' \in Runs \union {None}
        BY <1>a, <3>1
      <3> QED
        BY <3>2, <3>3, <3>4, <3>5
    <2> QED
      BY <1>a, <1>b, <1>5, <2>1 DEF Return, stream, history
  <1>6. ASSUME NEW r \in Runs, RecordOutcome(r) PROVE AuthoringTypes'
    <2>1. PICK o \in {"authored", "failed"} : log' = [log EXCEPT ![r].outcome[target[r]] = o]
      <3>1. log' = [log EXCEPT ![r].outcome[target[r]] = IF finish[r] = "ok" THEN "authored" ELSE "failed"]
        BY <1>6 DEF RecordOutcome
      <3> QED
        BY <3>1
    <2>2. log' \in [Runs -> Run]
      <3>1. target[r] \in Targets
        BY <1>a
      <3> QED
        BY <1>a, <2>1, <3>1, AppendedRun
    <2>4. notes' = [notes EXCEPT ![r] = Carried(r)] /\ Carried(r) \in 0..MaxNotes
      BY <1>0, <1>6, NotesAreBounded DEF RecordOutcome
    <2>5. notes' \in [Runs -> 0..MaxNotes]
      BY <1>a, <2>4
    <2>3. pc' \in [Runs -> Places] /\ work' \in [Runs -> Works] /\ finish' \in [Runs -> Ends]
          /\ phase' \in [Runs -> Phases] /\ again' \in [Runs -> BOOLEAN]
      BY <1>a, <1>c, <1>d, <1>6 DEF RecordOutcome
    <2> QED
      BY <1>a, <1>b, <1>6, <2>2, <2>3, <2>5 DEF RecordOutcome, memory, history
  <1>7. ASSUME NEW r \in Runs, RecordCheckpoint(r) PROVE AuthoringTypes'
    <2>1. log[r].checks[target[r]] + 1 \in 0..MaxNotes /\ notes[r] - 1 \in 0..MaxNotes
      BY <1>0, <1>7, NotesAreBounded DEF RecordCheckpoint
    <2>2. log' = [log EXCEPT ![r].checks[target[r]] = log[r].checks[target[r]] + 1]
      BY <1>7 DEF RecordCheckpoint
    <2>3. log' \in [Runs -> Run]
      <3>1. target[r] \in Targets
        BY <1>a
      <3> QED
        BY <1>a, <2>1, <2>2, <3>1, AppendedRun
    <2>4. notes' = [notes EXCEPT ![r] = notes[r] - 1]
      BY <1>7 DEF RecordCheckpoint
    <2>5. notes' \in [Runs -> 0..MaxNotes]
      BY <1>a, <2>1, <2>4
    <2> QED
      BY <1>a, <1>b, <1>7, <2>3, <2>5 DEF RecordCheckpoint, driver, memory, history
  <1>8. ASSUME NEW r \in Runs, Settle(r) PROVE AuthoringTypes'
    <2>1. Status(r) \in SettledStatus
      BY DEF Status, SettledStatus
    <2>2. log' \in [Runs -> Run]
      BY <1>a, <1>8, <2>1, AppendedRun DEF Settle
    <2>3. pc' \in [Runs -> Places]
      BY <1>a, <1>c, <1>8 DEF Settle
    <2> QED
      BY <1>a, <1>b, <1>8, <2>2, <2>3 DEF Settle, inner, history
  <1>9. ASSUME NEW r \in Runs, FailAppend(r) PROVE AuthoringTypes'
    <2>1. pc' \in [Runs -> Places] /\ inflight' \in Runs \union {None} /\ broken' \subseteq Runs
      BY <1>a, <1>c, <1>9 DEF FailAppend
    <2> QED
      BY <1>a, <1>b, <1>9, <2>1 DEF FailAppend, stream, inner
  <1>10. ASSUME NEW r \in Runs, Author(r) PROVE AuthoringTypes'
    <2>0. UNCHANGED untouched
      BY <1>10 DEF Author, Join, FailJoin, PhaseTurnEnds, OverviewTurnEnds,
         Raise, Pass, Refuse, Release, Interrupt
    <2> SUFFICES /\ work' \in [Runs -> Works] /\ phase' \in [Runs -> Phases]
                 /\ again' \in [Runs -> BOOLEAN] /\ notes' \in [Runs -> 0..MaxNotes]
                 /\ hurry' \in [Runs -> BOOLEAN] /\ finish' \in [Runs -> Ends]
      BY <1>a, <1>b, <2>0 DEF untouched, stream, driver, memory, history
    <2>1. CASE Join(r) \/ FailJoin(r) \/ PhaseTurnEnds(r) \/ OverviewTurnEnds(r) \/ Raise(r)
      BY <1>a, <2>1 DEF Join, FailJoin, PhaseTurnEnds, OverviewTurnEnds, Raise, LeaveTarget
    <2>2. CASE Pass(r) \/ Refuse(r)
      <3>1. work[r] = "files"
        BY <2>2 DEF Pass, Refuse, Working
      <3>2. notes[r] + 1 \in 0..MaxNotes /\ (phase[r] # NPhases => phase[r] + 1 \in Phases)
        BY <1>0, <3>1, NotesAreBounded
      <3>3. notes' = [notes EXCEPT ![r] = notes[r] + 1]
        BY <2>2 DEF Pass, Refuse, Note
      <3>4. phase' = phase \/ (phase[r] # NPhases /\ phase' = [phase EXCEPT ![r] = phase[r] + 1])
        BY <2>2 DEF Pass, Refuse
      <3>5. phase' \in [Runs -> Phases] /\ notes' \in [Runs -> 0..MaxNotes]
        BY <1>a, <3>2, <3>3, <3>4
      <3>6. /\ work' \in [Runs -> Works] /\ again' \in [Runs -> BOOLEAN] /\ hurry' = hurry
            /\ finish' \in [Runs -> Ends]
        BY <1>a, <2>2 DEF Pass, Refuse, LeaveTarget
      <3> QED
        BY <1>a, <3>5, <3>6
    <2>3. CASE Release(r)
      BY <1>a, <2>3 DEF Release
    <2>4. CASE Interrupt(r)
      BY <1>a, <2>4 DEF Interrupt, LeaveTarget
    <2> QED
      BY <1>10, <2>1, <2>2, <2>3, <2>4 DEF Author
  <1>11. CASE CancelRun
    <2>1. hurry' \in [Runs -> BOOLEAN] /\ asked' \subseteq Runs
      BY <1>a, <1>11 DEF CancelRun, Active
    <2> QED
      BY <1>a, <1>b, <1>11, <2>1 DEF CancelRun, stream, driver
  <1>12. CASE Crash
    <2>1. PICK saved \in SUBSET {r \in Runs : pc[r] = "starting"} :
            /\ log' = [r \in Runs |->
                        IF r \in saved THEN [log[r] EXCEPT !.status = "running"] ELSE log[r]]
            /\ broken' = broken \union saved \union {r \in Runs : Driven(r)}
      BY <1>12 DEF Crash
    <2>2. \A r \in Runs : [log[r] EXCEPT !.status = "running"] \in Run
      BY <1>0, TypesOfARun
    <2>3. log' \in [Runs -> Run] /\ broken' \subseteq Runs
      BY <1>a, <2>1, <2>2
    <2>4. crashes' \in 0..MaxCrashes
      BY <1>a, <1>12, SizesAssumption DEF Crash
    <2>5. /\ pc' \in [Runs -> Places] /\ work' \in [Runs -> Works]
          /\ notes' \in [Runs -> 0..MaxNotes] /\ hurry' \in [Runs -> BOOLEAN]
      BY <1>a, <1>c, <1>d, <1>12 DEF Crash
    <2> QED
      BY <1>a, <1>b, <1>12, <2>3, <2>4, <2>5 DEF Crash
  <1>13. CASE UNCHANGED authoringVars
    BY <1>a, <1>b, <1>13 DEF authoringVars, stream, driver, inner, memory, history
  <1> QED
    BY <1>2, <1>3, <1>4, <1>5, <1>6, <1>7, <1>8, <1>9, <1>10, <1>11, <1>12, <1>13
       DEF AuthoringNext, Drive

\* A step that leaves a run's driver and stream alone keeps them in step.
LEMMA StreamKept ==
  ASSUME NEW r \in Runs, StreamOf(r), UNCHANGED <<pc[r], log[r], target[r], stopped[r]>>,
         r \in asked' => r \in asked \/ Driven(r)
  PROVE  StreamOf(r)'
  BY DEF StreamOf, OutcomesUpTo, Driven, Driving, Status, With

\* Every step of the driver appends what it has come to, and no other step appends.
LEMMA StreamStays == AuthoringIInv /\ [AuthoringNext]_authoringVars => StreamFollows'
  <1> SUFFICES ASSUME AuthoringIInv, [AuthoringNext]_authoringVars, NEW r \in Runs
               PROVE  StreamOf(r)'
    BY DEF StreamFollows
  <1>0. AuthoringTypes /\ NotesAdd /\ StreamOf(r)
    BY DEF AuthoringIInv, StreamFollows
  <1>a. /\ log \in [Runs -> Run] /\ pc \in [Runs -> {"new", "starting", "over", "dead"} \union Driving]
        /\ target \in [Runs -> Targets] /\ stopped \in [Runs -> BOOLEAN]
    BY <1>0 DEF AuthoringTypes
  <1>1. ASSUME NEW q \in Runs, q # r, Start(q) \/ FailStart(q) \/ Register(q) \/ Drive(q)
        PROVE  StreamOf(r)'
    <2>1. CASE Start(q) \/ FailStart(q) \/ Return(q) \/ FailAppend(q)
      BY <1>0, <1>a, <1>1, <2>1, StreamKept DEF Start, FailStart, Return, FailAppend, stream, history
    <2>2. CASE Register(q)
      BY <1>0, <1>a, <1>1, <2>2, StreamKept DEF Register
    <2>3. CASE BeginRun(q) \/ NextAfter(q)
      <3>1. PICK t \in 1..(Overview + 1) : AtLoopTop(q, t)
        BY <2>3, LoopTop
      <3>2. UNCHANGED <<pc[r], target[r], stopped[r], log, asked>>
        BY <1>a, <1>1, <3>1 DEF AtLoopTop, NextTarget, stream
      <3> QED
        BY <1>0, <3>2, StreamKept
    <2>4. CASE RecordOutcome(q) \/ RecordCheckpoint(q) \/ Settle(q)
      <3>1. UNCHANGED <<pc[r], target, stopped, log[r], asked>>
        BY <1>a, <1>1, <2>4 DEF RecordOutcome, RecordCheckpoint, Settle, driver, history
      <3> QED
        BY <1>0, <3>1, StreamKept
    <2> QED
      BY <1>1, <2>1, <2>2, <2>3, <2>4 DEF Drive
  <1>2. CASE Start(r)
    BY <1>0, <1>a, <1>2 DEF Start, StreamOf, OutcomesUpTo, Driven, Driving, SettledStatus, stream, history
  <1>3. CASE FailStart(r)
    BY <1>0, <1>a, <1>3 DEF FailStart, StreamOf, OutcomesUpTo, Driven, Driving, SettledStatus, stream, history
  <1>4. CASE Register(r)
    <2>1. /\ log'[r].status = "running" /\ log'[r].outcome = log[r].outcome
          /\ pc'[r] = "fresh" /\ stopped' = stopped
      BY <1>a, <1>4, AppendedRun DEF Register
    <2> QED
      BY <1>0, <1>4, <2>1 DEF Register, StreamOf, OutcomesUpTo, Driven, Driving, SettledStatus
  <1>5. CASE BeginRun(r) \/ NextAfter(r)
    <2>1. PICK t \in 1..(Overview + 1) : AtLoopTop(r, t)
      BY <1>5, LoopTop
    <2>2. /\ pc[r] \in {"fresh", "noting"} /\ OutcomesUpTo(r, t - 1) /\ log' = log
          /\ log[r].status = "running"
      BY <1>0, <2>1 DEF AtLoopTop, stream, StreamOf, Driven, Driving
    <2>3. \/ pc'[r] = "settling" /\ stopped'[r]
          \/ pc'[r] = "settling" /\ t > LastTarget(r)
          \/ pc'[r] = "working" /\ target'[r] = t
          \/ pc'[r] = "dead"
      BY <1>a, <2>1 DEF AtLoopTop, NextTarget
    <2>4. t > LastTarget(r) => \A u \in TargetsOf(r) : log[r].outcome[u] # "none"
      <3> SUFFICES ASSUME t > LastTarget(r), NEW u \in TargetsOf(r) PROVE log[r].outcome[u] # "none"
        OBVIOUS
      <3>1. u \in Targets /\ u <= t - 1
        BY AuthoringSizes
      <3> QED
        BY <2>2, <3>1 DEF OutcomesUpTo
    <2>5. OutcomesUpTo(r, t - 1)'
      BY <2>2 DEF OutcomesUpTo
    <2> QED
      BY <1>0, <2>2, <2>3, <2>4, <2>5 DEF StreamOf, Driven, Driving, SettledStatus
  <1>6. CASE Return(r)
    <2>1. /\ log' = log /\ target' = target /\ pc[r] = "working"
          /\ (pc'[r] = "settling" /\ stopped'[r]) \/ pc'[r] = "recording"
      BY <1>a, <1>6 DEF Return, stream
    <2> QED
      BY <1>0, <2>1 DEF StreamOf, OutcomesUpTo, Driven, Driving, SettledStatus
  <1>7. CASE RecordOutcome(r)
    <2>1. PICK o \in {"authored", "failed"} :
            log' = [log EXCEPT ![r].outcome[target[r]] = o]
      <3>1. log' = [log EXCEPT ![r].outcome[target[r]] = IF finish[r] = "ok" THEN "authored" ELSE "failed"]
        BY <1>7 DEF RecordOutcome
      <3> QED
        BY <3>1
    <2>2. target[r] \in Targets
      BY <1>a
    <2>3. log'[r].status = log[r].status /\ log'[r].outcome = [log[r].outcome EXCEPT ![target[r]] = o]
      BY <1>a, <2>1, <2>2, AppendedRun
    <2>4. pc[r] = "recording" /\ pc'[r] = "noting" /\ target' = target
      BY <1>a, <1>7 DEF RecordOutcome
    <2>5. log[r].outcome \in [Targets -> {"none", "authored", "failed"}] /\ log[r].status = "running"
      BY <1>0, <2>4, TypesOfARun DEF StreamOf, Driven, Driving
    <2>6. OutcomesUpTo(r, target[r])'
      <3> SUFFICES ASSUME NEW t \in Targets PROVE log'[r].outcome[t] # "none" <=> t <= target[r]
        BY <2>4 DEF OutcomesUpTo
      <3>1. log[r].outcome[t] # "none" <=> t <= target[r] - 1
        BY <1>0, <2>4 DEF StreamOf, OutcomesUpTo
      <3>2. CASE t = target[r]
        BY <2>1, <2>2, <2>3, <2>5, <3>2, AuthoringSizes
      <3>3. CASE t # target[r]
        BY <2>2, <2>3, <2>5, <3>1, <3>3, AuthoringSizes
      <3> QED
        BY <3>2, <3>3
    <2>7. \A t, u \in Targets : u <= t /\ log'[r].outcome[t] # "none" => log'[r].outcome[u] # "none"
      BY <2>2, <2>4, <2>6, AuthoringSizes DEF OutcomesUpTo
    <2> QED
      BY <2>3, <2>4, <2>5, <2>6, <2>7 DEF StreamOf, Driven, Driving, SettledStatus
  <1>8. CASE RecordCheckpoint(r)
    <2>1. log[r].checks[target[r]] + 1 \in 0..MaxNotes /\ target[r] \in Targets
      BY <1>0, <1>a, <1>8, NotesAreBounded DEF RecordCheckpoint
    <2>2. log' = [log EXCEPT ![r].checks[target[r]] = log[r].checks[target[r]] + 1]
      BY <1>8 DEF RecordCheckpoint
    <2>3. log'[r].status = log[r].status /\ log'[r].outcome = log[r].outcome
      BY <1>a, <2>1, <2>2, AppendedRun
    <2>4. UNCHANGED <<pc, target, stopped, asked>> /\ pc[r] = "noting"
      BY <1>8 DEF RecordCheckpoint, driver, history
    <2> QED
      BY <1>0, <2>3, <2>4 DEF StreamOf, OutcomesUpTo, Driven, Driving, SettledStatus, Status, With
  <1>9. CASE Settle(r)
    <2>1. Status(r) \in SettledStatus
      BY DEF Status, SettledStatus
    <2>2. log'[r].status = Status(r) /\ log'[r].outcome = log[r].outcome
      BY <1>a, <1>9, <2>1, AppendedRun DEF Settle
    <2>3. pc[r] = "settling" /\ pc'[r] = "over" /\ stopped' = stopped
      BY <1>a, <1>9 DEF Settle
    <2>4. Status(r)' = Status(r)
      BY <2>2, <2>3 DEF Status, With
    <2> QED
      BY <1>0, <2>2, <2>3, <2>4 DEF StreamOf, Driven, Driving, SettledStatus
  <1>10. CASE FailAppend(r)
    <2>1. pc'[r] = "dead" /\ log' = log /\ Driven(r)
      BY <1>a, <1>10 DEF FailAppend, stream, Driven, Driving
    <2> QED
      BY <1>0, <2>1 DEF StreamOf, Driven, Driving, SettledStatus
  <1>11. ASSUME NEW q \in Runs, Author(q) PROVE StreamOf(r)'
    <2>1. UNCHANGED untouched
      BY <1>11 DEF Author, Join, FailJoin, PhaseTurnEnds, OverviewTurnEnds,
         Raise, Pass, Refuse, Release, Interrupt
    <2> QED
      BY <1>0, <2>1, StreamKept DEF untouched, stream, driver, history
  <1>12. CASE CancelRun
    <2>1. UNCHANGED <<stream, driver>> /\ asked' = asked \union {tasks} /\ Driven(tasks)
      BY <1>12 DEF CancelRun, Active
    <2> QED
      BY <1>0, <2>1, StreamKept DEF stream, driver
  <1>13. CASE Crash
    <2>1. PICK saved \in SUBSET {q \in Runs : pc[q] = "starting"} :
            log' = [q \in Runs |->
                     IF q \in saved THEN [log[q] EXCEPT !.status = "running"] ELSE log[q]]
      BY <1>13 DEF Crash
    <2>2. pc'[r] = (IF Driven(r) \/ pc[r] = "starting" THEN "dead" ELSE pc[r]) /\ UNCHANGED <<target, stopped, asked>>
      BY <1>a, <1>13 DEF Crash
    <2>3. CASE pc'[r] = "dead"
      <3>1. log[r] \in Run /\ (log'[r] = log[r] \/ (pc[r] = "starting" /\ log'[r] = [log[r] EXCEPT !.status = "running"]))
        BY <1>a, <2>1
      <3>2. log'[r].outcome = log[r].outcome /\ log'[r].status \in {log[r].status, "running"}
        BY <3>1 DEF Run
      <3>3. log[r].status \notin SettledStatus \/ pc[r] = "over"
        BY <1>0 DEF StreamOf
      <3>4. log'[r].status \in SettledStatus => pc[r] = "over"
        BY <3>2, <3>3 DEF SettledStatus
      <3>5. pc[r] # "over"
        BY <2>2, <2>3 DEF Driven, Driving
      <3> QED
        BY <1>0, <2>3, <3>2, <3>4, <3>5 DEF StreamOf, Driven, Driving
    <2>4. CASE pc'[r] = pc[r] /\ pc'[r] # "dead"
      <3>1. log'[r] = log[r]
        BY <1>a, <2>1, <2>2, <2>4
      <3> QED
        BY <1>0, <2>2, <2>4, <3>1, StreamKept
    <2> QED
      BY <2>2, <2>3, <2>4
  <1>14. CASE UNCHANGED authoringVars
    BY <1>0, <1>14, StreamKept DEF authoringVars, stream, driver, history
  <1> QED
    BY <1>1, <1>2, <1>3, <1>4, <1>5, <1>6, <1>7, <1>8, <1>9, <1>10, <1>11, <1>12, <1>13, <1>14
       DEF AuthoringNext, Drive

\* A step that leaves a run's driver, task and stream alone leaves its evaluations.
LEMMA NotesKept ==
  ASSUME NEW r \in Runs, NotesOf(r), UNCHANGED <<pc[r], target[r], work[r], phase[r], again[r],
         notes[r], finish[r], log[r].outcome, log[r].checks>>
  PROVE  NotesOf(r)'
  BY DEF NotesOf, InTarget

\* A step of one run's tasks leaves every other run's alone.
LEMMA OthersLeaveARun ==
  ASSUME AuthoringIInv, NEW r \in Runs, NEW q \in Runs, q # r,
         Start(q) \/ FailStart(q) \/ Register(q) \/ Drive(q) \/ Author(q)
  PROVE  UNCHANGED <<pc[r], target[r], work[r], phase[r], again[r], notes[r], finish[r],
                     log[r].outcome, log[r].checks>>
  <1>a. /\ log \in [Runs -> Run] /\ pc \in [Runs -> {"new", "starting", "over", "dead"} \union Driving]
        /\ target \in [Runs -> Targets] /\ work \in [Runs -> {"none", "joining", "turn", "files", "releasing", "over"}]
        /\ phase \in [Runs -> Phases] /\ again \in [Runs -> BOOLEAN] /\ notes \in [Runs -> 0..MaxNotes]
        /\ finish \in [Runs -> {"ok", "refused", "raised", "cancelled"}]
    BY DEF AuthoringIInv, AuthoringTypes
  <1>1. CASE Start(q) \/ FailStart(q) \/ FailAppend(q)
    BY <1>a, <1>1 DEF Start, FailStart, FailAppend, stream, inner, history
  <1>2. CASE Register(q)
    BY <1>a, <1>2 DEF Register, inner
  <1>3. CASE BeginRun(q) \/ NextAfter(q)
    <2>1. PICK t \in 1..(Overview + 1) : AtLoopTop(q, t)
      BY <1>3, LoopTop
    <2> QED
      BY <1>a, <2>1 DEF AtLoopTop, NextTarget, stream
  <1>4. CASE Return(q) \/ RecordOutcome(q) \/ RecordCheckpoint(q) \/ Settle(q)
    BY <1>a, <1>4 DEF Return, RecordOutcome, RecordCheckpoint, Settle, stream, driver, inner
  <1>5. CASE Author(q)
    <2>1. UNCHANGED untouched
      BY <1>5 DEF Author, Join, FailJoin, PhaseTurnEnds, OverviewTurnEnds,
         Raise, Pass, Refuse, Release, Interrupt
    <2>2. UNCHANGED <<work[r], phase[r], again[r], notes[r], finish[r]>>
      BY <1>a, <1>5 DEF Author, Join, FailJoin, PhaseTurnEnds, OverviewTurnEnds,
         Raise, Pass, Refuse, Release,
         Interrupt, LeaveTarget, Note
    <2> QED
      BY <2>1, <2>2 DEF untouched, stream, driver
  <1> QED
    BY <1>1, <1>2, <1>3, <1>4, <1>5 DEF Drive

\* A phase adds an evaluation for each of its attempts, and the stream keeps them.
LEMMA NotesStay == AuthoringIInv /\ [AuthoringNext]_authoringVars => NotesAdd'
  <1> SUFFICES ASSUME AuthoringIInv, [AuthoringNext]_authoringVars, NEW r \in Runs
               PROVE  NotesOf(r)'
    BY DEF NotesAdd
  <1>0. AuthoringTypes /\ NotesAdd /\ NotesOf(r) /\ StreamOf(r)
    BY DEF AuthoringIInv, StreamFollows, NotesAdd
  <1>a. /\ log \in [Runs -> Run] /\ pc \in [Runs -> {"new", "starting", "over", "dead"} \union Driving]
        /\ target \in [Runs -> Targets] /\ work \in [Runs -> {"none", "joining", "turn", "files", "releasing", "over"}]
        /\ phase \in [Runs -> Phases] /\ again \in [Runs -> BOOLEAN] /\ notes \in [Runs -> 0..MaxNotes]
        /\ finish \in [Runs -> {"ok", "refused", "raised", "cancelled"}]
    BY <1>0 DEF AuthoringTypes
  <1>b. /\ NPhases \in Nat \ {0} /\ notes[r] \in Nat /\ phase[r] \in 1..NPhases /\ target[r] \in Targets
        /\ MaxNotes = 2 * NPhases /\ again[r] \in BOOLEAN
        /\ \A t \in Targets : log[r].checks[t] \in Nat
        /\ log[r].outcome \in [Targets -> {"none", "authored", "failed"}]
        /\ log[r].checks \in [Targets -> 0..MaxNotes]
    <2>1. /\ NPhases \in Nat \ {0} /\ MaxNotes = 2 * NPhases /\ Phases = 1..NPhases
      BY AuthoringSizes
    <2>2. notes[r] \in Nat /\ phase[r] \in 1..NPhases /\ target[r] \in Targets /\ again[r] \in BOOLEAN
      BY <1>a, <2>1
    <2>3. log[r].outcome \in [Targets -> {"none", "authored", "failed"}] /\ log[r].checks \in [Targets -> 0..MaxNotes]
      BY <1>0, TypesOfARun
    <2>4. \A t \in Targets : log[r].checks[t] \in Nat
      BY <2>1, <2>3
    <2> QED
      BY <2>1, <2>2, <2>3, <2>4
  <1>c. \A t \in Targets : Due(t) \in Nat /\ Due(t) <= NPhases
    BY <1>b DEF Due
  <1>1. ASSUME NEW q \in Runs, q # r, Start(q) \/ FailStart(q) \/ Register(q) \/ Drive(q) \/ Author(q)
        PROVE  NotesOf(r)'
    BY <1>0, <1>1, OthersLeaveARun, NotesKept
  <1>2. CASE Start(r) \/ FailStart(r)
    <2>1. UNCHANGED <<log, target, work, phase, again, notes, finish>> /\ pc[r] \in {"new", "starting"}
          /\ pc'[r] \in {"starting", "dead"}
      BY <1>a, <1>2 DEF Start, FailStart, stream, inner
    <2> QED
      BY <1>0, <2>1 DEF NotesOf, InTarget
  <1>3. CASE Register(r)
    <2>1. log'[r].outcome = log[r].outcome /\ log'[r].checks = log[r].checks
      BY <1>a, <1>3, AppendedRun DEF Register
    <2>2. UNCHANGED <<target, work, phase, again, notes, finish>> /\ pc[r] = "starting" /\ pc'[r] = "fresh"
      BY <1>a, <1>3 DEF Register, inner
    <2> QED
      BY <1>0, <2>1, <2>2 DEF NotesOf, InTarget
  <1>4. CASE BeginRun(r) \/ NextAfter(r)
    <2>1. PICK t \in 1..(Overview + 1) : AtLoopTop(r, t)
      BY <1>4, LoopTop
    <2>2. pc[r] \in {"fresh", "noting"} /\ (pc[r] = "noting" => notes[r] = 0) /\ log' = log
      BY <2>1 DEF AtLoopTop, stream
    <2>3. work[r] \notin InTarget
      BY <1>0, <2>2 DEF NotesOf
    <2>4. \A u \in Targets : log[r].outcome[u] = "authored" => log[r].checks[u] >= Due(u)
      BY <1>0, <1>b, <2>2 DEF NotesOf
    <2>5. CASE pc'[r] \in {"settling", "dead"} /\ work' = work
      BY <1>0, <2>2, <2>3, <2>4, <2>5 DEF NotesOf, InTarget
    <2>6. CASE pc'[r] = "working" /\ work'[r] = "joining" /\ phase'[r] = 1 /\ again'[r] = FALSE /\ notes'[r] = 0
      BY <1>0, <2>2, <2>4, <2>6 DEF NotesOf, InTarget
    <2> QED
      BY <1>a, <2>1, <2>5, <2>6 DEF AtLoopTop, NextTarget
  <1>5. CASE Return(r)
    <2>1. /\ pc[r] = "working" /\ work[r] = "over"
          /\ UNCHANGED <<log, target, work, phase, again, finish>>
          /\ \/ pc'[r] = "settling"
             \/ pc'[r] = "recording" /\ notes' = notes
      BY <1>a, <1>5 DEF Return, stream
    <2> QED
      BY <1>0, <2>1 DEF NotesOf, InTarget
  <1>6. CASE RecordOutcome(r)
    <2>1. PICK o \in {"authored", "failed"} :
            log' = [log EXCEPT ![r].outcome[target[r]] = o] /\ (o = "authored" => finish[r] = "ok")
      <3>1. log' = [log EXCEPT ![r].outcome[target[r]] = IF finish[r] = "ok" THEN "authored" ELSE "failed"]
        BY <1>6 DEF RecordOutcome
      <3> QED
        BY <3>1
    <2>3. log'[r].checks = log[r].checks /\ log'[r].outcome = [log[r].outcome EXCEPT ![target[r]] = o]
      BY <1>a, <1>b, <2>1, AppendedRun
    <2>4. pc[r] = "recording" /\ pc'[r] = "noting" /\ target' = target /\ work'[r] = "none"
          /\ notes'[r] = Carried(r)
      <3>1. /\ pc[r] = "recording" /\ pc' = [pc EXCEPT ![r] = "noting"] /\ target' = target
            /\ work' = [work EXCEPT ![r] = "none"] /\ notes' = [notes EXCEPT ![r] = Carried(r)]
        BY <1>6 DEF RecordOutcome
      <3> QED
        BY <1>a, <3>1
    <2>5. log[r].outcome[target[r]] = "none" /\ log[r].checks[target[r]] = 0
      <3>1. target[r] \in Targets /\ ~(target[r] <= target[r] - 1)
        BY <1>b, AuthoringSizes
      <3>2. \A t \in Targets : log[r].outcome[t] # "none" <=> t <= target[r] - 1
        BY <1>0, <2>4 DEF StreamOf, OutcomesUpTo
      <3>3. log[r].outcome[target[r]] = "none"
        BY <3>1, <3>2
      <3> QED
        BY <1>0, <3>1, <3>3 DEF NotesOf
    <2>6. Carried(r) \in 0..MaxNotes /\ (o = "authored" => Carried(r) >= Due(target[r]))
      <3>1. o = "authored" => notes[r] >= Due(target[r]) /\ Carried(r) = notes[r]
        BY <1>0, <2>1, <2>4 DEF NotesOf, Carried
      <3> QED
        BY <1>0, <3>1, NotesAreBounded
    <2>7. \A t \in Targets \ {target[r]} :
            /\ log'[r].outcome[t] = "none" => log'[r].checks[t] = 0
            /\ log'[r].outcome[t] = "authored" => log'[r].checks[t] >= Due(t)
      BY <1>0, <1>b, <2>3, <2>4 DEF NotesOf
    <2>8. log'[r].outcome[target[r]] = o /\ log'[r].checks[target[r]] = 0 /\ o # "none"
      BY <1>b, <2>1, <2>3, <2>5
    <2>9. \A t \in Targets :
            /\ log'[r].outcome[t] = "none" => log'[r].checks[t] = 0
            /\ log'[r].outcome[t] = "authored" => log'[r].checks[t] >= Due(t) \/ t = target'[r]
      BY <2>4, <2>7, <2>8
    <2>10. log'[r].checks[target'[r]] + notes'[r] <= MaxNotes
           /\ (log'[r].outcome[target'[r]] = "authored" => log'[r].checks[target'[r]] + notes'[r] >= Due(target'[r]))
      BY <1>b, <1>c, <2>4, <2>6, <2>8
    <2> QED
      BY <2>4, <2>9, <2>10 DEF NotesOf, InTarget
  <1>7. CASE RecordCheckpoint(r)
    <2>1. log[r].checks[target[r]] + 1 \in 0..MaxNotes /\ notes[r] - 1 \in 0..MaxNotes
      BY <1>0, <1>7, NotesAreBounded DEF RecordCheckpoint
    <2>2. log' = [log EXCEPT ![r].checks[target[r]] = log[r].checks[target[r]] + 1]
      BY <1>7 DEF RecordCheckpoint
    <2>3. log'[r].outcome = log[r].outcome
          /\ log'[r].checks = [log[r].checks EXCEPT ![target[r]] = log[r].checks[target[r]] + 1]
      BY <1>a, <1>b, <2>1, <2>2, AppendedRun
    <2>4. UNCHANGED <<pc, target, work, phase, again, finish>> /\ pc[r] = "noting" /\ notes'[r] = notes[r] - 1
      BY <1>a, <1>7 DEF RecordCheckpoint, driver
    <2>5. log[r].outcome[target[r]] # "none"
      <3>1. OutcomesUpTo(r, target[r])
        BY <1>0, <2>4 DEF StreamOf
      <3>2. target[r] \in Targets /\ target[r] <= target[r]
        BY <1>b, AuthoringSizes
      <3> QED
        BY <3>1, <3>2 DEF OutcomesUpTo
    <2>6. \A t \in Targets :
            /\ log'[r].outcome[t] = "none" => log'[r].checks[t] = 0
            /\ log'[r].outcome[t] = "authored" => log'[r].checks[t] >= Due(t) \/ t = target'[r]
      BY <1>0, <1>b, <2>3, <2>4, <2>5 DEF NotesOf
    <2>7. log'[r].checks[target'[r]] + notes'[r] = log[r].checks[target[r]] + notes[r]
      BY <1>b, <2>3, <2>4
    <2>8. log[r].checks[target[r]] + notes[r] <= MaxNotes
           /\ (log[r].outcome[target[r]] = "authored" => log[r].checks[target[r]] + notes[r] >= Due(target[r]))
      BY <1>0, <2>4 DEF NotesOf
    <2>9. work[r] \notin InTarget
      BY <1>0, <2>4 DEF NotesOf
    <2> QED
      BY <2>3, <2>4, <2>6, <2>7, <2>8, <2>9 DEF NotesOf, InTarget
  <1>8. CASE Settle(r)
    <2>1. Status(r) \in SettledStatus
      BY DEF Status, SettledStatus
    <2>2. log'[r].checks = log[r].checks /\ log'[r].outcome = log[r].outcome
      BY <1>a, <1>8, <2>1, AppendedRun DEF Settle
    <2>3. pc[r] = "settling" /\ pc'[r] = "over" /\ UNCHANGED <<target, work, phase, again, notes, finish>>
      BY <1>a, <1>8 DEF Settle, inner
    <2>4. work[r] \notin InTarget
      BY <1>0, <2>3 DEF NotesOf
    <2>5. \A t \in Targets :
            /\ log[r].outcome[t] = "none" => log[r].checks[t] = 0
            /\ log[r].outcome[t] = "authored" => log[r].checks[t] >= Due(t)
      BY <1>0, <2>3 DEF NotesOf
    <2> QED
      BY <2>2, <2>3, <2>4, <2>5 DEF NotesOf, InTarget
  <1>9. CASE FailAppend(r)
    <2>1. pc'[r] = "dead" /\ pc[r] \in {"recording", "noting", "settling"}
          /\ UNCHANGED <<log, target, work, phase, again, notes, finish>>
      BY <1>a, <1>9 DEF FailAppend, stream, inner
    <2> QED
      BY <1>0, <2>1 DEF NotesOf, InTarget
  <1>10. CASE Author(r)
    <2>0. UNCHANGED <<log, pc, target>> /\ pc[r] = "working" /\ work[r] \in InTarget
      <3>1. UNCHANGED untouched /\ work[r] \in InTarget
        BY <1>a, <1>10 DEF Author, Join, FailJoin, PhaseTurnEnds, OverviewTurnEnds,
           Raise, Pass, Refuse, Release, Interrupt,
           Working, InTarget
      <3> QED
        BY <1>0, <3>1 DEF untouched, stream, driver, NotesOf
    <2>a. \A t \in Targets :
            /\ log'[r].outcome[t] = "none" => log'[r].checks[t] = 0
            /\ log'[r].outcome[t] = "authored" => log'[r].checks[t] >= Due(t)
      BY <1>0, <2>0 DEF NotesOf
    <2>b. ASSUME work'[r] \in {"turn", "files"}, phase'[r] - 1 <= notes'[r],
                 notes'[r] <= 2 * (phase'[r] - 1) + (IF again'[r] THEN 1 ELSE 0)
          PROVE  NotesOf(r)'
      BY <2>0, <2>a, <2>b DEF NotesOf, InTarget
    <2>c. ASSUME work'[r] \in {"releasing", "over"}, finish'[r] = "ok" => notes'[r] >= Due(target[r])
          PROVE  NotesOf(r)'
      BY <2>0, <2>a, <2>c DEF NotesOf, InTarget
    <2>1. CASE Join(r)
      <3>1. work'[r] = "turn" /\ UNCHANGED <<phase, again, notes>> /\ phase[r] = 1 /\ ~again[r] /\ notes[r] = 0
        BY <1>0, <1>a, <2>1 DEF Join, Working, NotesOf
      <3> QED
        BY <2>b, <3>1
    <2>2. CASE FailJoin(r) \/ Raise(r)
      BY <1>a, <2>2, <2>c DEF FailJoin, Raise, LeaveTarget
    <2>3. CASE PhaseTurnEnds(r)
      <3>1. work'[r] = "files" /\ work[r] = "turn" /\ UNCHANGED <<phase, again, notes>>
        BY <1>a, <2>3 DEF PhaseTurnEnds, Working
      <3> QED
        BY <1>0, <2>b, <3>1 DEF NotesOf
    <2>4. CASE Pass(r) \/ Refuse(r)
      <3>1. work[r] = "files" /\ notes'[r] = notes[r] + 1
        BY <1>a, <2>4 DEF Pass, Refuse, Working, Note
      <3>2. phase[r] - 1 <= notes[r] /\ notes[r] <= 2 * (phase[r] - 1) + (IF again[r] THEN 1 ELSE 0)
        BY <1>0, <3>1 DEF NotesOf
      <3>3. \/ work'[r] = "releasing" /\ phase[r] = NPhases
            \/ work'[r] = "releasing" /\ finish'[r] = "refused"
            \/ work'[r] = "turn" /\ phase'[r] = phase[r] + 1 /\ ~again'[r]
            \/ work'[r] = "turn" /\ phase'[r] = phase[r] /\ ~again[r] /\ again'[r]
        BY <1>a, <2>4 DEF Pass, Refuse, LeaveTarget
      <3>4. CASE work'[r] = "releasing"
        BY <1>b, <1>c, <2>c, <3>1, <3>2, <3>3, <3>4
      <3>5. CASE work'[r] = "turn"
        <4>1. phase'[r] - 1 <= notes'[r] /\ notes'[r] <= 2 * (phase'[r] - 1) + (IF again'[r] THEN 1 ELSE 0)
          BY <1>b, <3>1, <3>2, <3>3, <3>5
        <4> QED
          BY <2>b, <3>5, <4>1
      <3> QED
        BY <3>3, <3>4, <3>5
    <2>5. CASE Release(r)
      <3>1. work[r] = "releasing" /\ work'[r] = "over" /\ finish'[r] \in {finish[r], "raised"} /\ notes' = notes
        BY <1>a, <2>5 DEF Release, Working
      <3> QED
        BY <1>0, <2>0, <2>c, <3>1 DEF NotesOf
    <2>6. CASE Interrupt(r)
      BY <1>a, <2>6, <2>c DEF Interrupt, LeaveTarget
    <2>7. CASE OverviewTurnEnds(r)
      <3>1. work'[r] = "releasing" /\ notes'[r] \in Nat /\ Due(target[r]) = 0
        BY <1>a, <1>b, <2>7 DEF OverviewTurnEnds, LeaveTarget, Due
      <3> QED
        BY <2>c, <3>1
    <2> QED
      BY <1>10, <2>1, <2>2, <2>3, <2>4, <2>5, <2>6, <2>7 DEF Author
  <1>11. CASE CancelRun \/ UNCHANGED authoringVars
    BY <1>0, <1>11, NotesKept DEF CancelRun, authoringVars, stream, driver, inner
  <1>12. CASE Crash
    <2>1. PICK saved \in SUBSET {q \in Runs : pc[q] = "starting"} :
            log' = [q \in Runs |->
                     IF q \in saved THEN [log[q] EXCEPT !.status = "running"] ELSE log[q]]
      BY <1>12 DEF Crash
    <2>2. log'[r].outcome = log[r].outcome /\ log'[r].checks = log[r].checks
      BY <1>a, <2>1 DEF Run
    <2>3. /\ pc'[r] \in {pc[r], "dead"} /\ pc'[r] \notin {"working", "recording", "noting"}
          /\ work'[r] = "none" /\ target' = target
      BY <1>a, <1>12 DEF Crash, Driven, Driving
    <2>4. pc[r] = "dead" => pc'[r] = "dead"
      BY <2>3
    <2>5. pc[r] = "noting" => pc'[r] = "dead"
      BY <2>3
    <2> QED
      BY <1>0, <2>2, <2>3, <2>4, <2>5 DEF NotesOf, InTarget
  <1> QED
    BY <1>1, <1>2, <1>3, <1>4, <1>5, <1>6, <1>7, <1>8, <1>9, <1>10, <1>11, <1>12 DEF AuthoringNext, Drive

\* The overview's task notes nothing, and its driver has nothing to append.
LEMMA UnseenStays == AuthoringIInv /\ [AuthoringNext]_authoringVars => OverviewUnseen'
  <1> SUFFICES ASSUME AuthoringIInv, [AuthoringNext]_authoringVars, NEW r \in Runs
               PROVE  UnseenOf(r)'
    BY DEF OverviewUnseen
  <1>0. AuthoringTypes /\ NotesOf(r) /\ UnseenOf(r)
    BY DEF AuthoringIInv, NotesAdd, OverviewUnseen
  <1>a. /\ log \in [Runs -> Run] /\ pc \in [Runs -> {"new", "starting", "over", "dead"} \union Driving]
        /\ target \in [Runs -> Targets] /\ work \in [Runs -> {"none", "joining", "turn", "files", "releasing", "over"}]
        /\ notes \in [Runs -> 0..MaxNotes]
    BY <1>0 DEF AuthoringTypes
  <1>b. /\ notes[r] \in Nat /\ target[r] \in Targets /\ Overview \in Targets /\ Overview \notin Areas
        /\ log[r].checks \in [Targets -> 0..MaxNotes]
    BY <1>0, AuthoringSizes, TypesOfARun
  <1>1. ASSUME NEW q \in Runs, q # r, Start(q) \/ FailStart(q) \/ Register(q) \/ Drive(q) \/ Author(q)
        PROVE  UnseenOf(r)'
    BY <1>0, <1>1, OthersLeaveARun DEF UnseenOf
  <1>2. CASE Start(r) \/ FailStart(r) \/ FailAppend(r)
    <2>1. log' = log /\ pc'[r] \in {"starting", "dead"}
      BY <1>a, <1>2 DEF Start, FailStart, FailAppend, stream
    <2> QED
      BY <1>0, <2>1 DEF UnseenOf
  <1>3. CASE Register(r) \/ Settle(r)
    <2>1. Status(r) \in {"running"} \union SettledStatus
      BY DEF Status, SettledStatus
    <2>2. log'[r].checks = log[r].checks
      <3>1. CASE Register(r)
        BY <1>a, <3>1, AppendedRun DEF Register
      <3>2. CASE Settle(r)
        BY <1>a, <2>1, <3>2, AppendedRun DEF Settle
      <3> QED
        BY <1>3, <3>1, <3>2
    <2>3. pc'[r] \in {"fresh", "over"}
      BY <1>a, <1>3 DEF Register, Settle
    <2> QED
      BY <1>0, <2>2, <2>3 DEF UnseenOf
  <1>4. CASE BeginRun(r) \/ NextAfter(r)
    <2>1. PICK t \in 1..(Overview + 1) : AtLoopTop(r, t)
      BY <1>4, LoopTop
    <2>2. log' = log
      BY <2>1 DEF AtLoopTop, stream
    <2>3. \/ pc'[r] \in {"settling", "dead"}
          \/ work'[r] = "joining" /\ notes'[r] = 0
      BY <1>a, <2>1 DEF AtLoopTop, NextTarget
    <2> QED
      BY <1>0, <2>2, <2>3 DEF UnseenOf
  <1>5. CASE Return(r)
    <2>1. /\ pc[r] = "working" /\ UNCHANGED <<log, target, work>>
          /\ pc'[r] = "settling" \/ notes' = notes
      BY <1>a, <1>5 DEF Return, stream
    <2> QED
      BY <1>0, <2>1 DEF UnseenOf
  <1>6. CASE RecordOutcome(r)
    <2>1. PICK o \in {"authored", "failed"} : log' = [log EXCEPT ![r].outcome[target[r]] = o]
      <3>1. log' = [log EXCEPT ![r].outcome[target[r]] = IF finish[r] = "ok" THEN "authored" ELSE "failed"]
        BY <1>6 DEF RecordOutcome
      <3> QED
        BY <3>1
    <2>2. log'[r].checks = log[r].checks
      BY <1>a, <1>b, <2>1, AppendedRun
    <2>3. pc[r] = "recording" /\ target' = target /\ work'[r] = "none" /\ notes'[r] = Carried(r)
      BY <1>a, <1>6 DEF RecordOutcome
    <2> QED
      BY <1>0, <2>2, <2>3 DEF UnseenOf, Carried
  <1>7. CASE RecordCheckpoint(r)
    <2>1. pc[r] = "noting" /\ notes[r] > 0 /\ UNCHANGED <<pc, target>>
      BY <1>7 DEF RecordCheckpoint, driver
    <2>2. target[r] # Overview
      BY <1>0, <2>1 DEF UnseenOf
    <2>3. log[r].checks[target[r]] + 1 \in 0..MaxNotes
      BY <1>0, <2>1, NotesAreBounded DEF AuthoringIInv
    <2>4. log' = [log EXCEPT ![r].checks[target[r]] = log[r].checks[target[r]] + 1]
      BY <1>7 DEF RecordCheckpoint
    <2>5. log'[r].checks = [log[r].checks EXCEPT ![target[r]] = log[r].checks[target[r]] + 1]
      BY <1>a, <1>b, <2>3, <2>4, AppendedRun
    <2>6. log'[r].checks[Overview] = log[r].checks[Overview]
      BY <1>b, <2>2, <2>5
    <2> QED
      BY <1>0, <2>1, <2>2, <2>6 DEF UnseenOf
  <1>8. CASE Author(r)
    <2>1. UNCHANGED <<log, pc, target>> /\ work[r] \in InTarget /\ pc[r] = "working"
      <3>1. UNCHANGED untouched /\ work[r] \in InTarget
        BY <1>a, <1>8 DEF Author, Join, FailJoin, PhaseTurnEnds, OverviewTurnEnds, Raise, Pass, Refuse,
           Release, Interrupt, Working, InTarget
      <3> QED
        BY <1>0, <3>1 DEF untouched, stream, driver, NotesOf
    <2>2. CASE PhaseTurnEnds(r)
      <3>1. target[r] # Overview
        BY <1>b, <2>2 DEF PhaseTurnEnds
      <3> QED
        BY <1>0, <2>1, <3>1 DEF UnseenOf
    <2>3. CASE Pass(r) \/ Refuse(r)
      <3>1. target[r] # Overview
        BY <1>0, <2>1, <2>3 DEF Pass, Refuse, Working, UnseenOf
      <3> QED
        BY <1>0, <2>1, <3>1 DEF UnseenOf
    <2>4. CASE Join(r) \/ FailJoin(r) \/ OverviewTurnEnds(r) \/ Raise(r) \/ Release(r) \/ Interrupt(r)
      <3>1. notes' = notes /\ work'[r] # "files"
        BY <1>a, <2>4 DEF Join, FailJoin, OverviewTurnEnds, Raise, Release, Interrupt, LeaveTarget
      <3> QED
        BY <1>0, <2>1, <3>1 DEF UnseenOf
    <2> QED
      BY <1>8, <2>2, <2>3, <2>4 DEF Author
  <1>9. CASE CancelRun \/ UNCHANGED authoringVars
    BY <1>0, <1>9 DEF CancelRun, authoringVars, stream, driver, inner, UnseenOf
  <1>10. CASE Crash
    <2>1. PICK saved \in SUBSET {q \in Runs : pc[q] = "starting"} :
            log' = [q \in Runs |->
                     IF q \in saved THEN [log[q] EXCEPT !.status = "running"] ELSE log[q]]
      BY <1>10 DEF Crash
    <2>2. log'[r].checks = log[r].checks
      <3>1. log[r] \in Run
        BY <1>a
      <3>2. [log[r] EXCEPT !.status = "running"].checks = log[r].checks
        BY <3>1 DEF Run
      <3>3. log'[r] = IF r \in saved THEN [log[r] EXCEPT !.status = "running"] ELSE log[r]
        BY <2>1
      <3> QED
        BY <3>2, <3>3
    <2>3. notes'[r] = 0 /\ work'[r] = "none"
      BY <1>a, <1>10 DEF Crash
    <2> QED
      BY <1>0, <2>2, <2>3 DEF UnseenOf
  <1> QED
    BY <1>1, <1>2, <1>3, <1>4, <1>5, <1>6, <1>7, <1>8, <1>9, <1>10 DEF AuthoringNext, Drive

\* The driver of a run that is alone is the only one there is.
LEMMA AloneIsAlone ==
  ASSUME AuthoringIInv, NEW r \in Runs, Driven(r), NEW q \in Runs \ shared, q # r
  PROVE  ~Driven(q)
  BY DEF AuthoringIInv, SlotIsOwn

\* The slot: taken by a registration, emptied by a settle, and nobody's between them but its own.
LEMMA SlotStays == AuthoringIInv /\ [AuthoringNext]_authoringVars => SlotIsOwn'
  <1> SUFFICES ASSUME AuthoringIInv, [AuthoringNext]_authoringVars PROVE SlotIsOwn'
    OBVIOUS
  <1>0. AuthoringTypes /\ NotesAdd /\ StreamFollows /\ SlotIsOwn /\ None \notin Runs
    BY AuthoringSizes DEF AuthoringIInv
  <1>a. /\ pc \in [Runs -> {"new", "starting", "over", "dead"} \union Driving]
        /\ stopped \in [Runs -> BOOLEAN] /\ hurry \in [Runs -> BOOLEAN]
        /\ finish \in [Runs -> {"ok", "refused", "raised", "cancelled"}]
        /\ inflight \in Runs \union {None} /\ tasks \in Runs \union {None} /\ mark \in BOOLEAN
    BY <1>0 DEF AuthoringTypes
  <1>b. \A q, r \in Runs : q # r /\ Driven(q) /\ Driven(r) => q \in shared /\ r \in shared
    BY <1>0 DEF SlotIsOwn
  <1>c. inflight # None => pc[inflight] \in {"working", "recording", "noting"}
    BY <1>0 DEF SlotIsOwn
  <1>d. \A r \in Runs \ shared :
          /\ Driven(r) => tasks = r /\ frame = r /\ (mark <=> r \in asked)
          /\ pc[r] = "working" => inflight = r
          /\ hurry[r] \/ finish[r] = "cancelled" \/ stopped[r] => r \in asked
    BY <1>0 DEF SlotIsOwn
  <1> DEFINE Own(r) == /\ Driven(r) => tasks = r /\ frame = r /\ (mark <=> r \in asked)
                       /\ pc[r] = "working" => inflight = r
                       /\ hurry[r] \/ finish[r] = "cancelled" \/ stopped[r] => r \in asked
  <1>e. ASSUME \A q, r \in Runs : q # r /\ Driven(q)' /\ Driven(r)' => q \in shared' /\ r \in shared',
               inflight' # None => pc'[inflight'] \in {"working", "recording", "noting"},
               \A r \in Runs \ shared' : Own(r)'
        PROVE  SlotIsOwn'
    BY <1>e DEF SlotIsOwn
  <1>f. \A r \in Runs \ shared : Own(r)
    BY <1>d
  \* A step of the driver of r, not alone or with nobody else to disturb.
  <1>g. ASSUME NEW r \in Runs, Driven(r), \A q \in Runs \ {r} : pc'[q] = pc[q],
               \A q \in Runs \ {r} : hurry'[q] = hurry[q] /\ finish'[q] = finish[q] /\ stopped'[q] = stopped[q],
               UNCHANGED <<asked, shared>>,
               inflight' # None => pc'[inflight'] \in {"working", "recording", "noting"},
               r \notin shared => Own(r)'
        PROVE  SlotIsOwn'
    <2>1. \A p, q \in Runs : p # q /\ Driven(p)' /\ Driven(q)' => p \in shared' /\ q \in shared'
      BY <1>b, <1>g DEF Driven
    <2>2. \A q \in Runs \ shared' : Own(q)'
      <3> SUFFICES ASSUME NEW q \in Runs \ shared, q # r PROVE Own(q)'
        BY <1>g
      <3>1. ~Driven(q) /\ pc'[q] = pc[q]
        BY <1>g, AloneIsAlone
      <3> QED
        BY <1>f, <1>g, <3>1 DEF Driven, Driving
    <2> QED
      BY <1>e, <1>g, <2>1, <2>2
  <1>1. ASSUME NEW r \in Runs, Start(r) \/ FailStart(r) PROVE SlotIsOwn'
    <2>1. /\ UNCHANGED <<stopped, hurry, finish, inflight, frame, tasks, mark, asked, shared>>
          /\ pc[r] \in {"new", "starting"} /\ pc'[r] \in {"starting", "dead"}
          /\ \A q \in Runs \ {r} : pc'[q] = pc[q]
      BY <1>a, <1>1 DEF Start, FailStart, inner, memory, history
    <2>2. ~Driven(r) /\ ~Driven(r)' /\ inflight # r
      BY <1>c, <1>0, <2>1 DEF Driven, Driving
    <2>3. \A q \in Runs : (Driven(q)' <=> Driven(q)) /\ (pc'[q] = "working" <=> pc[q] = "working")
      BY <2>1, <2>2 DEF Driven
    <2>4. \A p, q \in Runs : p # q /\ Driven(p)' /\ Driven(q)' => p \in shared' /\ q \in shared'
      BY <1>b, <2>1, <2>3
    <2>5. inflight' # None => pc'[inflight'] \in {"working", "recording", "noting"}
      BY <1>a, <1>c, <2>1, <2>2
    <2>6. \A q \in Runs \ shared' : Own(q)'
      BY <1>f, <2>1, <2>3
    <2> QED
      BY <1>e, <2>4, <2>5, <2>6
  <1>2. ASSUME NEW r \in Runs, Register(r) PROVE SlotIsOwn'
    <2>1. /\ pc[r] = "starting" /\ pc'[r] = "fresh" /\ \A q \in Runs \ {r} : pc'[q] = pc[q]
          /\ frame' = r /\ tasks' = r /\ mark' = FALSE
          /\ UNCHANGED <<stopped, hurry, finish, inflight, asked>>
      BY <1>a, <1>2 DEF Register, inner
    <2>2. shared' = IF \E q \in Runs : Driven(q)
                      THEN shared \union {r} \union {q \in Runs : Driven(q)} ELSE shared
      BY <1>2 DEF Register
    <2>3. r \notin asked /\ ~Driven(r) /\ inflight # r
      BY <1>0, <1>c, <2>1 DEF StreamFollows, StreamOf, Driven, Driving
    <2>4. Driven(r)' /\ \A q \in Runs \ {r} : (Driven(q)' <=> Driven(q)) /\ (pc'[q] = "working" <=> pc[q] = "working")
      BY <2>1 DEF Driven, Driving
    <2>5. \A p, q \in Runs : p # q /\ Driven(p)' /\ Driven(q)' => p \in shared' /\ q \in shared'
      BY <1>b, <2>2, <2>4
    <2>6. inflight' # None => pc'[inflight'] \in {"working", "recording", "noting"}
      BY <1>a, <1>c, <2>1, <2>3
    <2>7. ASSUME NEW q \in Runs \ shared', q # r PROVE Own(q)'
      <3>1. q \notin shared /\ ~Driven(q)
        BY <2>2, <2>7
      <3> QED
        BY <1>f, <2>1, <2>4, <2>7, <3>1 DEF Driven, Driving
    <2>8. r \notin shared' => Own(r)'
      <3> SUFFICES ASSUME r \notin shared' PROVE Own(r)'
        OBVIOUS
      <3>1. r \notin shared
        BY <2>2
      <3> QED
        BY <1>f, <2>1, <2>3, <3>1
    <2> QED
      BY <1>e, <2>5, <2>6, <2>7, <2>8
  <1>3. ASSUME NEW r \in Runs, BeginRun(r) \/ NextAfter(r) PROVE SlotIsOwn'
    <2>1. PICK t \in 1..(Overview + 1) : AtLoopTop(r, t)
      BY <1>3, LoopTop
    <2>2. /\ Driven(r) /\ pc[r] \in {"fresh", "noting"} /\ UNCHANGED <<finish, frame, tasks, mark, asked, shared>>
          /\ t = 1 => pc[r] = "fresh"
      <3>1. pc[r] = "noting" => t = target[r] + 1 /\ target[r] \in Nat \ {0}
        BY <1>0, <2>1, TypesOfARun, AuthoringSizes DEF AtLoopTop
      <3>2. t = 1 => pc[r] # "noting"
        BY <3>1
      <3> QED
        BY <2>1, <3>2 DEF AtLoopTop, Driven, Driving
    <2>3. /\ \A q \in Runs \ {r} : pc'[q] = pc[q] /\ hurry'[q] = hurry[q] /\ stopped'[q] = stopped[q]
          /\ \/ pc'[r] \in {"settling", "dead"} /\ inflight' = Popped(t)
             \/ pc'[r] = "working" /\ inflight' = r
          /\ stopped'[r] => stopped[r] \/ mark
          /\ hurry'[r] => hurry[r]
      BY <1>a, <2>1 DEF AtLoopTop, NextTarget
    <2>4. inflight' # None => pc'[inflight'] \in {"working", "recording", "noting"}
      <3>1. CASE inflight' = r /\ pc'[r] = "working"
        BY <3>1
      <3>2. CASE inflight' = Popped(t)
        <4> SUFFICES ASSUME inflight' # None PROVE pc'[inflight'] \in {"working", "recording", "noting"}
          OBVIOUS
        <4>1. t = 1 /\ inflight' = inflight
          BY <3>2 DEF Popped
        <4>2. inflight # r /\ inflight \in Runs
          BY <1>a, <1>c, <2>2, <4>1
        <4> QED
          BY <1>c, <2>3, <4>1, <4>2
      <3> QED
        BY <2>3, <3>1, <3>2
    <2>5. r \notin shared => Own(r)'
      BY <1>f, <2>2, <2>3
    <2> QED
      BY <1>g, <2>2, <2>3, <2>4, <2>5
  <1>4. ASSUME NEW r \in Runs, Return(r) PROVE SlotIsOwn'
    <2>1. /\ Driven(r) /\ pc[r] = "working" /\ UNCHANGED <<hurry, finish, frame, tasks, mark, asked, shared>>
          /\ \A q \in Runs \ {r} : pc'[q] = pc[q] /\ stopped'[q] = stopped[q]
          /\ \/ finish[r] = "cancelled" /\ pc'[r] = "settling" /\ inflight' = None
             \/ pc'[r] = "recording" /\ inflight' = inflight /\ stopped' = stopped
      BY <1>a, <1>4 DEF Return, Driven, Driving, history
    <2>2. inflight' # None => pc'[inflight'] \in {"working", "recording", "noting"}
      BY <1>a, <1>c, <2>1
    <2>3. r \notin shared => Own(r)'
      BY <1>f, <2>1
    <2> QED
      BY <1>g, <2>1, <2>2, <2>3
  <1>5. ASSUME NEW r \in Runs, RecordOutcome(r) PROVE SlotIsOwn'
    <2>1. /\ pc[r] = "recording" /\ pc' = [pc EXCEPT ![r] = "noting"] /\ stopped' = stopped
          /\ finish' = [finish EXCEPT ![r] = "ok"]
          /\ UNCHANGED <<hurry, frame, tasks, inflight, mark, asked, shared>>
      BY <1>5 DEF RecordOutcome, memory, history
    <2>2. Driven(r) /\ pc'[r] = "noting" /\ finish'[r] = "ok"
          /\ \A q \in Runs \ {r} : pc'[q] = pc[q] /\ finish'[q] = finish[q]
      BY <1>a, <2>1 DEF Driven, Driving
    <2>3. inflight' # None => pc'[inflight'] \in {"working", "recording", "noting"}
      BY <1>a, <1>c, <2>1, <2>2
    <2>4. r \notin shared => Own(r)'
      BY <1>f, <2>1, <2>2
    <2> QED
      BY <1>g, <2>1, <2>2, <2>3, <2>4
  <1>6. ASSUME NEW r \in Runs, Settle(r) PROVE SlotIsOwn'
    <2>1. /\ pc[r] = "settling" /\ pc' = [pc EXCEPT ![r] = "over"]
          /\ UNCHANGED <<stopped, hurry, finish, inflight, asked, shared>>
      BY <1>6 DEF Settle, inner, history
    <2>2. Driven(r) /\ pc'[r] = "over" /\ inflight # r /\ \A q \in Runs \ {r} : pc'[q] = pc[q]
      BY <1>a, <1>0, <1>c, <2>1 DEF Driven, Driving
    <2>3. inflight' # None => pc'[inflight'] \in {"working", "recording", "noting"}
      BY <1>a, <1>c, <2>1, <2>2
    <2>4. r \notin shared => Own(r)'
      BY <1>f, <2>1, <2>2 DEF Driven, Driving
    <2> QED
      BY <1>g, <2>1, <2>2, <2>3, <2>4
  <1>7. ASSUME NEW r \in Runs, FailAppend(r) PROVE SlotIsOwn'
    <2>1. /\ pc[r] \in {"recording", "noting", "settling"} /\ pc' = [pc EXCEPT ![r] = "dead"]
          /\ UNCHANGED <<stopped, hurry, finish, frame, tasks, mark, asked, shared>>
          /\ inflight' = IF pc[r] = "settling" THEN inflight ELSE None
      BY <1>7 DEF FailAppend, inner
    <2>2. Driven(r) /\ pc'[r] = "dead" /\ \A q \in Runs \ {r} : pc'[q] = pc[q]
      BY <1>a, <2>1 DEF Driven, Driving
    <2>3. inflight' # None => pc'[inflight'] \in {"working", "recording", "noting"}
      <3> SUFFICES ASSUME inflight' # None PROVE pc'[inflight'] \in {"working", "recording", "noting"}
        OBVIOUS
      <3>1. pc[r] = "settling" /\ inflight' = inflight
        BY <2>1
      <3>2. inflight \in Runs \ {r}
        BY <1>a, <1>c, <3>1
      <3> QED
        BY <1>c, <2>2, <3>1, <3>2
    <2>4. r \notin shared => Own(r)'
      BY <1>f, <2>1, <2>2 DEF Driven, Driving
    <2> QED
      BY <1>g, <2>1, <2>2, <2>3, <2>4
  <1>8. ASSUME NEW r \in Runs, Author(r) PROVE SlotIsOwn'
    <2>1. UNCHANGED untouched
      BY <1>8 DEF Author, Join, FailJoin, PhaseTurnEnds, OverviewTurnEnds,
         Raise, Pass, Refuse, Release, Interrupt
    <2>2. UNCHANGED <<pc, stopped, frame, tasks, inflight, mark, asked, shared>>
      BY <2>1 DEF untouched, driver, memory, history
    <2>3. /\ \A q \in Runs \ {r} : hurry'[q] = hurry[q] /\ finish'[q] = finish[q]
          /\ hurry'[r] \/ finish'[r] = "cancelled" => hurry[r] \/ finish[r] = "cancelled"
      BY <1>a, <1>8 DEF Author, Join, FailJoin, PhaseTurnEnds, OverviewTurnEnds,
         Raise, Pass, Refuse, Release, Interrupt,
         LeaveTarget
    <2>4. \A q \in Runs : Driven(q)' <=> Driven(q)
      BY <2>2 DEF Driven
    <2>5. \A q \in Runs : hurry'[q] \/ finish'[q] = "cancelled" => hurry[q] \/ finish[q] = "cancelled"
      BY <2>3
    <2>6. \A q \in Runs \ shared' : Own(q)'
      BY <1>f, <2>2, <2>4, <2>5
    <2>7. \A p, q \in Runs : p # q /\ Driven(p)' /\ Driven(q)' => p \in shared' /\ q \in shared'
      BY <1>b, <2>2, <2>4
    <2>8. inflight' # None => pc'[inflight'] \in {"working", "recording", "noting"}
      BY <1>c, <2>2
    <2> QED
      BY <1>e, <2>6, <2>7, <2>8
  <1>9. CASE CancelRun
    <2>1. /\ Driven(tasks) /\ tasks \in Runs /\ mark' = TRUE /\ asked' = asked \union {tasks}
          /\ UNCHANGED <<pc, stopped, finish, frame, tasks, inflight, shared>>
          /\ \A q \in Runs : hurry'[q] => hurry[q] \/ q = inflight
      BY <1>0, <1>a, <1>9 DEF CancelRun, Active, driver
    <2>2. \A q \in Runs : Driven(q)' <=> Driven(q)
      BY <2>1 DEF Driven
    <2>3. ASSUME NEW q \in Runs \ shared' PROVE Own(q)'
      <3>1. q = inflight => Driven(q)
        BY <1>0, <1>c, <2>3 DEF Driven, Driving
      <3>2. Driven(q) => q = tasks
        BY <1>d, <2>1, <2>3
      <3> QED
        BY <1>f, <2>1, <2>2, <2>3, <3>1, <3>2
    <2>4. \A p, q \in Runs : p # q /\ Driven(p)' /\ Driven(q)' => p \in shared' /\ q \in shared'
      BY <1>b, <2>1, <2>2
    <2>5. inflight' # None => pc'[inflight'] \in {"working", "recording", "noting"}
      BY <1>c, <2>1
    <2> QED
      BY <1>e, <2>3, <2>4, <2>5
  <1>10. CASE Crash
    <2>1. /\ \A q \in Runs : pc'[q] = (IF Driven(q) \/ pc[q] = "starting" THEN "dead" ELSE pc[q]) /\ ~hurry'[q]
          /\ inflight' = None /\ UNCHANGED <<stopped, finish, asked, shared>>
      BY <1>10 DEF Crash
    <2>2. \A q \in Runs : ~Driven(q)' /\ pc'[q] # "working"
      BY <2>1 DEF Driven, Driving
    <2>3. \A q \in Runs \ shared' : Own(q)'
      BY <1>f, <2>1, <2>2
    <2> QED
      BY <1>e, <2>1, <2>2, <2>3
  <1>11. CASE UNCHANGED authoringVars \/ \E r \in Runs : RecordCheckpoint(r)
    <2>1. UNCHANGED <<pc, stopped, hurry, finish, frame, tasks, inflight, mark, asked, shared>>
      BY <1>11 DEF RecordCheckpoint, authoringVars, driver, inner, memory, history
    <2> QED
      BY <1>0, <2>1 DEF SlotIsOwn, Driven
  <1> QED
    BY <1>1, <1>2, <1>3, <1>4, <1>5, <1>6, <1>7, <1>8, <1>9, <1>10, <1>11 DEF AuthoringNext, Drive

\* The strengthening is inductive.
THEOREM AuthoringInvariant == AuthoringSpec => []AuthoringIInv
  <1>1. AuthoringIInv /\ [AuthoringNext]_authoringVars => AuthoringIInv'
    BY AuthoringTypesStay, StreamStays, NotesStay, UnseenStays, SlotStays DEF AuthoringIInv
  <1> QED
    BY AuthoringStarts, <1>1, PTL DEF AuthoringSpec

\* Outcomes come in the order of the targets, an open stream has not settled, and the
\* slot of a run that was alone is its own, for any number of runs, targets and phases.
THEOREM AuthoringFollows == AuthoringSpec => []AuthoringInv
  <1>1. AuthoringIInv => AuthoringInv
    <2> SUFFICES ASSUME AuthoringIInv PROVE AuthoringInv
      OBVIOUS
    <2>0. AuthoringTypes /\ StreamFollows /\ SlotIsOwn
      BY DEF AuthoringIInv
    <2>1. ASSUME NEW r \in Runs, NEW t \in Targets, log[r].outcome[t] # "none", NEW u \in 1..t
          PROVE  log[r].outcome[u] # "none"
      <3>1. u \in Targets /\ u <= t
        BY AuthoringSizes
      <3> QED
        BY <2>0, <2>1, <3>1 DEF StreamFollows, StreamOf
    <2>2. ASSUME NEW r \in Runs, pc[r] \in {"working", "recording"}, NEW t \in Targets
          PROVE  log[r].outcome[t] # "none" <=> t < target[r]
      <3>1. log[r].outcome[t] # "none" <=> t <= target[r] - 1
        BY <2>0, <2>2 DEF StreamFollows, StreamOf, OutcomesUpTo
      <3>2. target[r] \in Nat /\ t \in Nat
        BY <2>0, TypesOfARun, AuthoringSizes
      <3> QED
        BY <3>1, <3>2
    <2>3. ASSUME NEW r \in Runs
          PROVE  /\ Driven(r) => log[r].status = "running"
                 /\ Driven(r) /\ r \notin shared => tasks = r /\ frame = r
                 /\ pc[r] = "working" /\ r \notin shared => inflight = r
      BY <2>0 DEF StreamFollows, StreamOf, SlotIsOwn
    <2> QED
      BY <2>0, <2>1, <2>2, <2>3 DEF AuthoringInv
  <1> QED
    BY AuthoringInvariant, <1>1, PTL

\* What a settled run says of itself is what its stream says.
THEOREM StatusFollowsTheStream == AuthoringSpec => []StatusIsEarned
  <1>1. AuthoringIInv => StatusIsEarned
    <2> SUFFICES ASSUME AuthoringIInv, NEW r \in Runs, log[r].status \in SettledStatus
                 PROVE  /\ log[r].status \in {"done", "failed"} => \A t \in TargetsOf(r) : log[r].outcome[t] # "none"
                        /\ log[r].status = "done" => With(r, "authored")
                        /\ log[r].status = "failed" => ~With(r, "authored")
                        /\ log[r].status = "cancelled" /\ r \notin shared => r \in asked
                        /\ \A t \in Areas : log[r].outcome[t] = "authored" => log[r].checks[t] >= NPhases
      BY DEF StatusIsEarned, SettledStatus, AuthoringIInv, OverviewUnseen, UnseenOf
    <2>1. /\ pc[r] = "over" /\ log[r].status = Status(r)
          /\ stopped[r] \/ \A t \in TargetsOf(r) : log[r].outcome[t] # "none"
      BY DEF AuthoringIInv, StreamFollows, StreamOf
    <2>2. log[r].outcome \in [Targets -> {"none", "authored", "failed"}] /\ stopped[r] \in BOOLEAN
      BY TypesOfARun DEF AuthoringIInv, AuthoringTypes
    <2>3. log[r].status # "cancelled" => ~stopped[r]
      BY <2>1 DEF Status
    <2>4. log[r].status = "done" => With(r, "authored")
      <3> SUFFICES ASSUME log[r].status = "done" PROVE With(r, "authored")
        OBVIOUS
      <3>1. 1 \in Targets /\ log[r].outcome[1] \in {"authored", "failed"}
        BY <2>1, <2>2, <2>3, AuthoringSizes
      <3>2. ~With(r, "failed") \/ With(r, "authored")
        BY <2>1, <2>3 DEF Status
      <3> QED
        BY <3>1, <3>2 DEF With
    <2>5. log[r].status = "failed" => ~With(r, "authored")
      BY <2>1 DEF Status
    <2>6. log[r].status = "cancelled" => stopped[r]
      BY <2>1, <2>2 DEF Status
    <2>7. r \notin shared /\ stopped[r] => r \in asked
      BY DEF AuthoringIInv, SlotIsOwn
    <2>8. \A t \in Areas : log[r].outcome[t] = "authored" => log[r].checks[t] >= NPhases
      BY <2>1, AuthoringSizes DEF AuthoringIInv, NotesAdd, NotesOf, Due
    <2> QED
      BY <2>1, <2>3, <2>4, <2>5, <2>6, <2>7, <2>8
  <1> QED
    BY AuthoringInvariant, <1>1, PTL

\* A run that was told to stop begins no further target.
THEOREM CancelledRunsStop == AuthoringSpec => CancelIsObeyed
  <1>1. ASSUME AuthoringIInv, [AuthoringNext]_authoringVars, NEW r \in asked \ shared, work[r] # "joining"
        PROVE  work'[r] # "joining"
    <2>0. AuthoringTypes /\ r \in Runs
      BY <1>1 DEF AuthoringIInv, AuthoringTypes
    <2>a. work \in [Runs -> {"none", "joining", "turn", "files", "releasing", "over"}]
      BY <2>0 DEF AuthoringTypes
    <2>1. ASSUME NEW q \in Runs, Start(q) \/ FailStart(q) \/ Register(q) PROVE work'[r] # "joining"
      BY <1>1, <2>1 DEF Start, FailStart, Register, inner
    <2>2. ASSUME NEW q \in Runs, BeginRun(q) \/ NextAfter(q) PROVE work'[r] # "joining"
      <3>1. PICK t \in 1..(Overview + 1) : AtLoopTop(q, t)
        BY <1>1, <2>2, LoopTop
      <3>2. work' = work \/ (~mark /\ work' = [work EXCEPT ![q] = "joining"])
        BY <3>1 DEF AtLoopTop, NextTarget
      <3>3. q = r => mark
        <4>1. Driven(q)
          BY <3>1 DEF AtLoopTop, Driven, Driving
        <4> QED
          BY <1>1, <2>0, <4>1 DEF AuthoringIInv, SlotIsOwn
      <3> QED
        BY <1>1, <2>0, <2>a, <3>2, <3>3
    <2>3. ASSUME NEW q \in Runs,
                 Return(q) \/ RecordOutcome(q) \/ RecordCheckpoint(q) \/ Settle(q) \/ FailAppend(q)
          PROVE  work'[r] # "joining"
      BY <1>1, <2>0, <2>a, <2>3 DEF Return, RecordOutcome, RecordCheckpoint, Settle, FailAppend, inner
    <2>4. ASSUME NEW q \in Runs, Author(q) PROVE work'[r] # "joining"
      BY <1>1, <2>0, <2>a, <2>4 DEF Author, Join, FailJoin, PhaseTurnEnds, OverviewTurnEnds,
         Raise, Pass, Refuse, Release,
         Interrupt, LeaveTarget
    <2>5. CASE CancelRun \/ Crash \/ UNCHANGED authoringVars
      BY <1>1, <2>0, <2>5 DEF CancelRun, Crash, authoringVars, inner
    <2> QED
      BY <1>1, <2>1, <2>2, <2>3, <2>4, <2>5 DEF AuthoringNext, Drive
  <1>2. AuthoringIInv /\ [AuthoringNext]_authoringVars
          => [\A r \in asked \ shared : work[r] # "joining" => work'[r] # "joining"]_authoringVars
    BY <1>1
  <1> QED
    BY AuthoringInvariant, <1>2, PTL DEF AuthoringSpec, CancelIsObeyed

(***************************************************************************)
(* AuthoringRun: what is left of a run.                                    *)
(***************************************************************************)
\* A run that is open on its log and that nothing cut short has its driver, and
\* while that awaits a target there is a task of that target to wait for.
UnsettledIsDriven ==
  /\ \A r \in Runs \ (broken \union shared) : log[r].status = "running" => Driven(r)
  /\ \A r \in Runs : pc[r] = "working" => work[r] \in InTarget \union {"over"}

AtTarget == {"working", "recording", "noting"}

TargetsLeft(r) ==
  IF pc[r] = "new" THEN Overview + 3
  ELSE IF pc[r] = "starting" THEN Overview + 2
  ELSE IF pc[r] = "fresh" THEN Overview + 1
  ELSE IF pc[r] \in AtTarget THEN Overview + 1 - target[r]
  ELSE 0

AwaitsLeft(r) ==
  IF pc[r] = "working" THEN 3
  ELSE IF pc[r] = "recording" THEN 2
  ELSE IF pc[r] \in {"noting", "settling"} THEN 1
  ELSE 0

StagesLeft(r) ==
  IF work[r] = "joining" THEN 3
  ELSE IF work[r] \in {"turn", "files"} THEN 2
  ELSE IF work[r] = "releasing" THEN 1
  ELSE 0

PhasesLeft(r) == NPhases - phase[r]

TriesLeft(r) == IF again[r] THEN 0 ELSE 1

NotesLeft(r) ==
  IF pc[r] = "noting" THEN notes[r] ELSE IF work[r] = "turn" THEN 1 ELSE 0

\* What is left of a run, the most significant number first.
Left(r) ==
  <<TargetsLeft(r), AwaitsLeft(r), StagesLeft(r), PhasesLeft(r), TriesLeft(r), NotesLeft(r)>>

\* There are finitely many such tuples.
LeftRange ==
  (0..(Overview + 3)) \X (0..3) \X (0..3) \X (0..NPhases) \X (0..1) \X (0..MaxNotes)

LeftIsBounded == \A r \in Runs : Left(r) \in LeftRange

\* The order of the tuples of six.
Below(x, y) == \E i \in 1..6 : x[i] < y[i] /\ \A j \in 1..(i - 1) : x[j] = y[j]

Descents == {d \in LeftRange \X LeftRange : Below(d[1], d[2])}

\* The steps of a run's own tasks.
OwnStep(r) == Start(r) \/ FailStart(r) \/ Register(r) \/ Drive(r) \/ Author(r)

\* Each of them brings the run nearer to its end, and nothing sets it back.
RunsComeCloser ==
  [][\A r \in Runs :
       /\ OwnStep(r) => Below(Left(r)', Left(r))
       /\ Left(r)' = Left(r) \/ Below(Left(r)', Left(r))]_authoringVars

\* Numbers that agree before the first that falls.
LEMMA FirstThatFalls ==
  ASSUME NEW a1, NEW a2, NEW a3, NEW a4, NEW a5, NEW a6,
         NEW b1, NEW b2, NEW b3, NEW b4, NEW b5, NEW b6,
         \/ a1 < b1
         \/ a1 = b1 /\ a2 < b2
         \/ a1 = b1 /\ a2 = b2 /\ a3 < b3
         \/ a1 = b1 /\ a2 = b2 /\ a3 = b3 /\ a4 < b4
         \/ a1 = b1 /\ a2 = b2 /\ a3 = b3 /\ a4 = b4 /\ a5 < b5
         \/ a1 = b1 /\ a2 = b2 /\ a3 = b3 /\ a4 = b4 /\ a5 = b5 /\ a6 < b6
  PROVE  Below(<<a1, a2, a3, a4, a5, a6>>, <<b1, b2, b3, b4, b5, b6>>)
  <1> DEFINE x == <<a1, a2, a3, a4, a5, a6>>
             y == <<b1, b2, b3, b4, b5, b6>>
  <1>1. /\ x[1] = a1 /\ x[2] = a2 /\ x[3] = a3 /\ x[4] = a4 /\ x[5] = a5 /\ x[6] = a6
        /\ y[1] = b1 /\ y[2] = b2 /\ y[3] = b3 /\ y[4] = b4 /\ y[5] = b5 /\ y[6] = b6
    OBVIOUS
  <1> HIDE DEF x, y
  <1>2. \E i \in 1..6 : x[i] < y[i] /\ \A j \in 1..(i - 1) : x[j] = y[j]
    <2>1. CASE a1 < b1
      <3>1. x[1] < y[1] /\ \A j \in 1..(1 - 1) : x[j] = y[j]
        BY <1>1, <2>1
      <3> QED
        BY <3>1
    <2>2. CASE a1 = b1 /\ a2 < b2
      <3>1. x[2] < y[2] /\ \A j \in 1..(2 - 1) : x[j] = y[j]
        BY <1>1, <2>2
      <3> QED
        BY <3>1
    <2>3. CASE a1 = b1 /\ a2 = b2 /\ a3 < b3
      <3>1. x[3] < y[3] /\ \A j \in 1..(3 - 1) : x[j] = y[j]
        BY <1>1, <2>3
      <3> QED
        BY <3>1
    <2>4. CASE a1 = b1 /\ a2 = b2 /\ a3 = b3 /\ a4 < b4
      <3>1. x[4] < y[4] /\ \A j \in 1..(4 - 1) : x[j] = y[j]
        BY <1>1, <2>4
      <3> QED
        BY <3>1
    <2>5. CASE a1 = b1 /\ a2 = b2 /\ a3 = b3 /\ a4 = b4 /\ a5 < b5
      <3>1. x[5] < y[5] /\ \A j \in 1..(5 - 1) : x[j] = y[j]
        BY <1>1, <2>5
      <3> QED
        BY <3>1
    <2>6. CASE a1 = b1 /\ a2 = b2 /\ a3 = b3 /\ a4 = b4 /\ a5 = b5 /\ a6 < b6
      <3>1. x[6] < y[6] /\ \A j \in 1..(6 - 1) : x[j] = y[j]
        BY <1>1, <2>6
      <3> QED
        BY <3>1
    <2> QED
      BY <2>1, <2>2, <2>3, <2>4, <2>5, <2>6
  <1> QED
    BY <1>2 DEF Below, x, y

\* What the parts of a step say of the whole.
LEMMA NearerIfAPartFalls ==
  ASSUME NEW r \in Runs,
         \/ TargetsLeft(r)' < TargetsLeft(r)
         \/ /\ TargetsLeft(r)' = TargetsLeft(r)
            /\ \/ AwaitsLeft(r)' < AwaitsLeft(r)
               \/ /\ AwaitsLeft(r)' = AwaitsLeft(r)
                  /\ \/ StagesLeft(r)' < StagesLeft(r)
                     \/ /\ StagesLeft(r)' = StagesLeft(r)
                        /\ \/ PhasesLeft(r)' < PhasesLeft(r)
                           \/ /\ PhasesLeft(r)' = PhasesLeft(r)
                              /\ \/ TriesLeft(r)' < TriesLeft(r)
                                 \/ TriesLeft(r)' = TriesLeft(r) /\ NotesLeft(r)' < NotesLeft(r)
  PROVE  Below(Left(r)', Left(r))
  <1> DEFINE a1 == TargetsLeft(r)' a2 == AwaitsLeft(r)' a3 == StagesLeft(r)'
             a4 == PhasesLeft(r)' a5 == TriesLeft(r)' a6 == NotesLeft(r)'
             b1 == TargetsLeft(r) b2 == AwaitsLeft(r) b3 == StagesLeft(r)
             b4 == PhasesLeft(r) b5 == TriesLeft(r) b6 == NotesLeft(r)
  <1>1. \/ a1 < b1
        \/ a1 = b1 /\ a2 < b2
        \/ a1 = b1 /\ a2 = b2 /\ a3 < b3
        \/ a1 = b1 /\ a2 = b2 /\ a3 = b3 /\ a4 < b4
        \/ a1 = b1 /\ a2 = b2 /\ a3 = b3 /\ a4 = b4 /\ a5 < b5
        \/ a1 = b1 /\ a2 = b2 /\ a3 = b3 /\ a4 = b4 /\ a5 = b5 /\ a6 < b6
    OBVIOUS
  <1> HIDE DEF a1, a2, a3, a4, a5, a6, b1, b2, b3, b4, b5, b6
  <1>2. Below(<<a1, a2, a3, a4, a5, a6>>, <<b1, b2, b3, b4, b5, b6>>)
    BY <1>1, FirstThatFalls
  <1>3. Left(r)' = <<a1, a2, a3, a4, a5, a6>> /\ Left(r) = <<b1, b2, b3, b4, b5, b6>>
    BY DEF Left, a1, a2, a3, a4, a5, a6, b1, b2, b3, b4, b5, b6
  <1> QED
    BY <1>2, <1>3

\* A step that leaves a run's tasks alone leaves what is left of it.
LEMMA LeftKept ==
  ASSUME NEW r \in Runs, UNCHANGED <<pc[r], target[r], work[r], phase[r], again[r], notes[r]>>
  PROVE  Left(r)' = Left(r)
  BY DEF Left, TargetsLeft, AwaitsLeft, StagesLeft, PhasesLeft, TriesLeft, NotesLeft

\* A run that has a task left to run is that much above its end.
LEMMA LeftOfARun ==
  ASSUME AuthoringTypes, NEW r \in Runs
  PROVE  /\ Overview \in Nat /\ NPhases \in Nat
         /\ target[r] \in Nat /\ target[r] >= 1 /\ Overview + 1 - target[r] >= 1
         /\ phase[r] \in Nat /\ NPhases - phase[r] >= 0
         /\ notes[r] \in Nat /\ again[r] \in BOOLEAN
  BY TypesOfARun, AuthoringSizes

\* Nothing goes down among these tuples for ever.
LEMMA DescentsEnd == IsWellFoundedOn(Descents, LeftRange)
  <1> DEFINE Lower == {p \in Nat \X Nat : p[1] < p[2]}
             Six == [1..6 -> Nat]
             SixOrder == LexProductOrdering(Lower, Nat, 6)
  <1>1. IsWellFoundedOn(SixOrder, Six)
    <2>1. IsWellFoundedOn(Lower, Nat)
      BY NatLessThanWellFounded DEF OpToRel
    <2> HIDE DEF Lower
    <2> QED
      BY <2>1, WFLexProductOrdering
  <1>2. LeftRange \subseteq Six
    <2> SUFFICES ASSUME NEW x \in LeftRange PROVE x \in Six
      OBVIOUS
    <2>1. /\ x = <<x[1], x[2], x[3], x[4], x[5], x[6]>>
          /\ x[1] \in 0..(Overview + 3) /\ x[2] \in 0..3 /\ x[3] \in 0..3
          /\ x[4] \in 0..NPhases /\ x[5] \in 0..1 /\ x[6] \in 0..MaxNotes
      BY DEF LeftRange
    <2>a. /\ Overview + 3 \in Nat /\ NPhases \in Nat /\ MaxNotes \in Nat
          /\ 3 \in Nat /\ 1 \in Nat
      BY AuthoringSizes
    <2>b. \A n \in Nat : 0..n \subseteq Nat
      OBVIOUS
    <2>2. /\ x[1] \in Nat /\ x[2] \in Nat /\ x[3] \in Nat
          /\ x[4] \in Nat /\ x[5] \in Nat /\ x[6] \in Nat
      <3> HIDE DEF Lower, Six, SixOrder
      <3> QED
        BY <2>1, <2>a, <2>b, Zenon
    <2> QED
      BY <2>1, <2>2
  <1>3. Descents \subseteq SixOrder
    <2> SUFFICES ASSUME NEW x \in LeftRange, NEW y \in LeftRange, Below(x, y)
                 PROVE  <<x, y>> \in SixOrder
      BY DEF Descents
    <2>0. x \in Six /\ y \in Six
      BY <1>2
    <2>1. PICK i \in 1..6 : x[i] < y[i] /\ \A j \in 1..(i - 1) : x[j] = y[j]
      BY DEF Below
    <2>2. x[i] \in Nat /\ y[i] \in Nat
      BY <2>0
    <2>3. <<x[i], y[i]>> \in Lower
      BY <2>1, <2>2
    <2> HIDE DEF Lower
    <2> QED
      BY <2>0, <2>1, <2>3 DEF LexProductOrdering
  <1>4. IsWellFoundedOn(SixOrder, LeftRange)
    BY <1>1, <1>2, IsWellFoundedOnSubset
  <1>5. Descents \cap (LeftRange \X LeftRange) \subseteq SixOrder
    BY <1>3
  <1> HIDE DEF SixOrder
  <1> QED
    BY <1>4, <1>5, IsWellFoundedOnSubrelation

\* Each step of a run's own tasks brings it nearer to its end.
LEMMA OwnStepsComeCloser ==
  ASSUME AuthoringIInv, NEW r \in Runs, OwnStep(r)
  PROVE  Below(Left(r)', Left(r))
  <1>0. /\ AuthoringTypes /\ NotesOf(r)
        /\ pc \in [Runs -> {"new", "starting", "over", "dead"} \union Driving]
        /\ target \in [Runs -> Targets] /\ phase \in [Runs -> Phases]
        /\ work \in [Runs -> {"none", "joining", "turn", "files", "releasing", "over"}]
        /\ again \in [Runs -> BOOLEAN] /\ notes \in [Runs -> 0..MaxNotes]
    BY DEF AuthoringIInv, AuthoringTypes, NotesAdd
  <1>n. /\ Overview \in Nat /\ NPhases \in Nat
        /\ target[r] \in Nat /\ Overview + 1 - target[r] >= 1
        /\ phase[r] \in Nat /\ notes[r] \in Nat
    BY <1>0, LeftOfARun
  <1>1. CASE Start(r) \/ FailStart(r) \/ Register(r)
    <2>1. TargetsLeft(r)' < TargetsLeft(r)
      BY <1>0, <1>n, <1>1 DEF Start, FailStart, Register, TargetsLeft, AtTarget
    <2> QED
      BY <2>1, NearerIfAPartFalls
  <1>2. CASE BeginRun(r) \/ NextAfter(r)
    <2>1. PICK t \in 1..(Overview + 1) : AtLoopTop(r, t)
      BY <1>2, LoopTop
    <2>2. pc[r] \in {"fresh", "noting"} /\ (pc[r] = "noting" => t = target[r] + 1)
      BY <2>1 DEF AtLoopTop
    <2>3. \/ pc'[r] \in {"settling", "dead"}
          \/ pc'[r] = "working" /\ target'[r] = t
      BY <1>0, <2>1 DEF AtLoopTop, NextTarget
    <2>4. TargetsLeft(r)' < TargetsLeft(r)
      BY <1>n, <2>2, <2>3 DEF TargetsLeft, AtTarget
    <2> QED
      BY <2>4, NearerIfAPartFalls
  <1>3. CASE Return(r) \/ RecordOutcome(r)
    <2>1. /\ pc[r] \in AtTarget /\ target' = target
          /\ \/ pc'[r] = "settling"
             \/ pc[r] = "working" /\ pc'[r] = "recording"
             \/ pc[r] = "recording" /\ pc'[r] = "noting"
      BY <1>0, <1>3 DEF Return, RecordOutcome, AtTarget
    <2>2. \/ TargetsLeft(r)' < TargetsLeft(r)
          \/ TargetsLeft(r)' = TargetsLeft(r) /\ AwaitsLeft(r)' < AwaitsLeft(r)
      BY <1>n, <2>1 DEF TargetsLeft, AwaitsLeft, AtTarget
    <2> QED
      BY <2>2, NearerIfAPartFalls
  <1>4. CASE RecordCheckpoint(r)
    <2>1. /\ UNCHANGED <<pc[r], target[r], work[r], phase[r], again[r]>>
          /\ pc[r] = "noting" /\ notes'[r] = notes[r] - 1
      BY <1>0, <1>4 DEF RecordCheckpoint, driver
    <2>2. /\ TargetsLeft(r)' = TargetsLeft(r) /\ AwaitsLeft(r)' = AwaitsLeft(r)
          /\ StagesLeft(r)' = StagesLeft(r) /\ PhasesLeft(r)' = PhasesLeft(r)
          /\ TriesLeft(r)' = TriesLeft(r)
      BY <2>1 DEF TargetsLeft, AwaitsLeft, StagesLeft, PhasesLeft, TriesLeft
    <2>3. NotesLeft(r)' < NotesLeft(r)
      BY <1>n, <2>1 DEF NotesLeft
    <2> QED
      BY <2>2, <2>3, NearerIfAPartFalls
  <1>5. CASE Settle(r) \/ FailAppend(r)
    <2>1. /\ pc[r] \in {"recording", "noting", "settling"}
          /\ pc'[r] \in {"over", "dead"}
      BY <1>0, <1>5 DEF Settle, FailAppend
    <2>2. \/ TargetsLeft(r)' < TargetsLeft(r)
          \/ TargetsLeft(r)' = TargetsLeft(r) /\ AwaitsLeft(r)' < AwaitsLeft(r)
      BY <1>n, <2>1 DEF TargetsLeft, AwaitsLeft, AtTarget
    <2> QED
      BY <2>2, NearerIfAPartFalls
  <1>6. CASE Author(r)
    <2>1. UNCHANGED <<pc[r], target[r]>>
      BY <1>6 DEF Author, Join, FailJoin, PhaseTurnEnds, OverviewTurnEnds,
         Raise, Pass, Refuse, Release, Interrupt,
         untouched, driver
    <2>2. TargetsLeft(r)' = TargetsLeft(r) /\ AwaitsLeft(r)' = AwaitsLeft(r)
      BY <2>1 DEF TargetsLeft, AwaitsLeft
    <2>3. work[r] \in InTarget /\ pc[r] = "working"
      <3>1. work[r] \in InTarget
        BY <1>6 DEF Author, Join, FailJoin, PhaseTurnEnds, OverviewTurnEnds,
           Raise, Pass, Refuse, Release, Interrupt,
           Working, InTarget
      <3> QED
        BY <1>0, <3>1 DEF NotesOf
    <2>4. CASE Join(r) \/ FailJoin(r) \/ OverviewTurnEnds(r) \/ Raise(r) \/ Release(r)
      <3>1. StagesLeft(r)' < StagesLeft(r)
        BY <1>0, <2>4 DEF Join, FailJoin, OverviewTurnEnds, Raise, Release, Working, LeaveTarget, StagesLeft
      <3> QED
        BY <2>2, <3>1, NearerIfAPartFalls
    <2>5. CASE PhaseTurnEnds(r)
      <3>1. /\ work[r] = "turn" /\ work'[r] = "files" /\ pc'[r] = "working"
            /\ UNCHANGED <<phase[r], again[r]>>
        BY <1>0, <2>1, <2>3, <2>5 DEF PhaseTurnEnds, Working
      <3>2. /\ StagesLeft(r)' = StagesLeft(r) /\ PhasesLeft(r)' = PhasesLeft(r)
            /\ TriesLeft(r)' = TriesLeft(r) /\ NotesLeft(r)' < NotesLeft(r)
        BY <2>3, <3>1 DEF StagesLeft, PhasesLeft, TriesLeft, NotesLeft
      <3> QED
        BY <2>2, <3>2, NearerIfAPartFalls
    <2>6. CASE Pass(r)
      <3>1. /\ work[r] = "files"
            /\ \/ work'[r] = "releasing"
               \/ work'[r] = "turn" /\ phase'[r] = phase[r] + 1
        BY <1>0, <2>6 DEF Pass, Working, LeaveTarget
      <3>2. \/ StagesLeft(r)' < StagesLeft(r)
            \/ StagesLeft(r)' = StagesLeft(r) /\ PhasesLeft(r)' < PhasesLeft(r)
        BY <1>n, <3>1 DEF StagesLeft, PhasesLeft
      <3> QED
        BY <2>2, <3>2, NearerIfAPartFalls
    <2>7. CASE Refuse(r)
      <3>1. /\ work[r] = "files" /\ phase' = phase
            /\ \/ work'[r] = "releasing"
               \/ work'[r] = "turn" /\ ~again[r] /\ again'[r]
        BY <1>0, <2>7 DEF Refuse, Working, LeaveTarget
      <3>2. \/ StagesLeft(r)' < StagesLeft(r)
            \/ /\ StagesLeft(r)' = StagesLeft(r) /\ PhasesLeft(r)' = PhasesLeft(r)
               /\ TriesLeft(r)' < TriesLeft(r)
        BY <3>1 DEF StagesLeft, PhasesLeft, TriesLeft
      <3> QED
        BY <2>2, <3>2, NearerIfAPartFalls
    <2>8. CASE Interrupt(r)
      <3>1. \/ work[r] \in {"joining", "releasing"} /\ work'[r] = "over"
            \/ work[r] \in {"turn", "files"} /\ work'[r] = "releasing"
        BY <1>0, <2>8 DEF Interrupt, LeaveTarget
      <3>2. StagesLeft(r)' < StagesLeft(r)
        BY <3>1 DEF StagesLeft
      <3> QED
        BY <2>2, <3>2, NearerIfAPartFalls
    <2> QED
      BY <1>6, <2>4, <2>5, <2>6, <2>7, <2>8 DEF Author
  <1> QED
    BY <1>1, <1>2, <1>3, <1>4, <1>5, <1>6 DEF OwnStep, Drive

\* The steps of others, a request to stop and a restart never set a run back.
LEMMA OthersNeverSetBack ==
  ASSUME AuthoringIInv, [AuthoringNext]_authoringVars, NEW r \in Runs, ~OwnStep(r)
  PROVE  Left(r)' = Left(r) \/ Below(Left(r)', Left(r))
  <1>0. /\ AuthoringTypes /\ NotesOf(r)
        /\ pc \in [Runs -> {"new", "starting", "over", "dead"} \union Driving]
        /\ target \in [Runs -> Targets] /\ phase \in [Runs -> Phases]
        /\ work \in [Runs -> {"none", "joining", "turn", "files", "releasing", "over"}]
        /\ again \in [Runs -> BOOLEAN] /\ notes \in [Runs -> 0..MaxNotes]
    BY DEF AuthoringIInv, AuthoringTypes, NotesAdd
  <1>n. /\ Overview \in Nat /\ NPhases \in Nat
        /\ target[r] \in Nat /\ Overview + 1 - target[r] >= 1
        /\ phase[r] \in Nat /\ notes[r] \in Nat
    BY <1>0, LeftOfARun
  <1> DEFINE Same == UNCHANGED <<pc[r], target[r], work[r], phase[r], again[r], notes[r]>>
  <1>1. ASSUME NEW q \in Runs, q # r, Start(q) \/ FailStart(q) \/ Register(q) PROVE Same
    BY <1>0, <1>1 DEF Start, FailStart, Register, inner
  <1>2. ASSUME NEW q \in Runs, q # r, BeginRun(q) \/ NextAfter(q) PROVE Same
    <2>1. PICK t \in 1..(Overview + 1) : AtLoopTop(q, t)
      BY <1>2, LoopTop
    <2>2. NextTarget(q, t)
      BY <2>1 DEF AtLoopTop
    <2> QED
      BY <1>0, <1>2, <2>2 DEF NextTarget
  <1>3. ASSUME NEW q \in Runs, q # r, Return(q) \/ RecordOutcome(q) \/ RecordCheckpoint(q) PROVE Same
    BY <1>0, <1>3 DEF Return, RecordOutcome, RecordCheckpoint, driver
  <1>4. ASSUME NEW q \in Runs, q # r, Settle(q) \/ FailAppend(q) PROVE Same
    BY <1>0, <1>4 DEF Settle, FailAppend, inner
  <1>5. ASSUME NEW q \in Runs, q # r, Author(q) PROVE Same
    <2>1. UNCHANGED <<pc[r], target[r]>>
      BY <1>5 DEF Author, Join, FailJoin, PhaseTurnEnds, OverviewTurnEnds,
         Raise, Pass, Refuse, Release, Interrupt,
         untouched, driver
    <2>2. UNCHANGED <<work[r], phase[r], again[r], notes[r]>>
      BY <1>0, <1>5 DEF Author, Join, FailJoin, PhaseTurnEnds, OverviewTurnEnds,
         Raise, Pass, Refuse, Release, Interrupt,
         LeaveTarget, Note
    <2> QED
      BY <2>1, <2>2
  <1>6. CASE CancelRun \/ UNCHANGED authoringVars
    <2>1. Same
      BY <1>6 DEF CancelRun, authoringVars, driver, inner
    <2> QED
      BY <2>1, LeftKept
  <1>7. CASE Crash
    <2>1. /\ pc'[r] = (IF Driven(r) \/ pc[r] = "starting" THEN "dead" ELSE pc[r])
          /\ work'[r] = "none" /\ UNCHANGED <<target[r], phase[r], again[r]>>
      BY <1>7 DEF Crash
    <2>2. CASE Driven(r) \/ pc[r] = "starting"
      <3>1. \/ TargetsLeft(r)' < TargetsLeft(r)
            \/ TargetsLeft(r)' = TargetsLeft(r) /\ AwaitsLeft(r)' < AwaitsLeft(r)
        BY <1>n, <2>1, <2>2 DEF TargetsLeft, AwaitsLeft, AtTarget, Driven, Driving
      <3> QED
        BY <3>1, NearerIfAPartFalls
    <2>3. CASE pc[r] \in {"new", "over", "dead"}
      <3>1. pc'[r] = pc[r] /\ work[r] \notin InTarget
        BY <1>0, <2>1, <2>3 DEF NotesOf, Driven, Driving
      <3>2. /\ TargetsLeft(r)' = TargetsLeft(r) /\ AwaitsLeft(r)' = AwaitsLeft(r)
            /\ StagesLeft(r)' = StagesLeft(r) /\ PhasesLeft(r)' = PhasesLeft(r)
            /\ TriesLeft(r)' = TriesLeft(r) /\ NotesLeft(r)' = NotesLeft(r)
        BY <2>1, <2>3, <3>1 DEF TargetsLeft, AwaitsLeft, StagesLeft, PhasesLeft, TriesLeft, NotesLeft, InTarget
      <3> QED
        BY <3>2 DEF Left
    <2> QED
      BY <1>0, <2>2, <2>3 DEF Driven
  <1>8. ASSUME NEW q \in Runs, Start(q) \/ FailStart(q) \/ Register(q) \/ Drive(q) \/ Author(q)
        PROVE  Same
    <2>1. q # r
      BY <1>8 DEF OwnStep
    <2> QED
      BY <1>1, <1>2, <1>3, <1>4, <1>5, <1>8, <2>1 DEF Drive
  <1> HIDE DEF Same
  <1>9. Same => Left(r)' = Left(r)
    BY LeftKept DEF Same
  <1> QED
    BY <1>6, <1>7, <1>8, <1>9 DEF AuthoringNext

\* No run goes on for ever: what is left of it is one of finitely many tuples in a well-founded
\* order, every step of its own tasks leads to a smaller one, and no step of another run, no
\* request to stop and no restart leads to a greater one.
THEOREM RunsRunOut ==
  /\ IsWellFoundedOn(Descents, LeftRange)
  /\ AuthoringSpec => []LeftIsBounded /\ RunsComeCloser
  <1>2. AuthoringIInv => LeftIsBounded
    <2> SUFFICES ASSUME AuthoringIInv, NEW r \in Runs PROVE Left(r) \in LeftRange
      BY DEF LeftIsBounded
    <2>1. AuthoringTypes /\ MaxNotes \in Nat /\ MaxNotes >= 1 /\ notes[r] \in 0..MaxNotes
      BY TypesOfARun, AuthoringSizes DEF AuthoringIInv
    <2>2. /\ Overview \in Nat /\ target[r] \in Nat /\ target[r] >= 1
          /\ Overview + 1 - target[r] >= 1
          /\ phase[r] \in Nat /\ NPhases \in Nat /\ NPhases - phase[r] >= 0
      BY <2>1, LeftOfARun
    <2>3. TargetsLeft(r) \in 0..(Overview + 3) /\ AwaitsLeft(r) \in 0..3
      BY <2>2 DEF TargetsLeft, AwaitsLeft
    <2>4. StagesLeft(r) \in 0..3 /\ PhasesLeft(r) \in 0..NPhases
      BY <2>2 DEF StagesLeft, PhasesLeft
    <2>5. TriesLeft(r) \in 0..1 /\ NotesLeft(r) \in 0..MaxNotes
      BY <2>1 DEF TriesLeft, NotesLeft
    <2> QED
      BY <2>3, <2>4, <2>5 DEF Left, LeftRange
  <1>1. AuthoringIInv /\ [AuthoringNext]_authoringVars
          => [\A r \in Runs :
                /\ OwnStep(r) => Below(Left(r)', Left(r))
                /\ Left(r)' = Left(r) \/ Below(Left(r)', Left(r))]_authoringVars
    BY OwnStepsComeCloser, OthersNeverSetBack
  <1> QED
    BY AuthoringInvariant, DescentsEnd, <1>1, <1>2, PTL DEF AuthoringSpec, RunsComeCloser

\* A run that is not settled has a driver at work on it, or was cut short.
THEOREM UnsettledRunsAreDriven == AuthoringSpec => []UnsettledIsDriven
  <1> DEFINE Kept(r) == log[r].status = "running" => Driven(r)
             KeptAll == \A r \in Runs \ (broken \union shared) : Kept(r)
  <1>1. AuthoringInit => KeptAll
    <2> SUFFICES ASSUME AuthoringInit, NEW r \in Runs PROVE Kept(r)
      OBVIOUS
    <2>1. log[r].status = "new"
      BY DEF AuthoringInit
    <2> QED
      BY <2>1
  <1>2. ASSUME AuthoringIInv, KeptAll, [AuthoringNext]_authoringVars PROVE KeptAll'
    <2> SUFFICES ASSUME NEW r \in Runs, r \notin broken', r \notin shared' PROVE Kept(r)'
      OBVIOUS
    <2>0. /\ AuthoringTypes /\ StreamOf(r)
          /\ pc \in [Runs -> {"new", "starting", "over", "dead"} \union Driving]
          /\ log \in [Runs -> Run]
      BY <1>2 DEF AuthoringIInv, AuthoringTypes, StreamFollows
    <2>a. r \notin broken /\ r \notin shared
      <3>1. broken \subseteq broken' /\ shared \subseteq shared'
        <4>1. ASSUME NEW q \in Runs, BeginRun(q) \/ NextAfter(q) PROVE UNCHANGED <<broken, shared>>
          <5>1. PICK t \in 1..(Overview + 1) : AtLoopTop(q, t)
            BY <1>2, <4>1, LoopTop
          <5> QED
            BY <5>1 DEF AtLoopTop, NextTarget
        <4>2. ASSUME NEW q \in Runs, Start(q) \/ FailStart(q) \/ Register(q)
              PROVE  broken' = broken /\ shared \subseteq shared'
          BY <4>2 DEF Start, FailStart, Register, history
        <4>3. ASSUME NEW q \in Runs,
                     Return(q) \/ RecordOutcome(q) \/ RecordCheckpoint(q) \/ Settle(q) \/ FailAppend(q)
              PROVE  broken \subseteq broken' /\ shared' = shared
          BY <4>3 DEF Return, RecordOutcome, RecordCheckpoint, Settle, FailAppend, history
        <4>4. ASSUME NEW q \in Runs, Author(q) PROVE UNCHANGED <<broken, shared>>
          BY <4>4 DEF Author, Join, FailJoin, PhaseTurnEnds, OverviewTurnEnds,
             Raise, Pass, Refuse, Release, Interrupt,
             untouched, history
        <4>5. CASE CancelRun \/ Crash \/ UNCHANGED authoringVars
          BY <4>5 DEF CancelRun, Crash, authoringVars, history
        <4> QED
          BY <1>2, <4>1, <4>2, <4>3, <4>4, <4>5 DEF AuthoringNext, Drive
      <3> QED
        BY <3>1
    <2>b. Kept(r)
      BY <1>2, <2>a
    <2>1. ASSUME NEW q \in Runs, Start(q) \/ FailStart(q) PROVE Kept(r)'
      <3>1. log' = log /\ pc[q] \in {"new", "starting"}
            /\ (pc' = [pc EXCEPT ![q] = "starting"] \/ pc' = [pc EXCEPT ![q] = "dead"])
        BY <2>1 DEF Start, FailStart, stream
      <3>2. q = r => log[r].status = "new"
        BY <2>0, <3>1 DEF StreamOf
      <3> QED
        BY <2>0, <2>b, <3>1, <3>2 DEF Driven
    <2>2. ASSUME NEW q \in Runs, Register(q) PROVE Kept(r)'
      BY <2>0, <2>b, <2>2 DEF Register, Driven, Driving
    <2>3. ASSUME NEW q \in Runs, BeginRun(q) \/ NextAfter(q) PROVE Kept(r)'
      <3>1. PICK t \in 1..(Overview + 1) : AtLoopTop(q, t)
        BY <1>2, <2>3, LoopTop
      <3>2. pc[q] \in {"fresh", "noting"} /\ log' = log
        BY <3>1 DEF AtLoopTop, stream
      <3>3. q = r => frame # None
        <4>1. q = r => frame = r
          BY <1>2, <2>a, <3>2 DEF AuthoringIInv, SlotIsOwn, Driven, Driving
        <4> QED
          BY <4>1, AuthoringSizes
      <3>4. NextTarget(q, t)
        BY <3>1 DEF AtLoopTop
      <3>5. q = r => pc'[r] \in {"settling", "working"}
        BY <2>0, <3>3, <3>4 DEF NextTarget
      <3>6. q # r => pc'[r] = pc[r]
        BY <2>0, <3>4 DEF NextTarget
      <3> QED
        BY <2>b, <3>2, <3>5, <3>6 DEF Driven, Driving
    <2>4. ASSUME NEW q \in Runs, Return(q) \/ RecordOutcome(q) PROVE Kept(r)'
      <3>1. log'[r].status = log[r].status
        <4>1. CASE Return(q)
          BY <4>1 DEF Return, stream
        <4>2. CASE RecordOutcome(q)
          BY <2>0, <4>2 DEF RecordOutcome, Run
        <4> QED
          BY <2>4, <4>1, <4>2
      <3>2. pc'[q] \in Driving /\ (q # r => pc'[r] = pc[r])
        BY <2>0, <2>4 DEF Return, RecordOutcome, Driving
      <3> QED
        BY <2>b, <3>1, <3>2 DEF Driven
    <2>5. ASSUME NEW q \in Runs, RecordCheckpoint(q) PROVE Kept(r)'
      <3>1. log'[r].status = log[r].status /\ pc' = pc
        BY <2>0, <2>5 DEF RecordCheckpoint, Run, driver
      <3> QED
        BY <2>b, <3>1 DEF Driven
    <2>6. ASSUME NEW q \in Runs, Settle(q) PROVE Kept(r)'
      <3>1. Status(q) # "running"
        BY DEF Status
      <3>2. q = r => log'[r].status # "running"
        BY <2>0, <2>6, <3>1 DEF Settle, Run
      <3>3. q # r => log'[r] = log[r] /\ pc'[r] = pc[r]
        BY <2>0, <2>6 DEF Settle
      <3> QED
        BY <2>b, <3>2, <3>3 DEF Driven
    <2>7. ASSUME NEW q \in Runs, FailAppend(q) PROVE Kept(r)'
      <3>1. q # r /\ log' = log /\ pc'[r] = pc[r]
        BY <2>0, <2>7 DEF FailAppend, stream
      <3> QED
        BY <2>b, <3>1 DEF Driven
    <2>8. ASSUME NEW q \in Runs, Author(q) PROVE Kept(r)'
      <3>1. UNCHANGED <<log, pc>>
        BY <2>8 DEF Author, Join, FailJoin, PhaseTurnEnds, OverviewTurnEnds,
           Raise, Pass, Refuse, Release, Interrupt,
           untouched, stream, driver
      <3> QED
        BY <2>b, <3>1 DEF Driven
    <2>9. CASE CancelRun \/ UNCHANGED authoringVars
      <3>1. UNCHANGED <<log, pc>>
        BY <2>9 DEF CancelRun, authoringVars, stream, driver
      <3> QED
        BY <2>b, <3>1 DEF Driven
    <2>10. CASE Crash
      <3>1. PICK saved \in SUBSET {q \in Runs : pc[q] = "starting"} :
              /\ log' = [q \in Runs |->
                          IF q \in saved THEN [log[q] EXCEPT !.status = "running"] ELSE log[q]]
              /\ broken' = broken \union saved \union {q \in Runs : Driven(q)}
        BY <2>10 DEF Crash
      <3>2. r \notin saved /\ ~Driven(r)
        BY <3>1
      <3>3. log'[r] = log[r] /\ log[r].status # "running"
        BY <2>b, <3>1, <3>2
      <3> QED
        BY <3>3
    <2> QED
      BY <1>2, <2>1, <2>2, <2>3, <2>4, <2>5, <2>6, <2>7, <2>8, <2>9, <2>10 DEF AuthoringNext, Drive
  <1>3. AuthoringIInv /\ KeptAll => UnsettledIsDriven
    <2> SUFFICES ASSUME AuthoringIInv, NEW r \in Runs, pc[r] = "working"
                 PROVE  work[r] \in InTarget \union {"over"}
      BY DEF UnsettledIsDriven
    <2>1. work[r] \in {"none", "joining", "turn", "files", "releasing", "over"} /\ work[r] # "none"
      BY DEF AuthoringIInv, AuthoringTypes, NotesAdd, NotesOf
    <2> QED
      BY <2>1 DEF InTarget
  <1> HIDE DEF KeptAll
  <1> QED
    BY AuthoringInvariant, <1>1, <1>2, <1>3, PTL DEF AuthoringSpec

=============================================================================
