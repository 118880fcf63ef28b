--------------------------- MODULE DispatchQueue ---------------------------
(***************************************************************************)
(* The dispatches of one project: people press buttons, a queue holds the  *)
(* presses, and one background task (the drain) runs them one at a time.   *)
(*                                                                         *)
(* A dispatch joins the project, runs one turn of a session of its own and *)
(* releases the project in a finally.  The project is shared: people and   *)
(* other runs take it, give it back, and may release it under a dispatch   *)
(* that holds it.  What the project promises is ProjectLease, which the    *)
(* module ProjectLineage implements; its actions are used here as they     *)
(* are.                                                                    *)
(*                                                                         *)
(* cancel() cancels the drain's task.  The cancellation is delivered at    *)
(* whatever await the task is at when it next runs, and between the two    *)
(* anything else may run, a press included.                                *)
(***************************************************************************)
EXTENDS Integers, Sequences

CONSTANTS
  NPresses,    \* bound: presses, numbered in the order they are made
  MaxCancels,  \* bound: calls of cancel
  Others,      \* sessions of people and of other runs
  Nobody       \* no session

Presses == 1..NPresses

ASSUME BoundsAssumption == NPresses \in Nat /\ MaxCancels \in Nat
ASSUME NamesAssumption ==
  /\ Nobody \notin Presses \union Others
  /\ Others \intersect Presses = {}

VARIABLES
  queue,      \* _pending[project]
  shown,      \* shown[p]: the last frame announced of press p
  draining,   \* whether the project is in _draining
  task,       \* _tasks[project]: the await the newest drain is at
  stop,       \* a cancellation of it is on its way
  ending,     \* how the dispatch being released is to end
  turn,       \* turn[p]: the supervisor's task that runs the turn of p
  cut,        \* presses whose hold on the project was left behind
  cancels,    \* calls of cancel so far
  status, holder, custody,  \* the project, as ProjectLease has it
  moved       \* the project was saved since the drain loaded it

Lease == INSTANCE ProjectLease WITH Sessions <- Presses \union Others, NoSession <- Nobody

project == <<status, holder, custody, moved>>
vars == <<queue, shown, draining, task, stop, ending, turn, cut, cancels, project>>

(***************************************************************************)
(* Types.                                                                  *)
(***************************************************************************)
Ended == {"done", "failed", "cancelled"}

Joining == {"resolving", "loading", "creating", "joining"}

Guarded == {"attaching", "admitting", "waiting", "settling"}

Releasing == {"releasing", "returning"}

AtWork == Joining \union Guarded \union Releasing \union {"rereading"}

Alive == AtWork \union {"fresh"}

TypeOK ==
  /\ queue \in Seq(Presses)
  /\ shown \in [Presses -> {"new", "queued", "running"} \union Ended]
  /\ draining \in BOOLEAN /\ stop \in BOOLEAN /\ moved \in BOOLEAN
  /\ task \in Alive \union {"none"}
  /\ ending \in Ended
  /\ turn \in [Presses -> {"none", "running", "answered", "failed"}]
  /\ cut \subseteq Presses
  /\ cancels \in 0..MaxCancels
  /\ status \in {"created", "archived", "deleted"}
  /\ holder \in Presses \union Others \union {Nobody}
  /\ custody \in Seq(Presses \union Others)

Init ==
  /\ queue = <<>>
  /\ shown = [p \in Presses |-> "new"]
  /\ draining = FALSE
  /\ task = "none"
  /\ stop = FALSE
  /\ ending = "done"
  /\ turn = [p \in Presses |-> "none"]
  /\ cut = {}
  /\ cancels = 0
  /\ status = "created" /\ holder = Nobody /\ custody = <<>>
  /\ moved = FALSE

(***************************************************************************)
(* The queue: start and cancel, both synchronous.                          *)
(***************************************************************************)
Pressed == {p \in Presses : shown[p] # "new"}

\* A press is queued, and starts a drain unless the project is marked.
Press(p) ==
  /\ shown[p] = "new" /\ \A q \in 1..(p - 1) : q \in Pressed
  /\ queue' = Append(queue, p)
  /\ shown' = [shown EXCEPT ![p] = "queued"]
  /\ draining' = TRUE
  /\ task' = IF draining THEN task ELSE "fresh"
  /\ UNCHANGED <<stop, ending, turn, cut, cancels, project>>

Cancel ==
  /\ cancels < MaxCancels
  /\ cancels' = cancels + 1
  /\ queue' = <<>>
  /\ shown' = [p \in Presses |-> IF shown[p] = "queued" THEN "cancelled" ELSE shown[p]]
  /\ stop' = (stop \/ task \in Alive)
  /\ UNCHANGED <<draining, task, ending, turn, cut, project>>

(***************************************************************************)
(* The drain.                                                              *)
(***************************************************************************)
Running(p) == shown[p] = "running"

At(place) == task = place /\ ~stop

\* The loop of _drain from the outcome of one item to the first await of the
\* next, or to its end.
Advance(frames) ==
  IF queue = <<>>
    THEN /\ task' = "none" /\ draining' = FALSE
         /\ shown' = frames
         /\ UNCHANGED queue
    ELSE /\ task' = "resolving"
         /\ shown' = [frames EXCEPT ![Head(queue)] = "running"]
         /\ queue' = Tail(queue)
         /\ UNCHANGED draining

Record(p, outcome) == Advance([shown EXCEPT ![p] = outcome])

Begin ==
  /\ At("fresh")
  /\ Advance(shown)
  /\ UNCHANGED <<stop, ending, turn, cut, cancels, project>>

\* An await that may answer, after which the dispatch is at the next one.
Step(from, to) ==
  /\ At(from)
  /\ task' = to
  /\ UNCHANGED <<queue, shown, draining, stop, ending, turn, cut, cancels>>

\* The topic and the project's name are read before the project is joined.
Resolve == Step("resolving", "loading") /\ UNCHANGED project

LoadProject ==
  /\ holder = Nobody /\ status = "created"
  /\ Step("loading", "creating")
  /\ moved' = FALSE
  /\ UNCHANGED <<status, holder, custody>>

CreateSession == Step("creating", "joining") /\ UNCHANGED project

SaveJoin(p) ==
  /\ Running(p) /\ ~moved
  /\ Step("joining", "attaching")
  /\ Lease!Acquire(p)
  /\ UNCHANGED moved

\* A mutant of FailToJoin: the first failure ends the drain.
FailToJoinForAll(p) ==
  /\ Running(p) /\ ~stop /\ task \in Joining
  /\ task' = "none" /\ draining' = FALSE
  /\ shown' = [shown EXCEPT ![p] = "failed"]
  /\ UNCHANGED <<queue, stop, ending, turn, cut, cancels, project>>

\* What raises before the try: nothing is held, and nothing is released.
FailToJoin(p) ==
  /\ Running(p) /\ ~stop /\ task \in Joining
  /\ Record(p, "failed")
  /\ UNCHANGED <<stop, ending, turn, cut, cancels, project>>

Attach == Step("attaching", "admitting") /\ UNCHANGED project

\* TurnSupervisor.run makes the turn a task of its own and awaits it shielded.
StartTurn(p) ==
  /\ Running(p) /\ At("admitting")
  /\ task' = "waiting"
  /\ turn' = [turn EXCEPT ![p] = "running"]
  /\ UNCHANGED <<queue, shown, draining, stop, ending, cut, cancels, project>>

TurnEnds(p) ==
  /\ turn[p] = "running"
  /\ \E how \in {"answered", "failed"} : turn' = [turn EXCEPT ![p] = how]
  /\ UNCHANGED <<queue, shown, draining, task, stop, ending, cut, cancels, project>>

TimeOut(p) ==
  /\ Running(p) /\ At("waiting") /\ turn[p] = "running"
  /\ task' = "settling"
  /\ UNCHANGED <<queue, shown, draining, stop, ending, turn, cut, cancels, project>>

\* The finally of dispatch, on the way to "outcome".
Finally(outcome) ==
  /\ task' = "releasing"
  /\ ending' = outcome
  /\ UNCHANGED <<queue, shown, draining, turn, cut, cancels, project>>

Answered(p) ==
  /\ Running(p) /\ At("waiting") /\ turn[p] \in {"answered", "failed"}
  /\ Finally(IF turn[p] = "answered" THEN "done" ELSE "failed")
  /\ UNCHANGED stop

\* A mutant of FailGuarded: the release follows the turn instead of standing in a finally.
FailGuardedHolding ==
  /\ ~stop /\ task \in {"attaching", "admitting", "settling"}
  /\ \E p \in Presses : Running(p) /\ Record(p, "failed")
  /\ UNCHANGED <<stop, ending, turn, cut, cancels, project>>

FailGuarded ==
  /\ ~stop /\ task \in {"attaching", "admitting", "settling"}
  /\ Finally("failed")
  /\ UNCHANGED stop

\* Another holder, or none: release_session_project returns without a word.
NotHeld(p) == holder # p

LoadHeld(p) ==
  /\ Running(p) /\ ~NotHeld(p)
  /\ Step("releasing", "returning")
  /\ moved' = FALSE
  /\ UNCHANGED <<status, holder, custody>>

\* What follows the release, by how the try ended.
AfterRelease(p) ==
  /\ IF ending = "done"
       THEN task' = "rereading" /\ UNCHANGED <<queue, shown, draining>>
       ELSE Record(p, ending)
  /\ UNCHANGED <<stop, ending, turn, cut, cancels>>

\* A cancelled dispatch ends its drain: frame, then the drain's own finally.
Die(p) ==
  /\ task' = "none" /\ draining' = FALSE
  /\ shown' = [shown EXCEPT ![p] = "cancelled"]
  /\ UNCHANGED <<queue, ending, turn, cancels>>

NothingToRelease(p) ==
  /\ Running(p) /\ At("releasing") /\ NotHeld(p)
  /\ \/ ending # "cancelled" /\ AfterRelease(p)
     \/ ending = "cancelled" /\ Die(p) /\ UNCHANGED <<stop, cut>>
  /\ UNCHANGED project

SaveRelease(p) ==
  /\ Running(p) /\ At("returning") /\ ~moved
  /\ Lease!GiveBack
  /\ UNCHANGED moved
  /\ \/ ending # "cancelled" /\ AfterRelease(p)
     \/ ending = "cancelled" /\ Die(p) /\ UNCHANGED <<stop, cut>>

\* The release itself raises (a save that lost its version, a store that
\* fails): an exception of a finally takes the place of the cancellation, so
\* the drain records a failure and goes on.
FailToRelease(p) ==
  /\ Running(p) /\ ~stop /\ task \in Releasing
  /\ Record(p, "failed")
  /\ cut' = cut \union {p}
  /\ UNCHANGED <<stop, ending, turn, cancels, project>>

Reread(p) ==
  /\ Running(p) /\ At("rereading")
  /\ \E outcome \in {"done", "failed"} : Record(p, outcome)
  /\ UNCHANGED <<stop, ending, turn, cut, cancels, project>>

(***************************************************************************)
(* The delivery of a cancellation, by the await it finds the drain at.     *)
(***************************************************************************)
\* A task that never ran never enters its try, nor its finally.
NeverBegins ==
  /\ stop /\ task = "fresh"
  /\ task' = "none" /\ stop' = FALSE
  /\ UNCHANGED <<queue, shown, draining, ending, turn, cut, cancels, project>>

\* Before the try: the save of a join may have been made all the same.
StopJoining(p) ==
  /\ stop /\ Running(p) /\ task \in Joining \union {"rereading"}
  /\ Die(p) /\ stop' = FALSE
  /\ \/ UNCHANGED <<cut, project>>
     \/ task = "joining" /\ ~moved
        /\ Lease!Acquire(p) /\ UNCHANGED moved /\ cut' = cut \union {p}

\* Inside the try: the turn goes on, its waiter leaves through the finally.
StopGuarded ==
  /\ stop /\ task \in Guarded \ {"settling"}
  /\ Finally("cancelled") /\ stop' = FALSE

\* While a turn that timed out unwinds, a cancellation is suppressed.
StopSettling ==
  /\ stop /\ task = "settling"
  /\ Finally("failed") /\ stop' = FALSE

\* Inside the finally: the release is cut short, unless its save was made.
StopReleasing(p) ==
  /\ stop /\ Running(p) /\ task \in Releasing
  /\ Die(p) /\ stop' = FALSE
  /\ \/ cut' = cut \union {p} /\ UNCHANGED project
     \/ task = "returning" /\ ~moved
        /\ Lease!GiveBack /\ UNCHANGED <<moved, cut>>

(***************************************************************************)
(* What others do to the project.  Any save of it makes a decision taken   *)
(* on an older load fail.                                                  *)
(***************************************************************************)
Elsewhere ==
  /\ \/ \E o \in Others : Lease!Acquire(o)
     \/ Lease!GiveBack   \* its own session, a takeover, POST .../release
     \/ \E next \in {"created", "archived", "deleted"} : Lease!Retire(next)
     \/ UNCHANGED <<status, holder, custody>> /\ ~moved   \* an edit
  /\ moved' = TRUE
  /\ UNCHANGED <<queue, shown, draining, task, stop, ending, turn, cut, cancels>>

DrainStep ==
  \/ Begin \/ Resolve \/ LoadProject \/ CreateSession \/ Attach \/ FailGuarded
  \/ NeverBegins \/ StopGuarded \/ StopSettling
  \/ \E p \in Presses :
       \/ SaveJoin(p) \/ FailToJoin(p) \/ StartTurn(p) \/ Answered(p)
       \/ LoadHeld(p) \/ NothingToRelease(p) \/ SaveRelease(p) \/ FailToRelease(p)
       \/ Reread(p) \/ StopJoining(p) \/ StopReleasing(p)

Next ==
  \/ \E p \in Presses : Press(p) \/ TurnEnds(p) \/ TimeOut(p)
  \/ Cancel \/ DrainStep \/ Elsewhere

Spec == Init /\ [][Next]_vars

\* asyncio runs a task that is ready, and a turn's task is answered or raises.
FairSpec ==
  /\ Spec
  /\ WF_vars(DrainStep)
  /\ \A p \in Presses : WF_vars(TurnEnds(p))

(***************************************************************************)
(* Properties.                                                             *)
(***************************************************************************)
\* What waits in the queue is what was announced as queued, in the order of
\* pressing, and everything the drain has started was pressed before it.
InOrder ==
  /\ \A p \in Presses : shown[p] = "queued" <=> \E i \in DOMAIN queue : queue[i] = p
  /\ \A i, j \in DOMAIN queue : i < j => queue[i] < queue[j]
  /\ \A p, q \in Presses :
       shown[p] = "queued" /\ shown[q] \in {"running", "done", "failed"} => q < p

\* One dispatch is running while the drain is at work, and none otherwise.
OneAtATime ==
  /\ task \in AtWork <=> \E p \in Presses : Running(p)
  /\ \A p, q \in Presses : Running(p) /\ Running(q) => p = q

\* The drain of a marked project lives, or was never begun; an unmarked
\* project has none, and a cancellation only ever meets a drain that lives.
MarkFollowsTask ==
  /\ task \in Alive => draining
  /\ stop => task \in Alive
  /\ \A p \in Presses : turn[p] # "none" => shown[p] \notin {"new", "queued"}

\* The inductive invariant: what the queue, the frames, the mark and the task
\* say of each other (DispatchQueue.start, cancel and _drain).
QueueInv == TypeOK /\ InOrder /\ OneAtATime /\ MarkFollowsTask

\* A dispatch that is over holds the project no longer, unless its release
\* raised or a cancellation reached the release itself or the save that
\* joined: every other exit of dispatch, through any of its awaits, passes
\* through a release that is complete.
HeldOnlyByTheLiving ==
  \A p \in Presses : holder = p /\ p \notin cut => Running(p) /\ task \notin Joining

\* A press that waits behind a drain no cancellation has reached is served or
\* dropped by a later cancel: the drain goes on after any failure, and one
\* that is about to leave does not leave it behind.
Attended(p) ==
  shown[p] = "queued" /\ task \in Alive /\ ~stop
    /\ (task \in Releasing => ending # "cancelled")

AttendedPressIsServed ==
  \A p \in Presses : Attended(p) ~> shown[p] \in Ended

=============================================================================
