---------------------------- MODULE AuthoringRun ----------------------------
(***************************************************************************)
(* The course-authoring runs of one project.                               *)
(*                                                                         *)
(* A run has a stream of its own (started, one outcome for each target,    *)
(* checkpoint evaluations, settled) and a driver, a background task that   *)
(* authors one target after another.  Each target is a task of the         *)
(* driver's: it joins the project, runs a turn for each phase, looks at    *)
(* the files, gives a phase that failed its checkpoint one more turn, and  *)
(* releases the project.  Everything else is AuthoringActivity's memory,   *)
(* one slot for the project, which start fills after an await and which a  *)
(* restart empties.                                                        *)
(*                                                                         *)
(* The last target of a run over the whole path is the path itself: its    *)
(* task writes the overview in one turn, and nothing looks at the file.    *)
(*                                                                         *)
(* Abstractions.  The targets of a run are numbered.  Only a run's own     *)
(* driver writes its stream, so the load and the save of _record are one   *)
(* step, which may raise.  That another session holds the project is one   *)
(* of the reasons why a join raises.                                       *)
(***************************************************************************)
EXTENDS Integers, Sequences

CONSTANTS
  NRuns,      \* bound: runs asked for
  Paths,      \* runs asked to author the whole path
  NAreas,     \* areas on the path; the other runs author one
  NPhases,    \* phases of an area
  MaxCrashes, \* bound: restarts of the process
  None        \* no run

Runs == 1..NRuns
Areas == 1..NAreas
Overview == NAreas + 1  \* the path's own slug
Targets == Areas \union {Overview}
Phases == 1..NPhases

ASSUME SizesAssumption ==
  NRuns \in Nat /\ NAreas \in Nat \ {0} /\ NPhases \in Nat \ {0} /\ MaxCrashes \in Nat
ASSUME AuthoringNames == Paths \subseteq Runs /\ None \notin Runs

LastTarget(r) == IF r \in Paths THEN Overview ELSE 1

TargetsOf(r) == 1..LastTarget(r)

VARIABLES
  log,       \* log[r]: the fold of run r's stream, CourseAuthoringRunState
  pc,        \* pc[r]: the await start, then _drive, is at
  target,    \* target[r]: the target in hand
  stopped,   \* stopped[r]: _drive's local of that name
  work,      \* work[r]: the await the task of the target in hand is at
  phase, again,  \* its phase, and whether this is the second attempt
  notes,     \* its evaluations
  hurry,     \* hurry[r]: a cancellation of that task is on its way
  finish,    \* how that task ends
  frame,     \* _running[project]: the run whose frame it is, or None
  tasks,     \* _tasks[project]: the run whose driver it is, or None
  inflight,  \* _inflight[project]: the run whose target's task it is, or None
  mark,      \* whether the project is in _cancelled
  asked,     \* history: runs that cancel was answered for
  shared,    \* history: runs whose driver was not alone
  broken,    \* history: runs of which an append or the process failed
  crashes

stream == <<log>>
driver == <<pc, target, stopped>>
inner == <<work, phase, again, notes, hurry, finish>>
memory == <<frame, tasks, inflight, mark>>
history == <<asked, shared, broken, crashes>>
authoringVars == <<stream, driver, inner, memory, history>>

(***************************************************************************)
(* Types.                                                                  *)
(***************************************************************************)
MaxNotes == 2 * NPhases  \* two attempts at each phase

SettledStatus == {"done", "failed", "cancelled"}

Run ==
  [status : {"new", "running"} \union SettledStatus,
   outcome : [Targets -> {"none", "authored", "failed"}],
   checks : [Targets -> 0..MaxNotes]]

Driving == {"fresh", "working", "recording", "noting", "settling"}

AuthoringTypes ==
  /\ log \in [Runs -> Run]
  /\ pc \in [Runs -> {"new", "starting", "over", "dead"} \union Driving]
  /\ target \in [Runs -> Targets]
  /\ stopped \in [Runs -> BOOLEAN]
  /\ work \in [Runs -> {"none", "joining", "turn", "files", "releasing", "over"}]
  /\ phase \in [Runs -> Phases]
  /\ again \in [Runs -> BOOLEAN]
  /\ notes \in [Runs -> 0..MaxNotes]
  /\ hurry \in [Runs -> BOOLEAN]
  /\ finish \in [Runs -> {"ok", "refused", "raised", "cancelled"}]
  /\ frame \in Runs \union {None} /\ tasks \in Runs \union {None}
  /\ inflight \in Runs \union {None}
  /\ mark \in BOOLEAN
  /\ asked \subseteq Runs /\ shared \subseteq Runs /\ broken \subseteq Runs
  /\ crashes \in 0..MaxCrashes

AuthoringInit ==
  /\ log = [r \in Runs |->
       [status |-> "new", outcome |-> [t \in Targets |-> "none"],
        checks |-> [t \in Targets |-> 0]]]
  /\ pc = [r \in Runs |-> "new"]
  /\ target = [r \in Runs |-> 1]
  /\ stopped = [r \in Runs |-> FALSE]
  /\ work = [r \in Runs |-> "none"]
  /\ phase = [r \in Runs |-> 1]
  /\ again = [r \in Runs |-> FALSE]
  /\ notes = [r \in Runs |-> 0]
  /\ hurry = [r \in Runs |-> FALSE]
  /\ finish = [r \in Runs |-> "ok"]
  /\ frame = None /\ tasks = None /\ inflight = None /\ mark = FALSE
  /\ asked = {} /\ shared = {} /\ broken = {} /\ crashes = 0

(***************************************************************************)
(* Starting and stopping a run.                                            *)
(***************************************************************************)
Driven(r) == pc[r] \in Driving

\* AuthoringActivity.active: the run in the slot, while its task is not done.
Active == tasks # None /\ Driven(tasks) /\ frame # None

\* start refuses while a run is active, and awaits the save of the new run.
Start(r) ==
  /\ pc[r] = "new" /\ \A q \in 1..(r - 1) : pc[q] # "new"
  /\ ~Active
  /\ pc' = [pc EXCEPT ![r] = "starting"]
  /\ UNCHANGED <<stream, target, stopped, inner, memory, history>>

\* The save raises: there is no run.
FailStart(r) ==
  /\ pc[r] = "starting"
  /\ pc' = [pc EXCEPT ![r] = "dead"]
  /\ UNCHANGED <<stream, target, stopped, inner, memory, history>>

\* The rest of start, after the save: the slot is taken, whoever has it.
Register(r) ==
  /\ pc[r] = "starting"
  /\ log' = [log EXCEPT ![r].status = "running"]
  /\ pc' = [pc EXCEPT ![r] = "fresh"]
  /\ frame' = r /\ tasks' = r /\ mark' = FALSE
  /\ shared' = IF \E q \in Runs : Driven(q)
                 THEN shared \union {r} \union {q \in Runs : Driven(q)} ELSE shared
  /\ UNCHANGED <<target, stopped, inner, inflight, asked, broken, crashes>>

\* A mutant of CancelRun: the slot is emptied at once.
CancelClearing ==
  /\ Active
  /\ mark' = TRUE /\ frame' = None
  /\ asked' = asked \union {tasks}
  /\ UNCHANGED <<stream, driver, inner, tasks, inflight, shared, broken, crashes>>

\* cancel marks the project and stops the target in hand; the driver, which
\* must still record and settle, is left alone.
CancelRun ==
  /\ Active
  /\ mark' = TRUE
  /\ hurry' = IF inflight # None /\ work[inflight] # "over"
                THEN [hurry EXCEPT ![inflight] = TRUE] ELSE hurry
  /\ asked' = asked \union {tasks}
  /\ UNCHANGED <<stream, driver, work, phase, again, notes, finish,
                 frame, tasks, inflight, shared, broken, crashes>>

(***************************************************************************)
(* The driver.                                                             *)
(***************************************************************************)
\* The finally of the target before t, when there is one.
Popped(t) == IF t = 1 THEN inflight ELSE None

\* A mutant of NextTarget: the mark of cancel is not looked at.
NextTargetBlindly(r, t) ==
  \/ /\ t > LastTarget(r)
     /\ pc' = [pc EXCEPT ![r] = "settling"]
     /\ inflight' = Popped(t)
     /\ UNCHANGED <<target, stopped, work, phase, again, notes, hurry, broken>>
  \/ /\ t <= LastTarget(r)
     /\ pc' = [pc EXCEPT ![r] = "working"]
     /\ target' = [target EXCEPT ![r] = t]
     /\ work' = [work EXCEPT ![r] = "joining"] /\ inflight' = r
     /\ phase' = [phase EXCEPT ![r] = 1] /\ again' = [again EXCEPT ![r] = FALSE]
     /\ notes' = [notes EXCEPT ![r] = 0] /\ hurry' = [hurry EXCEPT ![r] = FALSE]
     /\ UNCHANGED <<stopped, broken>>

\* The top of the loop of _drive, for the target t or the end of the list.
NextTarget(r, t) ==
  \/ /\ t > LastTarget(r)
     /\ pc' = [pc EXCEPT ![r] = "settling"]
     /\ inflight' = Popped(t)
     /\ UNCHANGED <<target, stopped, work, phase, again, notes, hurry, broken>>
  \/ /\ t <= LastTarget(r) /\ mark
     /\ pc' = [pc EXCEPT ![r] = "settling"]
     /\ stopped' = [stopped EXCEPT ![r] = TRUE]
     /\ inflight' = Popped(t)
     /\ UNCHANGED <<target, work, phase, again, notes, hurry, broken>>
  \/ /\ t <= LastTarget(r) /\ ~mark /\ frame # None
     /\ pc' = [pc EXCEPT ![r] = "working"]
     /\ target' = [target EXCEPT ![r] = t]
     /\ work' = [work EXCEPT ![r] = "joining"] /\ inflight' = r
     /\ phase' = [phase EXCEPT ![r] = 1] /\ again' = [again EXCEPT ![r] = FALSE]
     /\ notes' = [notes EXCEPT ![r] = 0] /\ hurry' = [hurry EXCEPT ![r] = FALSE]
     /\ UNCHANGED <<stopped, broken>>
  \/ /\ t <= LastTarget(r) /\ ~mark /\ frame = None   \* _running[project_id]: KeyError
     /\ pc' = [pc EXCEPT ![r] = "dead"]
     /\ inflight' = Popped(t)
     /\ UNCHANGED <<target, stopped, work, phase, again, notes, hurry, broken>>

BeginRun(r) ==
  /\ pc[r] = "fresh"
  /\ NextTarget(r, 1)
  /\ UNCHANGED <<stream, finish, frame, tasks, mark, asked, shared, crashes>>

\* A mutant of Return: the cancellation leaves the driver as well.
ReturnUnsettled(r) ==
  /\ pc[r] = "working" /\ work[r] = "over"
  /\ pc' = [pc EXCEPT ![r] = IF finish[r] = "cancelled" THEN "dead" ELSE "recording"]
  /\ UNCHANGED <<stream, target, stopped, inner, memory, history>>

\* The await of the target's task is over.  A task that was cancelled stops
\* the run; any other exception is an outcome.
Return(r) ==
  /\ pc[r] = "working" /\ work[r] = "over"
  /\ IF finish[r] = "cancelled"
       THEN /\ pc' = [pc EXCEPT ![r] = "settling"]
            /\ stopped' = [stopped EXCEPT ![r] = TRUE]
            /\ inflight' = None
            /\ notes' = [notes EXCEPT ![r] = 0]
       ELSE pc' = [pc EXCEPT ![r] = "recording"] /\ UNCHANGED <<stopped, inflight, notes>>
  /\ UNCHANGED <<stream, target, work, phase, again, hurry, finish, frame, tasks, mark,
                 history>>

\* Only a checkpoint's refusal and a finished course carry their evaluations.
Carried(r) == IF finish[r] = "raised" THEN 0 ELSE notes[r]

RecordOutcome(r) ==
  /\ pc[r] = "recording"
  /\ log' = [log EXCEPT ![r].outcome[target[r]] =
               IF finish[r] = "ok" THEN "authored" ELSE "failed"]
  /\ notes' = [notes EXCEPT ![r] = Carried(r)]
  /\ pc' = [pc EXCEPT ![r] = "noting"]
  /\ work' = [work EXCEPT ![r] = "none"] /\ finish' = [finish EXCEPT ![r] = "ok"]
  /\ phase' = [phase EXCEPT ![r] = 1] /\ again' = [again EXCEPT ![r] = FALSE]
  /\ UNCHANGED <<target, stopped, hurry, memory, history>>

\* One evaluation is one append; after the last of them comes the next target.
RecordCheckpoint(r) ==
  /\ pc[r] = "noting" /\ notes[r] > 0
  /\ log' = [log EXCEPT ![r].checks[target[r]] = @ + 1]
  /\ notes' = [notes EXCEPT ![r] = @ - 1]
  /\ UNCHANGED <<driver, work, phase, again, hurry, finish, memory, history>>

NextAfter(r) ==
  /\ pc[r] = "noting" /\ notes[r] = 0
  /\ NextTarget(r, target[r] + 1)
  /\ UNCHANGED <<stream, finish, frame, tasks, mark, asked, shared, crashes>>

With(r, what) == \E t \in Targets : log[r].outcome[t] = what

\* A mutant of Status: failures are not counted.
StatusUncounted(r) == IF stopped[r] THEN "cancelled" ELSE "done"

Status(r) ==
  IF stopped[r] THEN "cancelled"
  ELSE IF With(r, "failed") /\ ~With(r, "authored") THEN "failed" ELSE "done"

\* The settle is appended, and the project's slot emptied, whoever has it.
Settle(r) ==
  /\ pc[r] = "settling"
  /\ log' = [log EXCEPT ![r].status = Status(r)]
  /\ pc' = [pc EXCEPT ![r] = "over"]
  /\ frame' = None /\ mark' = FALSE
  /\ UNCHANGED <<target, stopped, inner, tasks, inflight, history>>

\* An append that raises leaves _drive with its exception, and nothing else.
FailAppend(r) ==
  /\ pc[r] \in {"recording", "noting", "settling"}
  /\ pc[r] = "noting" => notes[r] > 0
  /\ pc' = [pc EXCEPT ![r] = "dead"]
  /\ inflight' = IF pc[r] = "settling" THEN inflight ELSE None
  /\ broken' = broken \union {r}
  /\ UNCHANGED <<stream, target, stopped, inner, frame, tasks, mark, asked, shared, crashes>>

(***************************************************************************)
(* The task of one target: CourseAuthor.author_area, and author_path,        *)
(* which is over with its one turn.                                        *)
(***************************************************************************)
Working(r, place) == work[r] = place /\ ~hurry[r]

LeaveTarget(r, how) ==
  /\ work' = [work EXCEPT ![r] = "releasing"]
  /\ finish' = [finish EXCEPT ![r] = how]

untouched == <<stream, driver, memory, history>>

Join(r) ==
  /\ Working(r, "joining")
  /\ work' = [work EXCEPT ![r] = "turn"]
  /\ UNCHANGED <<untouched, phase, again, notes, hurry, finish>>

FailJoin(r) ==
  /\ Working(r, "joining")
  /\ work' = [work EXCEPT ![r] = "over"]
  /\ finish' = [finish EXCEPT ![r] = "raised"]
  /\ UNCHANGED <<untouched, phase, again, notes, hurry>>

PhaseTurnEnds(r) ==
  /\ Working(r, "turn") /\ target[r] \in Areas
  /\ work' = [work EXCEPT ![r] = "files"]
  /\ UNCHANGED <<untouched, phase, again, notes, hurry, finish>>

OverviewTurnEnds(r) ==
  /\ Working(r, "turn") /\ target[r] = Overview
  /\ LeaveTarget(r, "ok")
  /\ UNCHANGED <<untouched, phase, again, notes, hurry>>

\* A turn that times out, or a load of the files that fails.
Raise(r) ==
  /\ ~hurry[r] /\ work[r] \in {"turn", "files"}
  /\ LeaveTarget(r, "raised")
  /\ UNCHANGED <<untouched, phase, again, notes, hurry>>

Note(r) == notes' = [notes EXCEPT ![r] = @ + 1]

Pass(r) ==
  /\ Working(r, "files")
  /\ Note(r)
  /\ IF phase[r] = NPhases
       THEN LeaveTarget(r, "ok") /\ UNCHANGED <<phase, again>>
       ELSE /\ work' = [work EXCEPT ![r] = "turn"]
            /\ phase' = [phase EXCEPT ![r] = @ + 1]
            /\ again' = [again EXCEPT ![r] = FALSE]
            /\ UNCHANGED finish
  /\ UNCHANGED <<untouched, hurry>>

\* The checkpoint refuses: once more in the same session, and then no more.
Refuse(r) ==
  /\ Working(r, "files")
  /\ Note(r)
  /\ IF again[r]
       THEN LeaveTarget(r, "refused") /\ UNCHANGED again
       ELSE /\ work' = [work EXCEPT ![r] = "turn"]
            /\ again' = [again EXCEPT ![r] = TRUE]
            /\ UNCHANGED finish
  /\ UNCHANGED <<untouched, phase, hurry>>

\* The finally; a release that raises hides how the rest ended.
Release(r) ==
  /\ Working(r, "releasing")
  /\ work' = [work EXCEPT ![r] = "over"]
  /\ finish' \in {finish, [finish EXCEPT ![r] = "raised"]}
  /\ UNCHANGED <<untouched, phase, again, notes, hurry>>

\* The cancellation is delivered.  A turn that is unwinding from its time-out
\* suppresses it.
Interrupt(r) ==
  /\ hurry[r] /\ work[r] # "over"
  /\ hurry' = [hurry EXCEPT ![r] = FALSE]
  /\ \/ /\ work[r] \in {"joining", "releasing"}
        /\ work' = [work EXCEPT ![r] = "over"]
        /\ finish' = [finish EXCEPT ![r] = "cancelled"]
     \/ work[r] \in {"turn", "files"} /\ LeaveTarget(r, "cancelled")
     \/ work[r] = "turn" /\ LeaveTarget(r, "raised")
  /\ UNCHANGED <<untouched, phase, again, notes>>

(***************************************************************************)
(* The process dies and is started again: memory is gone, streams stay.    *)
(***************************************************************************)
Crash ==
  /\ crashes < MaxCrashes
  /\ crashes' = crashes + 1
  /\ pc' = [r \in Runs |-> IF Driven(r) \/ pc[r] = "starting" THEN "dead" ELSE pc[r]]
  /\ work' = [r \in Runs |-> "none"] /\ notes' = [r \in Runs |-> 0]
  /\ hurry' = [r \in Runs |-> FALSE]
  /\ \E saved \in SUBSET {r \in Runs : pc[r] = "starting"} :
       /\ log' = [r \in Runs |->
                   IF r \in saved THEN [log[r] EXCEPT !.status = "running"] ELSE log[r]]
       /\ broken' = broken \union saved \union {r \in Runs : Driven(r)}
  /\ frame' = None /\ tasks' = None /\ inflight' = None /\ mark' = FALSE
  /\ UNCHANGED <<target, stopped, phase, again, finish, asked, shared>>

Drive(r) ==
  \/ BeginRun(r) \/ Return(r) \/ RecordOutcome(r) \/ RecordCheckpoint(r) \/ NextAfter(r)
  \/ Settle(r) \/ FailAppend(r)

Author(r) ==
  \/ Join(r) \/ FailJoin(r) \/ PhaseTurnEnds(r) \/ OverviewTurnEnds(r) \/ Raise(r)
  \/ Pass(r) \/ Refuse(r) \/ Release(r) \/ Interrupt(r)

AuthoringNext ==
  \/ \E r \in Runs : Start(r) \/ FailStart(r) \/ Register(r) \/ Drive(r) \/ Author(r)
  \/ CancelRun \/ Crash

AuthoringSpec == AuthoringInit /\ [][AuthoringNext]_authoringVars

\* Both tasks of a run are resumed, and what they await answers or raises.
FairAuthoring ==
  AuthoringSpec /\ \A r \in Runs : WF_authoringVars(Drive(r)) /\ WF_authoringVars(Author(r))

(***************************************************************************)
(* Properties.                                                             *)
(***************************************************************************)
\* What a settled run says of itself is what its stream says: "done" only
\* when every target has an outcome and one of them a course, "failed" only
\* when every target failed, "cancelled" only of a run someone stopped, and
\* the course of every area has an evaluation of each of its phases; the path's
\* overview has none, and alone it is enough for "done" (_drive, author_path).
StatusIsEarned ==
  \A r \in Runs :
    LET told == log[r] IN
    /\ told.status \in {"done", "failed"} => \A t \in TargetsOf(r) : told.outcome[t] # "none"
    /\ told.status = "done" => With(r, "authored")
    /\ told.status = "failed" => ~With(r, "authored")
    /\ told.status = "cancelled" /\ r \notin shared => r \in asked
    /\ told.status \in SettledStatus =>
         \A t \in Areas : told.outcome[t] = "authored" => told.checks[t] >= NPhases
    /\ told.checks[Overview] = 0

\* What the driver, its target and the slot say of each other: outcomes come
\* in the order of the targets, an open stream has not settled, and the slot
\* of a run that was alone is its own.
AuthoringInv ==
  /\ AuthoringTypes
  /\ \A r \in Runs :
       /\ Driven(r) => log[r].status = "running"
       /\ \A t \in Targets :
            log[r].outcome[t] # "none" => \A u \in 1..t : log[r].outcome[u] # "none"
       /\ pc[r] \in {"working", "recording"} =>
            \A t \in Targets : log[r].outcome[t] # "none" <=> t < target[r]
       /\ Driven(r) /\ r \notin shared => tasks = r /\ frame = r
       /\ pc[r] = "working" /\ r \notin shared => inflight = r

\* A run that was told to stop begins no further target, whatever its driver
\* was doing when it was told (cancel, and the check at the top of the loop).
CancelIsObeyed ==
  [][\A r \in asked \ shared :
       work[r] # "joining" => work'[r] # "joining"]_authoringVars

\* A run that was started settles, unless the process or an append failed or
\* a second driver shared its slot: no failure of a target, no refusal of a
\* checkpoint and no cancellation leaves it running on the log.
RunsSettle ==
  \A r \in Runs :
    log[r].status = "running" ~> log[r].status \in SettledStatus \/ r \in broken \union shared

=============================================================================
