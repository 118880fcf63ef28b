-------------------------- MODULE ProjectionRunner --------------------------
(***************************************************************************)
(* A table that follows the log, and its rebuild.                          *)
(*                                                                         *)
(* A subscription applies one event after another to the rows and writes   *)
(* its checkpoint after each; an event that no retry gets through is filed *)
(* and passed over.  A rebuild stops the subscription, resolves what was   *)
(* filed one by one, empties the table, drops the checkpoint and starts a  *)
(* new subscription over a new connection: each of these an await, that    *)
(* may raise (a locked database), and after which the fields of the runner *)
(* may be another rebuild's.                                               *)
(*                                                                         *)
(* The rows are those of the session list: a count of failed turns beside  *)
(* a column that is only ever overwritten.                                 *)
(***************************************************************************)
EXTENDS Integers, FiniteSets, Sequences, SequencesExt

CONSTANTS
  Sessions,    \* sessions of the log
  Rebuilders,  \* requests that rebuild the table
  Followers,   \* names for the connections and subscriptions that starts make
  Nothing,     \* no row, no follower, nobody
  MaxEvents,   \* bound: length of the log
  MaxLapses,   \* bound: events whose handler fails for good
  MaxRebuilds, \* bound: rebuilds begun
  MaxFaults    \* bound: restarts of the process and rebuilds that raise

ASSUME NamesAssumption ==
  /\ Nothing \notin Followers \union [turns : Nat, failed : Nat]
  /\ "boot" \notin Rebuilders
ASSUME BoundsAssumption ==
  MaxEvents \in Nat /\ MaxLapses \in Nat /\ MaxRebuilds \in Nat /\ MaxFaults \in Nat

VARIABLES
  events,         \* the events of the sessions, in the order of the store
  table,       \* table[s]: the row of a session
  checkpoint,  \* the position in the log that is known to be applied
  filed,       \* positions of the events filed as failed and not resolved
  runner,      \* the fields of the runner: its manager and its open store
  follower,    \* follower[f]: a subscription, its position and its connection
  at,          \* at[r]: where a rebuild is; "boot" is the start of the process
  left,        \* left[r]: the failures a rebuild has listed and not resolved yet
  dirty,       \* sessions whose row may be wrong with no failure filed to say so
  broken,      \* a rebuild has raised, and none has gone through since
  lapses, rebuilds, faults

storeVars == <<table, checkpoint, filed>>
boundVars == <<lapses, rebuilds, faults>>
runnerVars == <<events, storeVars, runner, follower, at, left, dirty, broken, boundVars>>

Starters == Rebuilders \union {"boot"}

Places == {"idle", "listing", "resolving", "resetting", "closing",
           "checking", "opening", "following"}

Event == [of : Sessions, kind : {"started", "turn", "failure"}]

Fresh == [running |-> FALSE, open |-> FALSE, applied |-> FALSE, position |-> 0, made |-> FALSE]

RunnerTypes ==
  /\ events \in Seq(Event) /\ Len(events) <= MaxEvents
  /\ table \in [Sessions -> {Nothing} \union [turns : Nat, failed : Nat]]
  /\ checkpoint \in 0..Len(events) /\ filed \subseteq DOMAIN events
  /\ runner \in [manager : Followers \union {Nothing}, store : Followers \union {Nothing}]
  /\ follower \in [Followers -> [running : BOOLEAN, open : BOOLEAN, applied : BOOLEAN,
                                 position : 0..Len(events), made : BOOLEAN]]
  /\ at \in [Starters -> Places]
  /\ left \in [Starters -> SUBSET DOMAIN events]
  /\ dirty \subseteq Sessions /\ broken \in BOOLEAN
  /\ lapses \in 0..MaxLapses /\ rebuilds \in 0..MaxRebuilds /\ faults \in 0..MaxFaults

RunnerInit ==
  /\ events = <<>>
  /\ table = [s \in Sessions |-> Nothing] /\ checkpoint = 0 /\ filed = {}
  /\ runner = [manager |-> Nothing, store |-> Nothing]
  /\ follower = [f \in Followers |-> Fresh]
  /\ at = [r \in Starters |-> IF r = "boot" THEN "checking" ELSE "idle"]
  /\ left = [r \in Starters |-> {}]
  /\ dirty = {} /\ broken = FALSE
  /\ lapses = 0 /\ rebuilds = 0 /\ faults = 0

(***************************************************************************)
(* The rows.                                                               *)
(***************************************************************************)
\* A session starts its row over, counts its failed turns and overwrites the
\* number of the others.
Handle(row, event) ==
  CASE event.kind = "started" -> [turns |-> 0, failed |-> 0]
    [] event.kind = "turn"    -> [row EXCEPT !.turns = 1]
    [] event.kind = "failure" -> [row EXCEPT !.failed = @ + 1]

\* The row of a session as the first n events of a log derive it.
Derived(log, s, n) ==
  LET mine(kind) == {i \in 1..n : log[i] = [of |-> s, kind |-> kind]} IN
  IF mine("started") = {} THEN Nothing
  ELSE [turns  |-> IF mine("turn") = {} THEN 0 ELSE 1,
        failed |-> Cardinality(mine("failure"))]

\* A session starts once and before all else on its stream.
Extend(s, kind) ==
  /\ Len(events) < MaxEvents
  /\ kind = "started" <=> ~\E i \in DOMAIN events : events[i].of = s
  /\ events' = Append(events, [of |-> s, kind |-> kind])
  /\ UNCHANGED <<storeVars, runner, follower, at, left, dirty, broken, boundVars>>

(***************************************************************************)
(* The subscription.                                                       *)
(***************************************************************************)
Running(f) == follower[f].running

Next1(f) == follower[f].position + 1

Due(f) == Running(f) /\ ~follower[f].applied /\ Next1(f) \in DOMAIN events

\* A handler finds its connection and, unless it makes it, its row.
Works(f) ==
  LET event == events[Next1(f)] IN
  follower[f].open /\ (event.kind = "started" \/ table[event.of] # Nothing)

Apply(f) ==
  /\ Due(f) /\ Works(f)
  /\ LET event == events[Next1(f)] IN
       table' = [table EXCEPT ![event.of] = Handle(@, event)]
  /\ follower' = [follower EXCEPT ![f].applied = TRUE]
  /\ UNCHANGED <<events, checkpoint, filed, runner, at, left, dirty, broken, boundVars>>

\* The retries are used up: the event is filed, and passed over.
File(f) ==
  /\ Due(f)
  /\ \/ ~Works(f) /\ UNCHANGED lapses
     \/ Works(f) /\ lapses < MaxLapses /\ lapses' = lapses + 1
  /\ filed' = filed \union {Next1(f)}
  /\ follower' = [follower EXCEPT ![f].applied = TRUE]
  /\ UNCHANGED <<events, table, checkpoint, runner, at, left, dirty, broken, rebuilds, faults>>

Checkpoint(f) ==
  /\ Running(f) /\ follower[f].applied
  /\ checkpoint' = Next1(f)
  /\ follower' = [follower EXCEPT ![f].applied = FALSE, ![f].position = Next1(f)]
  /\ UNCHANGED <<events, table, filed, runner, at, left, dirty, broken, boundVars>>

(***************************************************************************)
(* The rebuild.                                                            *)
(***************************************************************************)
Proceed(r, place) == at' = [at EXCEPT ![r] = place]

\* A mutant of Rebuild: the subscription is left to run.
RebuildRunning(r) ==
  /\ at[r] = "idle" /\ at["boot"] = "idle"
  /\ runner.manager # Nothing /\ runner.store # Nothing
  /\ rebuilds < MaxRebuilds /\ rebuilds' = rebuilds + 1
  /\ Proceed(r, "listing")
  /\ UNCHANGED <<events, storeVars, runner, follower, left, dirty, broken, lapses, faults>>

\* Requests come once the start of the process is over.  The subscription stops
\* between two events; one that another rebuild stopped is stopped already.
Rebuild(r) ==
  /\ at[r] = "idle" /\ at["boot"] = "idle"
  /\ runner.manager # Nothing /\ runner.store # Nothing
  /\ rebuilds < MaxRebuilds /\ rebuilds' = rebuilds + 1
  /\ ~follower[runner.manager].applied
  /\ follower' = [follower EXCEPT ![runner.manager].running = FALSE]
  /\ Proceed(r, "listing")
  /\ UNCHANGED <<events, storeVars, runner, left, dirty, broken, lapses, faults>>

List(r) ==
  /\ at[r] = "listing"
  /\ left' = [left EXCEPT ![r] = filed]
  /\ Proceed(r, "resolving")
  /\ UNCHANGED <<events, storeVars, runner, follower, dirty, broken, boundVars>>

\* What a failure said of its session is gone, and the row is what it was.
Resolve(r) ==
  /\ at[r] = "resolving"
  /\ \E i \in left[r] :
       /\ left' = [left EXCEPT ![r] = left[r] \ {i}]
       /\ filed' = filed \ {i}
       /\ dirty' = dirty \union {events[i].of}
  /\ UNCHANGED <<events, table, checkpoint, runner, follower, at, broken, boundVars>>

\* Without a store there is nothing to empty.
Truncate(r) ==
  /\ at[r] = "resolving" /\ left[r] = {}
  /\ \/ runner.store = Nothing /\ UNCHANGED <<table, dirty>>
     \/ runner.store # Nothing /\ table' = [s \in Sessions |-> Nothing] /\ dirty' = Sessions
  /\ Proceed(r, "resetting")
  /\ UNCHANGED <<events, checkpoint, filed, runner, follower, left, broken, boundVars>>

\* A mutant of Reset: the rows go, and the checkpoint stays.
ResetNothing(r) ==
  /\ at[r] = "resetting"
  /\ runner' = [runner EXCEPT !.manager = Nothing]
  /\ dirty' = {}
  /\ Proceed(r, "closing")
  /\ UNCHANGED <<events, storeVars, follower, left, broken, boundVars>>

\* A mutant of Reset: the runner still has its manager when it starts again.
ResetOnly(r) ==
  /\ at[r] = "resetting"
  /\ checkpoint' = 0 /\ dirty' = {}
  /\ Proceed(r, "closing")
  /\ UNCHANGED <<events, table, filed, runner, follower, left, broken, boundVars>>

\* From here on the rows are those of a new table.
Reset(r) ==
  /\ at[r] = "resetting"
  /\ checkpoint' = 0
  /\ runner' = [runner EXCEPT !.manager = Nothing]
  /\ dirty' = {}
  /\ Proceed(r, "closing")
  /\ UNCHANGED <<events, table, filed, follower, left, broken, boundVars>>

Close(r) ==
  /\ at[r] = "closing"
  /\ follower' = [f \in Followers |->
       IF f = runner.store THEN [follower[f] EXCEPT !.open = FALSE] ELSE follower[f]]
  /\ runner' = [runner EXCEPT !.store = Nothing]
  /\ Proceed(r, "checking")
  /\ UNCHANGED <<events, storeVars, left, dirty, broken, boundVars>>

(***************************************************************************)
(* The start, of a rebuild and of the process.                             *)
(***************************************************************************)
Check(r) ==
  /\ at[r] = "checking"
  /\ Proceed(r, IF runner.manager = Nothing THEN "opening" ELSE "idle")
  /\ UNCHANGED <<events, storeVars, runner, follower, left, dirty, broken, boundVars>>

\* The table is opened, and the fields are the new ones: whoever comes second
\* puts its own over them.
Open(r) ==
  /\ at[r] = "opening"
  /\ \E f \in Followers :
       /\ ~follower[f].made
       /\ follower' = [follower EXCEPT ![f] = [Fresh EXCEPT !.made = TRUE, !.open = TRUE]]
       /\ runner' = [manager |-> f, store |-> f]
  /\ Proceed(r, "following")
  /\ UNCHANGED <<events, storeVars, left, dirty, broken, boundVars>>

\* The manager of the runner, whosever it is by now, follows from the checkpoint.
Follow(r) ==
  /\ at[r] = "following"
  /\ follower' = [f \in Followers |->
       IF f = runner.manager /\ ~Running(f)
         THEN [follower[f] EXCEPT !.running = TRUE, !.position = checkpoint] ELSE follower[f]]
  /\ broken' = FALSE
  /\ Proceed(r, "idle")
  /\ UNCHANGED <<events, storeVars, runner, left, dirty, boundVars>>

(***************************************************************************)
(* What goes wrong.                                                        *)
(***************************************************************************)
\* Any await of a rebuild, those of its start included, may raise: the request ends
\* and what is done stays done, the subscription stopped.  (The start of the
\* process that raises ends the process: a crash.)
Raise(r) ==
  /\ at[r] # "idle"
  /\ faults < MaxFaults /\ faults' = faults + 1
  /\ left' = [left EXCEPT ![r] = {}]
  /\ broken' = TRUE
  /\ Proceed(r, "idle")
  /\ UNCHANGED <<events, storeVars, runner, follower, dirty, lapses, rebuilds>>

\* What a crash makes of an event that was applied and not checkpointed: it is
\* applied again, and only a count shows it.
Recounted ==
  {s \in Sessions : \E f \in Followers :
     /\ Running(f) /\ follower[f].applied /\ Next1(f) \notin filed
     /\ events[Next1(f)].of = s /\ events[Next1(f)].kind = "failure"}

Crash ==
  /\ faults < MaxFaults /\ faults' = faults + 1
  /\ dirty' = dirty \union Recounted
  /\ runner' = [manager |-> Nothing, store |-> Nothing]
  /\ follower' = [f \in Followers |-> Fresh]
  /\ at' = [r \in Starters |-> IF r = "boot" THEN "checking" ELSE "idle"]
  /\ left' = [r \in Starters |-> {}]
  /\ broken' = FALSE
  /\ UNCHANGED <<events, storeVars, lapses, rebuilds>>

(***************************************************************************)
(* The specification.                                                      *)
(***************************************************************************)
Serve(f) == Apply(f) \/ File(f) \/ Checkpoint(f)

Work(r) ==
  \/ List(r) \/ Resolve(r) \/ Truncate(r) \/ Reset(r) \/ Close(r)
  \/ Check(r) \/ Open(r) \/ Follow(r)

RunnerNext ==
  \/ \E s \in Sessions, kind \in {"started", "turn", "failure"} : Extend(s, kind)
  \/ \E f \in Followers : Serve(f)
  \/ \E r \in Starters : Work(r)
  \/ \E r \in Rebuilders : Rebuild(r) \/ Raise(r)
  \/ Crash

RunnerSpec == RunnerInit /\ [][RunnerNext]_runnerVars

\* Tasks that may run do.
Fairness ==
  /\ \A f \in Followers : WF_runnerVars(Serve(f))
  /\ \A r \in Starters : WF_runnerVars(Work(r))

FairRunner == RunnerSpec /\ Fairness

(***************************************************************************)
(* Properties.                                                             *)
(***************************************************************************)
\* One subscription follows at a time, over the open table of the runner and
\* from its checkpoint; and none while a rebuild holds the table.
OneFollows ==
  \A f \in Followers : Running(f) =>
    /\ runner.manager = f /\ runner.store = f /\ follower[f].open
    /\ follower[f].position = checkpoint
    /\ \A r \in Rebuilders : at[r] = "idle"

RunnerInv == RunnerTypes /\ OneFollows

\* A row that is not what the log derives up to the checkpoint, or up to the
\* event that is being applied, has a failure filed on its session, so that whoever
\* reads the health of the table is told (store_base.py:334,
\* session_read_models.py:122).  Not told of are the rows of "dirty", and no others:
\* what a crash makes the replay count twice, and what a rebuild has resolved or
\* emptied and, raising or crashing, has not dropped the checkpoint of.  A later
\* rebuild that does drop it leaves none of them (see README).
DriftIsFiled ==
  \A s \in Sessions \ dirty :
    \/ \E n \in {checkpoint, checkpoint + 1} : n <= Len(events) /\ table[s] = Derived(events, s, n)
    \/ \E i \in filed : events[i].of = s

\* The table catches up with the log, whatever is filed, rebuilt or restarted on the
\* way (store_base.py:289); but a rebuild that raises leaves the subscription stopped
\* until another goes through or the process is restarted.
LogIsFollowed == []<>(broken \/ checkpoint = Len(events))

\* No two rebuilds overlap, which nothing in the code sees to: what the others
\* of these properties need of whoever asks for rebuilds.
RebuildsApart ==
  \A q, r \in Rebuilders : at[q] # "idle" /\ at[r] # "idle" => q = r

\* Whenever no rebuild is under way the table is what the log derives, since
\* nothing fails and nobody crashes: what the routes say of a rebuild, "Safe to
\* call at any time ... the worst case is wasted work" (system.py:51-53).
RebuildIsSafe ==
  (\A r \in Starters : at[r] = "idle") /\ (\A f \in Followers : ~follower[f].applied) =>
    \A s \in Sessions : table[s] = Derived(events, s, checkpoint)
=============================================================================
