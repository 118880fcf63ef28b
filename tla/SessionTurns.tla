---------------------------- MODULE SessionTurns ----------------------------
(***************************************************************************)
(* One session and the turns that race for it.                             *)
(*                                                                         *)
(* A turn loads the session, asks the model (which may take minutes),      *)
(* and appends everything it produced in one save.  The supervisor of the  *)
(* web process runs each turn as a task of its own, wants one at a time,   *)
(* and can cancel it or time it out; another process (the REPL, a second   *)
(* worker) runs turns of the same session with no supervisor in common.    *)
(* Every await is a point where anything else may run.  What protects the  *)
(* log is the version check of a save, and refuse_unrebasable, which lets  *)
(* a turn that lost its save try again only over autonomy changes.         *)
(*                                                                         *)
(* Abstractions.  A save is one log entry, and a version is a length of    *)
(* the log.  What a turn says is left out: an entry is whose it is and     *)
(* which log it answered.  A save commits, or is refused, at one instant   *)
(* between two awaits; a cancel that lands after that instant finds the    *)
(* events written.                                                         *)
(***************************************************************************)
EXTENDS Integers, Sequences

CONSTANTS
  Turns,        \* the turns asked of this session, here or in another process
  NoTurn,       \* Python's None where a turn may stand
  Cancellers,   \* concurrent callers of TurnSupervisor.cancel
  MaxAttempts,  \* with_retry's MAX_ATTEMPTS
  Beside,       \* kinds of entries other writers append beside the turns
  MaxBeside     \* bound: how many of them

ASSUME TurnsAssumption == NoTurn \notin Turns
ASSUME AttemptsAssumption == MaxAttempts \in Nat \ {0} /\ MaxBeside \in Nat
ASSUME BesideAssumption == Beside \subseteq {"autonomy", "file"}

VARIABLES
  log,        \* the session's stream, one entry per save
  pc,         \* pc[t]: the await the coroutine of run_turn is at
  base,       \* base[t]: the version the turn was loaded at
  seen,       \* seen[t]: the version its next save expects
  tries,      \* tries[t]: saves it has lost
  stop,       \* stop[t]: a cancellation was delivered to it
  bare,       \* bare[t]: it awaits its failure marker unshielded
  call,       \* call[t]: where TurnSupervisor.run is, then what it answered
  running,    \* the task registered for the session
  target,     \* target[k]: the task canceller k waits for
  settled     \* turns a canceller that waited to the end was told are settled

vars == <<log, pc, base, seen, tries, stop, bare, call, running, target, settled>>

locals == <<base, seen, tries, stop, bare>>
supervisor == <<call, running, target, settled>>

(***************************************************************************)
(* Types.                                                                  *)
(***************************************************************************)
TurnOrNone == Turns \union {NoTurn}

Entry ==
  [kind : {"turn", "failed", "autonomy", "file"}, turn : TurnOrNone, base : Nat]

Marking == {"failLoading", "failSaving", "failSaved"}

Ended == {"returned", "conflicted", "failed", "cancelled"}

Phase ==
  {"new", "loading", "preparing", "executing", "unwinding", "saving", "saved",
   "rechecking", "reloading"} \union Marking \union Ended

\* What run answered; a turn of another process has no call here at all.
Answer ==
  {"committed", "refused", "failed", "stopped", "timedOut", "gone", "elsewhere"}

TypeOK ==
  /\ log \in Seq(Entry)
  /\ pc \in [Turns -> Phase]
  /\ base \in [Turns -> Nat]
  /\ seen \in [Turns -> Nat]
  /\ tries \in [Turns -> 0..MaxAttempts]
  /\ stop \in [Turns -> BOOLEAN]
  /\ bare \in [Turns -> BOOLEAN]
  /\ call \in [Turns -> {"new", "admitted", "waiting", "settling"} \union Answer]
  /\ running \in TurnOrNone
  /\ target \in [Cancellers -> TurnOrNone]
  /\ settled \subseteq Turns

(***************************************************************************)
(* The log.                                                                *)
(***************************************************************************)
Init ==
  /\ log = <<>>
  /\ pc = [t \in Turns |-> "new"]
  /\ base = [t \in Turns |-> 0]
  /\ seen = [t \in Turns |-> 0]
  /\ tries = [t \in Turns |-> 0]
  /\ stop = [t \in Turns |-> FALSE]
  /\ bare = [t \in Turns |-> FALSE]
  /\ call = [t \in Turns |-> "new"]
  /\ running = NoTurn
  /\ target = [k \in Cancellers |-> NoTurn]
  /\ settled = {}

Record(kind, t) ==
  log' = Append(log, [kind |-> kind, turn |-> t,
                      base |-> IF t = NoTurn THEN Len(log) ELSE base[t]])

\* Mutant of Rebasable: anything that is not a turn may be rebased over.
RebasableNotTurn(entries, n) ==
  \A i \in (n + 1)..Len(entries) : entries[i].kind # "turn"

\* What landed since version n is only autonomy changes.
Rebasable(entries, n) ==
  \A i \in (n + 1)..Len(entries) : entries[i].kind = "autonomy"

Goto(t, phase) == pc' = [pc EXCEPT ![t] = phase]

\* The coroutine is over, and its locals with it.
End(t, phase) ==
  /\ Goto(t, phase)
  /\ base' = [base EXCEPT ![t] = 0]
  /\ seen' = [seen EXCEPT ![t] = 0]
  /\ tries' = [tries EXCEPT ![t] = 0]
  /\ stop' = [stop EXCEPT ![t] = FALSE]
  /\ bare' = [bare EXCEPT ![t] = FALSE]

Live(t) == pc[t] \notin {"new"} \union Ended

Done(t) == pc[t] \in Ended

(***************************************************************************)
(* run_turn: load, prepare the context, execute, save.                     *)
(***************************************************************************)
Load(t) ==
  /\ pc[t] = "loading"
  /\ base' = [base EXCEPT ![t] = Len(log)]
  /\ seen' = [seen EXCEPT ![t] = Len(log)]
  /\ Goto(t, "preparing")
  /\ UNCHANGED <<log, tries, stop, bare, supervisor>>

Prepare(t) ==
  /\ pc[t] = "preparing"
  /\ Goto(t, "executing")
  /\ UNCHANGED <<log, locals, supervisor>>

\* The executor answers; what it said is saved.
ExecuteOk(t) ==
  /\ pc[t] = "executing"
  /\ Goto(t, "saving")
  /\ UNCHANGED <<log, locals, supervisor>>

\* It raises, or unwinds from a cancellation: the attempt is marked.
ExecuteFails(t) ==
  /\ pc[t] \in {"executing", "unwinding"}
  /\ Goto(t, "failLoading")
  /\ UNCHANGED <<log, locals, supervisor>>

\* The store, the context, or the turn's accounting raises: no marker.
FailsUnmarked(t) ==
  /\ pc[t] \in {"loading", "preparing", "executing",
                "saving", "rechecking", "reloading"}
  /\ End(t, "failed")
  /\ UNCHANGED <<log, supervisor>>

SaveTurn(t) ==
  /\ pc[t] = "saving"
  /\ seen[t] = Len(log)
  /\ Record("turn", t)
  /\ Goto(t, "saved")
  /\ UNCHANGED <<locals, supervisor>>

\* Mutant of GivesUp: the last lock error is swallowed.
GivesUpSilently == "returned"

\* with_retry lets the last lock error through.
GivesUp == "conflicted"

LoseSave(t) ==
  /\ pc[t] = "saving"
  /\ seen[t] # Len(log)
  /\ IF tries[t] + 1 < MaxAttempts
       THEN /\ Goto(t, "rechecking")
            /\ tries' = [tries EXCEPT ![t] = @ + 1]
            /\ UNCHANGED <<base, seen, stop, bare>>
       ELSE End(t, GivesUp)
  /\ UNCHANGED <<log, supervisor>>

\* refuse_unrebasable reads the stream and gives up over a write the turn
\* contradicts ...
Recheck(t) ==
  /\ pc[t] = "rechecking"
  /\ Rebasable(log, base[t])
  /\ Goto(t, "reloading")
  /\ UNCHANGED <<log, locals, supervisor>>

RefuseRebase(t) ==
  /\ pc[t] = "rechecking"
  /\ ~Rebasable(log, base[t])
  /\ End(t, "conflicted")
  /\ UNCHANGED <<log, supervisor>>

\* ... and then the session is loaded, as it is by now.
Reload(t) ==
  /\ pc[t] = "reloading"
  /\ seen' = [seen EXCEPT ![t] = Len(log)]
  /\ Goto(t, "saving")
  /\ UNCHANGED <<log, base, tries, stop, bare, supervisor>>

Return(t) ==
  /\ pc[t] = "saved"
  /\ End(t, "returned")
  /\ UNCHANGED <<log, supervisor>>

(***************************************************************************)
(* record_turn_failure: a clean load, one save, and no second try.         *)
(***************************************************************************)
FailLoad(t) ==
  /\ pc[t] = "failLoading"
  /\ seen' = [seen EXCEPT ![t] = Len(log)]
  /\ Goto(t, "failSaving")
  /\ UNCHANGED <<log, base, tries, stop, bare, supervisor>>

FailSave(t) ==
  /\ pc[t] = "failSaving"
  /\ seen[t] = Len(log)
  /\ Record("failed", t)
  /\ Goto(t, "failSaved")
  /\ UNCHANGED <<locals, supervisor>>

\* A lost version, or any error of the store: logged, and the marker is not.
LoseMarker(t) ==
  /\ pc[t] \in {"failLoading", "failSaving"}
  /\ Goto(t, "failSaved")
  /\ UNCHANGED <<log, locals, supervisor>>

FailReturn(t) ==
  /\ pc[t] = "failSaved"
  /\ End(t, IF stop[t] THEN "cancelled" ELSE "failed")
  /\ UNCHANGED <<log, supervisor>>

(***************************************************************************)
(* task.cancel(): where the CancelledError surfaces.  The executor unwinds *)
(* through the model client; the failure marker is shielded from the first *)
(* cancel that finds it, and awaited bare from then on.                    *)
(***************************************************************************)
\* Mutant of Interrupted: the save is inside the try that marks failures.
InterruptedMarksSaves(phase, exposed) ==
  IF phase \in {"executing", "unwinding", "saving", "saved"} THEN "unwinding"
  ELSE IF phase \in Marking /\ ~exposed THEN phase
  ELSE "cancelled"

Interrupted(phase, exposed) ==
  IF phase \in {"executing", "unwinding"} THEN "unwinding"
  ELSE IF phase \in Marking /\ ~exposed THEN phase
  ELSE "cancelled"

Interrupt(t) ==
  LET phase == Interrupted(pc[t], bare[t]) IN
  IF phase = "cancelled" THEN End(t, phase)
  ELSE /\ Goto(t, phase)
       /\ stop' = [stop EXCEPT ![t] = TRUE]
       /\ bare' = [bare EXCEPT ![t] = pc[t] \in Marking]
       /\ UNCHANGED <<base, seen, tries>>

(***************************************************************************)
(* TurnSupervisor.run.                                                     *)
(***************************************************************************)
\* Mutant of IsRunning: a registered task is running, finished or not.
IsRegistered == running # NoTurn

IsRunning == running # NoTurn /\ ~Done(running)

Admit(t) ==
  /\ call[t] = "new"
  /\ ~IsRunning
  /\ call' = [call EXCEPT ![t] = "admitted"]
  /\ UNCHANGED <<log, pc, locals, running, target, settled>>

Refuse(t) ==
  /\ call[t] = "new"
  /\ IsRunning
  /\ call' = [call EXCEPT ![t] = "refused"]
  /\ UNCHANGED <<log, pc, locals, running, target, settled>>

\* The session is loaded (for its turn index), and the task created.
Register(t) ==
  /\ call[t] = "admitted"
  /\ call' = [call EXCEPT ![t] = "waiting"]
  /\ running' = t
  /\ Goto(t, "loading")
  /\ UNCHANGED <<log, locals, target, settled>>

\* The finally of run: only its own, finished task is taken off the register.
Unregister(t) == running' = IF running = t /\ Done(t) THEN NoTurn ELSE running

AnswerOf(phase) ==
  IF phase = "returned" THEN "committed"
  ELSE IF phase = "cancelled" THEN "stopped" ELSE "failed"

Report(t) ==
  /\ call[t] = "waiting" /\ Done(t)
  /\ call' = [call EXCEPT ![t] = AnswerOf(pc[t])]
  /\ Unregister(t)
  /\ UNCHANGED <<log, pc, locals, target, settled>>

TimeOut(t) ==
  /\ call[t] = "waiting" /\ ~Done(t)
  /\ call' = [call EXCEPT ![t] = "settling"]
  /\ Interrupt(t)
  /\ UNCHANGED <<log, running, target, settled>>

\* The task unwound, or settle_timeout ran out.
ReportTimeOut(t) ==
  /\ call[t] = "settling"
  /\ call' = [call EXCEPT ![t] = "timedOut"]
  /\ Unregister(t)
  /\ UNCHANGED <<log, pc, locals, target, settled>>

\* The caller of run goes away; its shielded task does not.
Disconnect(t) ==
  /\ call[t] \in {"admitted", "waiting"}
  /\ call' = [call EXCEPT ![t] = "gone"]
  /\ Unregister(t)
  /\ UNCHANGED <<log, pc, locals, target, settled>>

(***************************************************************************)
(* TurnSupervisor.cancel.  Its wait ends with the task, with its time, or  *)
(* with a cancellation of the canceller, which is taken for the task's own *)
(* and answered as settled.                                                *)
(***************************************************************************)
Cancel(k) ==
  /\ target[k] = NoTurn
  /\ IsRunning
  /\ target' = [target EXCEPT ![k] = running]
  /\ Interrupt(running)
  /\ UNCHANGED <<log, call, running, settled>>

\* The task has unwound.
MaySettle(k) == target[k] # NoTurn /\ Done(target[k])

\* Whatever is registered by now is dropped, with no check that it is the target.
CancelSettles(k) ==
  /\ MaySettle(k)
  /\ settled' = settled \union {target[k]}
  /\ target' = [target EXCEPT ![k] = NoTurn]
  /\ running' = NoTurn
  /\ UNCHANGED <<log, pc, locals, call>>

\* The canceller is cancelled: the answer is the same and so is what it drops, and
\* the task is still unwinding.
CancelIsCut(k) ==
  /\ target[k] # NoTurn /\ ~Done(target[k])
  /\ target' = [target EXCEPT ![k] = NoTurn]
  /\ running' = NoTurn
  /\ UNCHANGED <<log, pc, locals, call, settled>>

CancelTimesOut(k) ==
  /\ target[k] # NoTurn /\ ~Done(target[k])
  /\ target' = [target EXCEPT ![k] = NoTurn]
  /\ UNCHANGED <<log, pc, locals, call, running, settled>>

(***************************************************************************)
(* Everything else that touches the session: another process's turns, and  *)
(* autonomy changes and file writes between or during turns.               *)
(***************************************************************************)
StartElsewhere(t) ==
  /\ call[t] = "new"
  /\ call' = [call EXCEPT ![t] = "elsewhere"]
  /\ Goto(t, "loading")
  /\ UNCHANGED <<log, locals, running, target, settled>>

\* The other process dies.
Die(t) ==
  /\ call[t] = "elsewhere" /\ Live(t)
  /\ End(t, "cancelled")
  /\ UNCHANGED <<log, supervisor>>

\* Each is a load and a save: it lands on the version it loaded or not at all.
WriteBeside(kind) ==
  /\ Len(SelectSeq(log, LAMBDA e : e.turn = NoTurn)) < MaxBeside
  /\ Record(kind, NoTurn)
  /\ UNCHANGED <<pc, locals, supervisor>>

TaskStep(t) ==
  \/ Load(t) \/ Prepare(t) \/ ExecuteOk(t) \/ ExecuteFails(t) \/ FailsUnmarked(t)
  \/ SaveTurn(t) \/ LoseSave(t) \/ Recheck(t) \/ RefuseRebase(t) \/ Reload(t)
  \/ Return(t) \/ FailLoad(t) \/ FailSave(t) \/ LoseMarker(t) \/ FailReturn(t)

RunStep(t) ==
  \/ Admit(t) \/ Refuse(t) \/ Register(t) \/ Report(t)
  \/ TimeOut(t) \/ ReportTimeOut(t) \/ Disconnect(t)

Elsewhere(t) == StartElsewhere(t) \/ Die(t)

CancelStep(k) == Cancel(k) \/ CancelSettles(k) \/ CancelIsCut(k) \/ CancelTimesOut(k)

Next ==
  \/ \E t \in Turns : TaskStep(t)
  \/ \E t \in Turns : RunStep(t)
  \/ \E t \in Turns : Elsewhere(t)
  \/ \E k \in Cancellers : CancelStep(k)
  \/ \E kind \in Beside : WriteBeside(kind)

Spec == Init /\ [][Next]_vars

\* The event loop runs every task that can run, and the store and the model
\* client answer or raise.
FairSpec == Spec /\ \A t \in Turns : WF_vars(TaskStep(t))

(***************************************************************************)
(* Properties.                                                             *)
(***************************************************************************)
Holds(kind, t) == \E i \in DOMAIN log : log[i].kind = kind /\ log[i].turn = t

\* A turn reaches the log once: its events are never appended twice by the
\* retry, and never stand beside a marker that says it failed, however
\* cancels, timeouts and lost saves fall on it.
OneEntryPerTurn ==
  \A i, j \in DOMAIN log :
    log[i].turn \in Turns /\ log[i].turn = log[j].turn => i = j

\* A caller told its turn committed finds it in the log, and one told it
\* failed (409 or 500) finds none of its events there: "the loser's events
\* were discarded whole, so nothing happened; this is a retry".
AnswersMatchTheLog ==
  \A t \in Turns :
    /\ call[t] = "committed" => Holds("turn", t)
    /\ call[t] \in {"failed", "refused"} => ~Holds("turn", t)

\* Two turns never answer the same conversation: between the log a turn read
\* and its events nothing stands.  It holds of a log in which nobody changed
\* autonomy; with one change, a turn that lands between the check and the load
\* of a rebase is built over.
NoInterleaving ==
  (\A i \in DOMAIN log : log[i].kind # "autonomy") =>
    \A i \in DOMAIN log : log[i].kind = "turn" => log[i].base + 1 = i

\* Once a cancel that was not itself cancelled has answered that the turn settled, the
\* log is final about it: no events and no marker of that turn arrive any more.  (One
\* that was, at turn_supervisor.py:308, answers so of a turn that may still write.)
SettledIsFinal ==
  [][\A t \in settled : \A kind \in {"turn", "failed"} :
       Holds(kind, t)' = Holds(kind, t)]_vars

\* The session's slot always comes free again, although the caller of a turn
\* may go away without taking its task off the register.
SlotComesFree == IsRunning ~> ~IsRunning

(***************************************************************************)
(* The inductive invariant behind the first two, in named parts.           *)
(***************************************************************************)
\* What a turn can have written by the time it is at phase.
MayHold(phase) ==
  IF phase \in {"saved", "returned"} THEN {"turn"}
  ELSE IF phase \in {"failSaved", "failed"} THEN {"failed"}
  ELSE IF phase = "cancelled" THEN {"turn", "failed"}
  ELSE {}

WrittenByPhase ==
  \A i \in DOMAIN log : log[i].turn \in Turns => log[i].kind \in MayHold(pc[log[i].turn])

OwnKind ==
  \A i \in DOMAIN log : log[i].kind \in {"turn", "failed"} <=> log[i].turn \in Turns

SavedIsInTheLog == \A t \in Turns : pc[t] \in {"saved", "returned"} => Holds("turn", t)

CallsFollowTasks ==
  /\ \A t \in Turns :
       /\ call[t] \in {"new", "admitted", "refused"} => pc[t] = "new"
       /\ call[t] \in {"waiting", "settling"} => pc[t] # "new"
       /\ call[t] = "committed" => pc[t] = "returned"
       /\ call[t] = "failed" => pc[t] \in {"failed", "conflicted"}
  /\ running # NoTurn => pc[running] # "new"
  /\ \A k \in Cancellers : target[k] # NoTurn => pc[target[k]] # "new"
  /\ \A t \in settled : Done(t)

TurnsInv ==
  /\ TypeOK /\ OneEntryPerTurn /\ AnswersMatchTheLog
  /\ WrittenByPhase /\ OwnKind /\ SavedIsInTheLog /\ CallsFollowTasks

(***************************************************************************)
(* What the log promises of a turn.                                        *)
(***************************************************************************)
FateOf(t) ==
  IF Holds("turn", t) /\ Holds("failed", t) THEN "both"
  ELSE IF Holds("turn", t) THEN "recorded"
  ELSE IF Holds("failed", t) THEN "marked"
  ELSE IF Done(t) THEN "void"
  ELSE "open"

Ledger == INSTANCE TurnLedger WITH fate <- [t \in Turns |-> FateOf(t)]

\* Every behaviour of the session is one in which each turn is decided once,
\* whole or marked or void, and stays as it was decided.
ImplementsLedger == Ledger!Spec

=============================================================================
