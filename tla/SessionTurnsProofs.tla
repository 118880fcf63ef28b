------------------------- MODULE SessionTurnsProofs -------------------------
(***************************************************************************)
(* Proofs about SessionTurns.  Every step is described by what it does to  *)
(* the phase of a turn (PhaseMoves) and to the log (LogMoves); the         *)
(* invariant and the ledger follow from those two alone.                   *)
(*                                                                         *)
(* Then about ProjectionRunner, whose table is derived from that log and   *)
(* the others: as long as no two rebuilds overlap (RebuildsApart), one     *)
(* subscription follows at a time (RunnerInv), a row that drifted has its  *)
(* failure filed (DriftIsFiled), and where nothing fails the rows are      *)
(* exact (RebuildIsSafe).  The two components share no variable.           *)
(*                                                                         *)
(* Of each the proofs end with what is left to do: that it falls, and that *)
(* nobody sets it back (TurnsRunOut, LogIsServed).                         *)
(***************************************************************************)
EXTENDS SessionTurns, ProjectionRunner, FiniteSetTheorems, TLAPS

\* A turn moves from a phase that has not ended, to one that may have written
\* whatever the old one may have written.
PhaseMoves ==
  \A t \in Turns : pc'[t] # pc[t] =>
    /\ ~Done(t)
    /\ pc'[t] # "new"
    /\ MayHold(pc[t]) \subseteq MayHold(pc'[t])
    /\ pc'[t] = "saved" => pc[t] = "saving"
    /\ pc'[t] = "returned" => pc[t] = "saved"

\* The log stays, or takes one entry: a turn's events, a marker, or a stranger's.
LogMoves ==
  \/ UNCHANGED log /\ \A t \in Turns : pc'[t] = "saved" => pc[t] = "saved"
  \/ \E t \in Turns : SaveTurn(t)
  \/ \E t \in Turns : FailSave(t)
  \/ \E kind \in Beside : WriteBeside(kind)

(***************************************************************************)
(* Types.                                                                  *)
(***************************************************************************)

\* A coroutine that ends clears its locals and keeps their types.
LEMMA EndTypes ==
  ASSUME TypeOK, NEW t \in Turns, NEW phase \in Ended, End(t, phase)
  PROVE  /\ pc' \in [Turns -> Phase]
         /\ base' \in [Turns -> Nat] /\ seen' \in [Turns -> Nat]
         /\ tries' \in [Turns -> 0..MaxAttempts]
         /\ stop' \in [Turns -> BOOLEAN] /\ bare' \in [Turns -> BOOLEAN]
  BY AttemptsAssumption DEF TypeOK, End, Goto, Phase, Ended

\* So does one that meets a cancellation.
LEMMA InterruptTypes ==
  ASSUME TypeOK, NEW t \in Turns, Interrupt(t)
  PROVE  /\ pc' \in [Turns -> Phase]
         /\ base' \in [Turns -> Nat] /\ seen' \in [Turns -> Nat]
         /\ tries' \in [Turns -> 0..MaxAttempts]
         /\ stop' \in [Turns -> BOOLEAN] /\ bare' \in [Turns -> BOOLEAN]
  <1> DEFINE phase == Interrupted(pc[t], bare[t])
  <1>1. phase \in Phase
    BY DEF TypeOK, Interrupted, Phase, Ended, Marking
  <1>2. CASE phase = "cancelled"
    <2>1. End(t, "cancelled")
      BY <1>2 DEF Interrupt
    <2> QED
      BY <2>1, EndTypes DEF Ended
  <1>3. CASE phase # "cancelled"
    <2>1. /\ Goto(t, phase)
          /\ stop' = [stop EXCEPT ![t] = TRUE]
          /\ bare' = [bare EXCEPT ![t] = pc[t] \in Marking]
          /\ UNCHANGED <<base, seen, tries>>
      BY <1>3 DEF Interrupt
    <2> QED
      BY <1>1, <2>1 DEF TypeOK, Goto
  <1> QED
    BY <1>2, <1>3

\* Appending a well-typed entry keeps the log a log.
LEMMA RecordTypes ==
  ASSUME TypeOK, NEW t \in TurnOrNone,
         NEW kind \in {"turn", "failed", "autonomy", "file"}, Record(kind, t)
  PROVE  log' \in Seq(Entry)
  <1>1. (IF t = NoTurn THEN Len(log) ELSE base[t]) \in Nat
    BY DEF TypeOK, TurnOrNone
  <1> QED
    BY <1>1 DEF TypeOK, Record, Entry

\* No step leaves the types.
LEMMA TypesStay == TypeOK /\ [Next]_vars => TypeOK'
  <1> SUFFICES ASSUME TypeOK, [Next]_vars PROVE TypeOK'
    OBVIOUS
  <1> USE DEF locals, supervisor, TurnOrNone
  <1>1. ASSUME NEW t \in Turns, TaskStep(t) PROVE TypeOK'
    <2>1. CASE Load(t)
      BY <2>1 DEF Load, Goto, TypeOK, Phase
    <2>2. CASE Prepare(t) \/ ExecuteOk(t) \/ ExecuteFails(t)
      BY <2>2 DEF Prepare, ExecuteOk, ExecuteFails, Goto, TypeOK, Phase, Marking
    <2>3. CASE FailsUnmarked(t)
      <3>1. End(t, "failed") /\ UNCHANGED <<log, call, running, target, settled>>
        BY <2>3 DEF FailsUnmarked
      <3> QED BY <3>1, EndTypes DEF TypeOK, Ended
    <2>4. CASE SaveTurn(t)
      <3>1. log' \in Seq(Entry)
        BY <2>4, RecordTypes DEF SaveTurn, TurnOrNone
      <3> QED BY <2>4, <3>1 DEF SaveTurn, Goto, TypeOK, Phase
    <2>5. CASE LoseSave(t)
      <3>1. CASE tries[t] + 1 < MaxAttempts
        <4>1. tries[t] + 1 \in 0..MaxAttempts
          BY <3>1, AttemptsAssumption DEF TypeOK
        <4> QED
          BY <2>5, <3>1, <4>1 DEF LoseSave, Goto, TypeOK, Phase
      <3>2. CASE ~(tries[t] + 1 < MaxAttempts)
        <4>1. End(t, "conflicted") /\ UNCHANGED <<log, call, running, target, settled>>
          BY <2>5, <3>2 DEF LoseSave, GivesUp
        <4> QED BY <4>1, EndTypes DEF TypeOK, Ended
      <3> QED BY <3>1, <3>2
    <2>6. CASE Recheck(t)
      BY <2>6 DEF Recheck, Goto, TypeOK, Phase
    <2>7. CASE RefuseRebase(t)
      <3>1. End(t, "conflicted") /\ UNCHANGED <<log, call, running, target, settled>>
        BY <2>7 DEF RefuseRebase
      <3> QED BY <3>1, EndTypes DEF TypeOK, Ended
    <2>8. CASE Reload(t)
      BY <2>8 DEF Reload, Goto, TypeOK, Phase
    <2>9. CASE Return(t)
      <3>1. End(t, "returned") /\ UNCHANGED <<log, call, running, target, settled>>
        BY <2>9 DEF Return
      <3> QED BY <3>1, EndTypes DEF TypeOK, Ended
    <2>10. CASE FailLoad(t)
      BY <2>10 DEF FailLoad, Goto, TypeOK, Phase, Marking
    <2>11. CASE FailSave(t)
      <3>1. log' \in Seq(Entry)
        BY <2>11, RecordTypes DEF FailSave, TurnOrNone
      <3> QED BY <2>11, <3>1 DEF FailSave, Goto, TypeOK, Phase, Marking
    <2>12. CASE LoseMarker(t)
      BY <2>12 DEF LoseMarker, Goto, TypeOK, Phase, Marking
    <2>13. CASE FailReturn(t)
      <3>1. PICK phase \in {"cancelled", "failed"} :
              End(t, phase) /\ UNCHANGED <<log, call, running, target, settled>>
        BY <2>13 DEF FailReturn
      <3> QED BY <3>1, EndTypes DEF TypeOK, Ended
    <2> QED
      BY <1>1, <2>1, <2>2, <2>3, <2>4, <2>5, <2>6, <2>7, <2>8, <2>9, <2>10,
         <2>11, <2>12, <2>13 DEF TaskStep
  <1>2. ASSUME NEW t \in Turns, RunStep(t) PROVE TypeOK'
    <2>1. CASE Admit(t) \/ Refuse(t)
      BY <2>1 DEF Admit, Refuse, TypeOK, Answer
    <2>2. CASE Register(t)
      BY <2>2 DEF Register, Goto, TypeOK, Phase
    <2>3. CASE Report(t) \/ ReportTimeOut(t) \/ Disconnect(t)
      BY <2>3 DEF Report, ReportTimeOut, Disconnect, Unregister, AnswerOf, TypeOK, Answer
    <2>4. CASE TimeOut(t)
      <3>1. Interrupt(t)
        BY <2>4 DEF TimeOut
      <3> QED BY <2>4, <3>1, InterruptTypes DEF TimeOut, TypeOK
    <2> QED
      BY <1>2, <2>1, <2>2, <2>3, <2>4 DEF RunStep
  <1>3. ASSUME NEW t \in Turns, Elsewhere(t) PROVE TypeOK'
    <2>1. CASE StartElsewhere(t)
      BY <2>1 DEF StartElsewhere, Goto, TypeOK, Phase, Answer
    <2>2. CASE Die(t)
      <3>1. End(t, "cancelled") /\ UNCHANGED <<log, call, running, target, settled>>
        BY <2>2 DEF Die
      <3> QED BY <3>1, EndTypes DEF TypeOK, Ended
    <2> QED
      BY <1>3, <2>1, <2>2 DEF Elsewhere
  <1>4. ASSUME NEW k \in Cancellers, CancelStep(k) PROVE TypeOK'
    <2>1. CASE Cancel(k)
      <3>1. running \in Turns /\ Interrupt(running)
        BY <2>1, TurnsAssumption DEF Cancel, IsRunning, TypeOK, TurnOrNone
      <3> QED BY <2>1, <3>1, InterruptTypes DEF Cancel, TypeOK
    <2>2. CASE CancelSettles(k) \/ CancelIsCut(k) \/ CancelTimesOut(k)
      BY <2>2 DEF CancelSettles, CancelIsCut, CancelTimesOut, MaySettle, TypeOK
    <2> QED
      BY <1>4, <2>1, <2>2 DEF CancelStep
  <1>5. ASSUME NEW kind \in Beside, WriteBeside(kind) PROVE TypeOK'
    <2>1. log' \in Seq(Entry)
      BY <1>5, RecordTypes, BesideAssumption DEF WriteBeside, TurnOrNone
    <2> QED
      BY <1>5, <2>1 DEF WriteBeside, TypeOK
  <1>6. CASE UNCHANGED vars
    BY <1>6 DEF vars, TypeOK
  <1> QED
    BY <1>1, <1>2, <1>3, <1>4, <1>5, <1>6 DEF Next

(***************************************************************************)
(* What a step does to the phases and to the log.                          *)
(***************************************************************************)

\* A cancellation moves a live turn, never into or out of a save.
LEMMA InterruptMoves ==
  ASSUME TypeOK, NEW t \in Turns, ~Done(t), pc[t] # "new", Interrupt(t)
  PROVE  PhaseMoves /\ \A u \in Turns : pc'[u] = "saved" => pc[u] = "saved"
  <1> DEFINE phase == Interrupted(pc[t], bare[t])
  <1>1. pc' = [pc EXCEPT ![t] = phase]
    BY DEF Interrupt, End, Goto
  <1>2. phase = pc[t] \/ phase \in {"unwinding", "cancelled"}
    BY DEF Interrupted
  <1>3. phase = "unwinding" => pc[t] \in {"executing", "unwinding"}
    BY DEF Interrupted, Marking, Ended
  <1>4. pc \in [Turns -> Phase]
    BY DEF TypeOK
  <1> HIDE DEF phase
  <1> QED
    BY <1>1, <1>2, <1>3, <1>4 DEF PhaseMoves, MayHold, Done, Ended

\* Every step moves phases forward only.
LEMMA Phases == TypeOK /\ CallsFollowTasks /\ Next => PhaseMoves
  <1> SUFFICES ASSUME TypeOK, CallsFollowTasks, Next PROVE PhaseMoves
    OBVIOUS
  <1> USE DEF locals, supervisor, TurnOrNone
  <1>0. pc \in [Turns -> Phase]
    BY DEF TypeOK
  <1>1. ASSUME NEW t \in Turns, TaskStep(t) PROVE PhaseMoves
    <2>1. CASE Load(t) \/ Prepare(t) \/ ExecuteOk(t) \/ ExecuteFails(t)
      BY <1>0, <2>1 DEF Load, Prepare, ExecuteOk, ExecuteFails, Goto, PhaseMoves,
                        MayHold, Done, Ended
    <2>2. CASE FailsUnmarked(t) \/ Return(t) \/ FailReturn(t)
      BY <1>0, <2>2 DEF FailsUnmarked, Return, FailReturn, End, Goto, PhaseMoves,
                        MayHold, Done, Ended
    <2>3. CASE SaveTurn(t)
      BY <1>0, <2>3 DEF SaveTurn, Goto, PhaseMoves, MayHold, Done, Ended
    <2>4. CASE LoseSave(t)
      <3>1. pc[t] = "saving" /\ \E phase \in {"rechecking", "conflicted"} : Goto(t, phase)
        BY <2>4 DEF LoseSave, End, GivesUp
      <3> QED
        BY <1>0, <3>1 DEF Goto, PhaseMoves, MayHold, Done, Ended
    <2>5. CASE Recheck(t) \/ RefuseRebase(t) \/ Reload(t)
      BY <1>0, <2>5 DEF Recheck, RefuseRebase, Reload, End, Goto, PhaseMoves,
                        MayHold, Done, Ended
    <2>6. CASE FailLoad(t) \/ FailSave(t) \/ LoseMarker(t)
      BY <1>0, <2>6 DEF FailLoad, FailSave, LoseMarker, Goto, PhaseMoves,
                        MayHold, Done, Ended
    <2> QED
      BY <1>1, <2>1, <2>2, <2>3, <2>4, <2>5, <2>6 DEF TaskStep
  <1>2. ASSUME NEW t \in Turns, RunStep(t) PROVE PhaseMoves
    <2>1. CASE Admit(t) \/ Refuse(t) \/ Report(t) \/ ReportTimeOut(t) \/ Disconnect(t)
      BY <2>1 DEF Admit, Refuse, Report, ReportTimeOut, Disconnect, PhaseMoves
    <2>2. CASE Register(t)
      <3>1. pc[t] = "new"
        BY <2>2 DEF Register, CallsFollowTasks
      <3> QED
        BY <1>0, <2>2, <3>1 DEF Register, Goto, PhaseMoves, MayHold, Done, Ended
    <2>3. CASE TimeOut(t)
      <3>1. ~Done(t) /\ pc[t] # "new" /\ Interrupt(t)
        BY <2>3 DEF TimeOut, CallsFollowTasks
      <3> QED
        BY <3>1, InterruptMoves
    <2> QED
      BY <1>2, <2>1, <2>2, <2>3 DEF RunStep
  <1>3. ASSUME NEW t \in Turns, Elsewhere(t) PROVE PhaseMoves
    <2>1. CASE StartElsewhere(t)
      <3>1. pc[t] = "new"
        BY <2>1 DEF StartElsewhere, CallsFollowTasks
      <3> QED
        BY <1>0, <2>1, <3>1 DEF StartElsewhere, Goto, PhaseMoves, MayHold, Done, Ended
    <2>2. CASE Die(t)
      BY <1>0, <2>2 DEF Die, Live, End, Goto, PhaseMoves, MayHold, Done, Ended
    <2> QED
      BY <1>3, <2>1, <2>2 DEF Elsewhere
  <1>4. ASSUME NEW k \in Cancellers, CancelStep(k) PROVE PhaseMoves
    <2>1. CASE Cancel(k)
      <3>1. /\ running \in Turns /\ ~Done(running)
            /\ pc[running] # "new" /\ Interrupt(running)
        BY <2>1, TurnsAssumption DEF Cancel, IsRunning, TypeOK, TurnOrNone, CallsFollowTasks
      <3> QED
        BY <3>1, InterruptMoves
    <2> QED
      BY <1>4, <2>1 DEF CancelStep, CancelSettles, CancelIsCut, CancelTimesOut, PhaseMoves
  <1>5. ASSUME NEW kind \in Beside, WriteBeside(kind) PROVE PhaseMoves
    BY <1>5 DEF WriteBeside, PhaseMoves
  <1> QED
    BY <1>1, <1>2, <1>3, <1>4, <1>5 DEF Next

\* Only a save of a turn, of a marker or of another writer touches the log.
LEMMA Logs == TypeOK /\ CallsFollowTasks /\ Next => LogMoves
  <1> SUFFICES ASSUME TypeOK, CallsFollowTasks, Next PROVE LogMoves
    OBVIOUS
  <1> USE DEF locals, supervisor, TurnOrNone
  <1> DEFINE Quiet == UNCHANGED log /\ \A u \in Turns : pc'[u] = "saved" => pc[u] = "saved"
  <1>0. pc \in [Turns -> Phase]
    BY DEF TypeOK
  <1>1. ASSUME NEW t \in Turns, TaskStep(t), ~SaveTurn(t), ~FailSave(t) PROVE Quiet
    <2>1. CASE Load(t) \/ Prepare(t) \/ ExecuteOk(t) \/ ExecuteFails(t)
      BY <1>0, <2>1 DEF Load, Prepare, ExecuteOk, ExecuteFails, Goto
    <2>2. CASE FailsUnmarked(t) \/ Return(t) \/ FailReturn(t)
      BY <1>0, <2>2 DEF FailsUnmarked, Return, FailReturn, End, Goto
    <2>3. CASE LoseSave(t)
      <3>1. UNCHANGED log /\ \E phase \in {"rechecking", "conflicted"} : Goto(t, phase)
        BY <2>3 DEF LoseSave, End, GivesUp
      <3> QED
        BY <1>0, <3>1 DEF Goto
    <2>4. CASE Recheck(t) \/ RefuseRebase(t) \/ Reload(t) \/ FailLoad(t) \/ LoseMarker(t)
      BY <1>0, <2>4 DEF Recheck, RefuseRebase, Reload, FailLoad, LoseMarker, End, Goto
    <2> QED
      BY <1>1, <2>1, <2>2, <2>3, <2>4 DEF TaskStep
  <1>2. ASSUME NEW t \in Turns, RunStep(t) PROVE Quiet
    <2>1. CASE Admit(t) \/ Refuse(t) \/ Report(t) \/ ReportTimeOut(t) \/ Disconnect(t)
      BY <2>1 DEF Admit, Refuse, Report, ReportTimeOut, Disconnect
    <2>2. CASE Register(t)
      BY <1>0, <2>2 DEF Register, Goto
    <2>3. CASE TimeOut(t)
      <3>1. ~Done(t) /\ pc[t] # "new" /\ Interrupt(t) /\ UNCHANGED log
        BY <2>3 DEF TimeOut, CallsFollowTasks
      <3> QED
        BY <3>1, InterruptMoves
    <2> QED
      BY <1>2, <2>1, <2>2, <2>3 DEF RunStep
  <1>3. ASSUME NEW t \in Turns, Elsewhere(t) PROVE Quiet
    BY <1>0, <1>3 DEF Elsewhere, StartElsewhere, Die, End, Goto
  <1>4. ASSUME NEW k \in Cancellers, CancelStep(k) PROVE Quiet
    <2>1. CASE Cancel(k)
      <3>1. /\ running \in Turns /\ ~Done(running)
            /\ pc[running] # "new" /\ Interrupt(running) /\ UNCHANGED log
        BY <2>1, TurnsAssumption DEF Cancel, IsRunning, TypeOK, TurnOrNone, CallsFollowTasks
      <3> QED
        BY <3>1, InterruptMoves
    <2> QED
      BY <1>4, <2>1 DEF CancelStep, CancelSettles, CancelIsCut, CancelTimesOut
  <1> QED
    BY <1>1, <1>2, <1>3, <1>4 DEF Next, LogMoves

\* The supervisor's records keep following the tasks.
LEMMA Calls == TypeOK /\ CallsFollowTasks /\ Next => CallsFollowTasks'
  <1> SUFFICES ASSUME TypeOK, CallsFollowTasks, Next PROVE CallsFollowTasks'
    OBVIOUS
  <1> USE DEF locals, supervisor, TurnOrNone
  <1>0. pc \in [Turns -> Phase] /\ NoTurn \notin Turns
    BY TurnsAssumption DEF TypeOK
  <1>p. PhaseMoves
    BY Phases
  <1>q. \A t \in Turns : pc'[t] # "new" \/ pc[t] = "new"
    BY <1>p DEF PhaseMoves
  <1>r. \A t \in Turns : Done(t) => pc'[t] = pc[t]
    BY <1>p DEF PhaseMoves
  <1>1. ASSUME UNCHANGED supervisor,
               \A t \in Turns : pc[t] = "new" => pc'[t] = "new"
        PROVE  CallsFollowTasks'
    BY <1>0, <1>1, <1>q, <1>r DEF CallsFollowTasks, Done, Ended, TypeOK
  <1>2. ASSUME NEW t \in Turns, TaskStep(t) PROVE CallsFollowTasks'
    <2>1. UNCHANGED supervisor /\ pc[t] # "new"
      BY <1>2 DEF TaskStep, Load, Prepare, ExecuteOk, ExecuteFails, FailsUnmarked,
                  SaveTurn, LoseSave, Recheck, RefuseRebase, Reload, Return,
                  FailLoad, FailSave, LoseMarker, FailReturn
    <2>2. \A u \in Turns : u # t => pc'[u] = pc[u]
      BY <1>0, <1>2 DEF TaskStep, Load, Prepare, ExecuteOk, ExecuteFails, FailsUnmarked,
                  SaveTurn, LoseSave, Recheck, RefuseRebase, Reload, Return,
                  FailLoad, FailSave, LoseMarker, FailReturn, End, Goto
    <2> QED
      BY <1>0, <1>1, <2>1, <2>2
  <1>3. ASSUME NEW t \in Turns, RunStep(t) PROVE CallsFollowTasks'
    <2>1. CASE Admit(t) \/ Refuse(t)
      BY <1>0, <2>1 DEF Admit, Refuse, CallsFollowTasks, Done, TypeOK
    <2>2. CASE Register(t)
      <3>1. pc' = [pc EXCEPT ![t] = "loading"] /\ call' = [call EXCEPT ![t] = "waiting"]
            /\ running' = t /\ UNCHANGED <<target, settled>>
        BY <2>2 DEF Register, Goto
      <3>2. \A u \in settled : Done(u)'
        BY <1>0, <3>1, <1>r DEF CallsFollowTasks, Done, TypeOK
      <3> QED
        BY <1>0, <3>1, <3>2 DEF CallsFollowTasks, TypeOK
    <2>3. CASE Report(t)
      <3>1. /\ call' = [call EXCEPT ![t] = AnswerOf(pc[t])] /\ Done(t)
            /\ running' \in {running, NoTurn} /\ UNCHANGED <<pc, target, settled>>
        BY <2>3 DEF Report, Unregister
      <3>2. /\ AnswerOf(pc[t]) \in {"committed", "stopped", "failed"}
            /\ AnswerOf(pc[t]) = "committed" => pc[t] = "returned"
            /\ AnswerOf(pc[t]) = "failed" => pc[t] \in {"failed", "conflicted"}
        BY <3>1 DEF AnswerOf, Done, Ended
      <3> QED
        BY <1>0, <3>1, <3>2 DEF CallsFollowTasks, Done, TypeOK
    <2>4. CASE TimeOut(t)
      <3>1. /\ call' = [call EXCEPT ![t] = "settling"] /\ pc[t] # "new"
            /\ UNCHANGED <<running, target, settled>>
            /\ \A u \in Turns : u # t => pc'[u] = pc[u]
        BY <1>0, <2>4 DEF TimeOut, CallsFollowTasks, Interrupt, End, Goto
      <3> QED
        BY <1>0, <1>q, <1>r, <3>1 DEF CallsFollowTasks, Done, Ended, TypeOK
    <2>5. CASE ReportTimeOut(t) \/ Disconnect(t)
      <3>1. /\ \E answer \in {"timedOut", "gone"} : call' = [call EXCEPT ![t] = answer]
            /\ running' \in {running, NoTurn} /\ UNCHANGED <<pc, target, settled>>
        BY <2>5 DEF ReportTimeOut, Disconnect, Unregister
      <3> QED
        BY <1>0, <3>1 DEF CallsFollowTasks, Done, TypeOK
    <2> QED
      BY <1>3, <2>1, <2>2, <2>3, <2>4, <2>5 DEF RunStep
  <1>4. ASSUME NEW t \in Turns, Elsewhere(t) PROVE CallsFollowTasks'
    <2>1. CASE StartElsewhere(t)
      <3>1. /\ pc' = [pc EXCEPT ![t] = "loading"] /\ call' = [call EXCEPT ![t] = "elsewhere"]
            /\ UNCHANGED <<running, target, settled>>
        BY <2>1 DEF StartElsewhere, Goto
      <3>2. \A u \in settled : Done(u)'
        BY <1>0, <3>1, <1>r DEF CallsFollowTasks, Done, TypeOK
      <3> QED
        BY <1>0, <1>q, <3>1, <3>2 DEF CallsFollowTasks, TypeOK
    <2>2. CASE Die(t)
      <3>1. call[t] = "elsewhere" /\ UNCHANGED supervisor
            /\ \A u \in Turns : u # t => pc'[u] = pc[u]
        BY <1>0, <2>2 DEF Die, End, Goto
      <3> QED
        BY <1>0, <1>q, <1>r, <3>1 DEF CallsFollowTasks, Done, TypeOK
    <2> QED
      BY <1>4, <2>1, <2>2 DEF Elsewhere
  <1>5. ASSUME NEW k \in Cancellers, CancelStep(k) PROVE CallsFollowTasks'
    <2>1. CASE Cancel(k)
      <3>1. /\ running \in Turns /\ pc[running] # "new"
            /\ target' = [target EXCEPT ![k] = running]
            /\ UNCHANGED <<call, running, settled>>
            /\ \A u \in Turns : u # running => pc'[u] = pc[u]
        BY <1>0, <2>1 DEF Cancel, IsRunning, CallsFollowTasks, Interrupt, End, Goto, TypeOK
      <3> QED
        BY <1>0, <1>q, <1>r, <3>1 DEF CallsFollowTasks, Done, Ended, TypeOK
    <2>2. CASE CancelSettles(k) \/ CancelIsCut(k) \/ CancelTimesOut(k)
      BY <1>0, <2>2 DEF CancelSettles, CancelIsCut, CancelTimesOut, MaySettle, CallsFollowTasks, Done, TypeOK
    <2> QED
      BY <1>5, <2>1, <2>2 DEF CancelStep
  <1>6. ASSUME NEW kind \in Beside, WriteBeside(kind) PROVE CallsFollowTasks'
    BY <1>1, <1>6 DEF WriteBeside
  <1> QED
    BY <1>2, <1>3, <1>4, <1>5, <1>6 DEF Next

(***************************************************************************)
(* The invariant.                                                          *)
(***************************************************************************)

\* A turn that can still write has not written: an entry it appends is its
\* first, and what the log holds of the others is what it held.
LEMMA LogStays ==
  ASSUME TurnsInv, TypeOK', PhaseMoves, LogMoves
  PROVE  /\ OneEntryPerTurn' /\ WrittenByPhase' /\ OwnKind'
         /\ \A i \in DOMAIN log : i \in DOMAIN log' /\ log'[i] = log[i]
         /\ \A t \in Turns : pc'[t] = "saved" /\ pc[t] # "saved" => Holds("turn", t)'
  <1> USE DEF TurnsInv
  <1>0. log \in Seq(Entry) /\ pc \in [Turns -> Phase] /\ pc' \in [Turns -> Phase]
    BY DEF TypeOK
  <1>a. \A i \in DOMAIN log : log[i] \in Entry
    BY <1>0
  <1>b. \A i \in DOMAIN log : log[i].turn \in Turns =>
          log[i].kind \in MayHold(pc'[log[i].turn])
    BY <1>0 DEF WrittenByPhase, PhaseMoves
  <1>1. ASSUME UNCHANGED log, \A t \in Turns : pc'[t] = "saved" => pc[t] = "saved"
        PROVE  /\ OneEntryPerTurn' /\ WrittenByPhase' /\ OwnKind'
               /\ \A i \in DOMAIN log : i \in DOMAIN log' /\ log'[i] = log[i]
               /\ \A t \in Turns : pc'[t] = "saved" /\ pc[t] # "saved" => Holds("turn", t)'
    BY <1>1, <1>b DEF OneEntryPerTurn, WrittenByPhase, OwnKind
  <1>2. ASSUME NEW e \in Entry, log' = Append(log, e),
               e.kind \in {"turn", "failed"} <=> e.turn \in Turns,
               e.turn \in Turns =>
                 /\ e.kind \in MayHold(pc'[e.turn])
                 /\ \A i \in DOMAIN log : log[i].turn # e.turn,
               \A t \in Turns : pc'[t] = "saved" /\ pc[t] # "saved" =>
                 e.turn = t /\ e.kind = "turn"
        PROVE  /\ OneEntryPerTurn' /\ WrittenByPhase' /\ OwnKind'
               /\ \A i \in DOMAIN log : i \in DOMAIN log' /\ log'[i] = log[i]
               /\ \A t \in Turns : pc'[t] = "saved" /\ pc[t] # "saved" => Holds("turn", t)'
    <2>1. /\ DOMAIN log' = 1..(Len(log) + 1) /\ DOMAIN log = 1..Len(log)
          /\ \A i \in 1..Len(log) : log'[i] = log[i]
          /\ log'[Len(log) + 1] = e /\ Len(log) \in Nat
      BY <1>0, <1>2
    <2>2. \A i \in DOMAIN log' : i \in DOMAIN log \/ i = Len(log) + 1
      BY <2>1
    <2>3. OneEntryPerTurn'
      BY <1>2, <2>1, <2>2 DEF OneEntryPerTurn
    <2>4. WrittenByPhase' /\ OwnKind'
      BY <1>2, <1>b, <2>1, <2>2 DEF WrittenByPhase, OwnKind
    <2>5. \A t \in Turns : pc'[t] = "saved" /\ pc[t] # "saved" => Holds("turn", t)'
      BY <1>2, <2>1 DEF Holds
    <2> QED
      BY <2>1, <2>3, <2>4, <2>5
  <1>3. CASE \E t \in Turns : SaveTurn(t)
    <2>1. PICK t \in Turns : SaveTurn(t)
      BY <1>3
    <2> DEFINE e == [kind |-> "turn", turn |-> t, base |-> base[t]]
    <2>2. e \in Entry /\ log' = Append(log, e)
      BY <2>1, TurnsAssumption DEF SaveTurn, Record, TypeOK, Entry, TurnOrNone
    <2>3. pc' = [pc EXCEPT ![t] = "saved"]
      BY <2>1 DEF SaveTurn, Goto
    <2>4. \A i \in DOMAIN log : log[i].turn # t
      BY <2>1 DEF SaveTurn, WrittenByPhase, MayHold
    <2> QED
      BY <1>0, <1>2, <2>2, <2>3, <2>4 DEF MayHold
  <1>4. CASE \E t \in Turns : FailSave(t)
    <2>1. PICK t \in Turns : FailSave(t)
      BY <1>4
    <2> DEFINE e == [kind |-> "failed", turn |-> t, base |-> base[t]]
    <2>2. e \in Entry /\ log' = Append(log, e)
      BY <2>1, TurnsAssumption DEF FailSave, Record, TypeOK, Entry, TurnOrNone
    <2>3. pc' = [pc EXCEPT ![t] = "failSaved"]
      BY <2>1 DEF FailSave, Goto
    <2>4. \A i \in DOMAIN log : log[i].turn # t
      BY <2>1 DEF FailSave, WrittenByPhase, MayHold
    <2> QED
      BY <1>0, <1>2, <2>2, <2>3, <2>4 DEF MayHold
  <1>5. CASE \E kind \in Beside : WriteBeside(kind)
    <2>1. PICK kind \in Beside : WriteBeside(kind)
      BY <1>5
    <2> DEFINE e == [kind |-> kind, turn |-> NoTurn, base |-> Len(log)]
    <2>2. e \in Entry /\ log' = Append(log, e) /\ kind \in {"autonomy", "file"}
      BY <1>0, <2>1, BesideAssumption DEF WriteBeside, Record, Entry, TurnOrNone
    <2>3. UNCHANGED pc
      BY <2>1 DEF WriteBeside
    <2> QED
      BY <1>0, <1>2, <2>2, <2>3, TurnsAssumption
  <1> QED
    BY <1>1, <1>3, <1>4, <1>5 DEF LogMoves

\* An entry that was in the log stays there.
LEMMA HoldsStays ==
  ASSUME \A i \in DOMAIN log : i \in DOMAIN log' /\ log'[i] = log[i],
         NEW kind, NEW t, Holds(kind, t)
  PROVE  Holds(kind, t)'
  BY DEF Holds

\* TurnsInv is inductive.
LEMMA InvStays == TurnsInv /\ [Next]_vars => TurnsInv'
  <1> SUFFICES ASSUME TurnsInv, [Next]_vars PROVE TurnsInv'
    OBVIOUS
  <1>1. CASE UNCHANGED vars
    BY <1>1 DEF vars, TurnsInv, TypeOK, OneEntryPerTurn, AnswersMatchTheLog, WrittenByPhase,
                OwnKind, SavedIsInTheLog, CallsFollowTasks, Holds, Done
  <1>2. CASE Next
    <2>1. TypeOK' /\ PhaseMoves /\ LogMoves /\ CallsFollowTasks'
      BY <1>2, TypesStay, Phases, Logs, Calls DEF TurnsInv
    <2>2. /\ OneEntryPerTurn' /\ WrittenByPhase' /\ OwnKind'
          /\ \A i \in DOMAIN log : i \in DOMAIN log' /\ log'[i] = log[i]
          /\ \A t \in Turns : pc'[t] = "saved" /\ pc[t] # "saved" => Holds("turn", t)'
      BY <2>1, LogStays
    <2>3. SavedIsInTheLog'
      <3> SUFFICES ASSUME NEW t \in Turns, pc'[t] \in {"saved", "returned"}
                   PROVE  Holds("turn", t)'
        BY DEF SavedIsInTheLog
      <3>1. CASE pc[t] \in {"saved", "returned"}
        <4>1. Holds("turn", t)
          BY <3>1 DEF TurnsInv, SavedIsInTheLog
        <4> QED
          BY <2>2, <4>1, HoldsStays
      <3>2. CASE pc[t] \notin {"saved", "returned"}
        BY <2>1, <2>2, <3>2 DEF PhaseMoves
      <3> QED
        BY <3>1, <3>2
    <2>4. AnswersMatchTheLog'
      <3> SUFFICES ASSUME NEW t \in Turns
                   PROVE  /\ call'[t] = "committed" => Holds("turn", t)'
                          /\ call'[t] \in {"failed", "refused"} => ~Holds("turn", t)'
        BY DEF AnswersMatchTheLog
      <3>1. ASSUME call'[t] = "committed" PROVE Holds("turn", t)'
        BY <2>1, <2>3, <3>1 DEF CallsFollowTasks, SavedIsInTheLog
      <3>2. ASSUME call'[t] \in {"failed", "refused"} PROVE ~Holds("turn", t)'
        <4>1. pc'[t] \in {"new", "failed", "conflicted"}
          BY <2>1, <3>2 DEF CallsFollowTasks
        <4>2. "turn" \notin MayHold(pc'[t])
          BY <4>1 DEF MayHold
        <4> QED
          BY <2>2, <4>2 DEF WrittenByPhase, Holds
      <3> QED
        BY <3>1, <3>2
    <2> QED
      BY <2>1, <2>2, <2>3, <2>4 DEF TurnsInv
  <1> QED
    BY <1>1, <1>2

\* The invariant holds before anything runs.
LEMMA InvStarts == Init => TurnsInv
  <1> SUFFICES ASSUME Init PROVE TurnsInv
    OBVIOUS
  <1>1. TypeOK
    BY AttemptsAssumption DEF Init, TypeOK, Phase, TurnOrNone
  <1>2. OneEntryPerTurn /\ WrittenByPhase /\ OwnKind /\ SavedIsInTheLog /\ AnswersMatchTheLog
    BY TurnsAssumption DEF Init, OneEntryPerTurn, WrittenByPhase, OwnKind, SavedIsInTheLog,
                           AnswersMatchTheLog, Holds
  <1>3. CallsFollowTasks
    BY TurnsAssumption DEF Init, CallsFollowTasks
  <1> QED
    BY <1>1, <1>2, <1>3 DEF TurnsInv

\* What the log holds of a turn whose phase stays, stays.
LEMMA OthersStay ==
  ASSUME TurnsInv, LogMoves, NEW t \in Turns, pc'[t] = pc[t],
         \A i \in DOMAIN log : i \in DOMAIN log' /\ log'[i] = log[i],
         NEW kind
  PROVE  Holds(kind, t)' = Holds(kind, t)
  <1>1. \A i \in DOMAIN log' : log'[i].turn = t => i \in DOMAIN log
    <2>1. CASE UNCHANGED log
      BY <2>1
    <2>2. ASSUME NEW u \in TurnOrNone, u # t, NEW k, Record(k, u)
          PROVE  \A i \in DOMAIN log' : log'[i].turn = t => i \in DOMAIN log
      BY <2>2 DEF Record, TurnsInv, TypeOK
    <2>3. \A u \in Turns : SaveTurn(u) \/ FailSave(u) => u # t
      <3> SUFFICES ASSUME SaveTurn(t) \/ FailSave(t) PROVE FALSE
        OBVIOUS
      <3> QED
        BY DEF SaveTurn, FailSave, Goto, TurnsInv, TypeOK
    <2> QED
      BY <2>1, <2>2, <2>3, TurnsAssumption
         DEF LogMoves, SaveTurn, FailSave, WriteBeside, TurnOrNone
  <1>2. \A i \in DOMAIN log' : log'[i].turn = t =>
          i \in DOMAIN log /\ log'[i] = log[i]
    BY <1>1
  <1>3. ASSUME Holds(kind, t)' PROVE Holds(kind, t)
    BY <1>2, <1>3 DEF Holds
  <1>4. ASSUME Holds(kind, t) PROVE Holds(kind, t)'
    BY <1>4, HoldsStays
  <1>5. Holds(kind, t) \in BOOLEAN /\ Holds(kind, t)' \in BOOLEAN
    BY DEF Holds
  <1> QED
    BY <1>3, <1>4, <1>5

(***************************************************************************)
(* The theorems.                                                           *)
(***************************************************************************)

\* The named parts of TurnsInv hold in every state: what the log has of a turn
\* is what the phase of its coroutine and the answer to its caller say it has.
THEOREM TurnsInvariant == Spec => []TurnsInv
  <1> QED
    BY InvStarts, InvStays, PTL DEF Spec

\* Every variable keeps its type, so a turn never loses more saves than
\* with_retry allows it.
THEOREM TurnTypes == Spec => []TypeOK
  <1>1. TurnsInv => TypeOK
    BY DEF TurnsInv
  <1> QED
    BY <1>1, TurnsInvariant, PTL

\* However cancels, timeouts, retries and other processes interleave, a turn
\* is in the log at most once, as its events or as the marker of its failure.
THEOREM TurnsEnterOnce == Spec => []OneEntryPerTurn
  <1>1. TurnsInv => OneEntryPerTurn
    BY DEF TurnsInv
  <1> QED
    BY <1>1, TurnsInvariant, PTL

\* The caller of a turn is told committed only of a turn the log holds, and
\* failed or refused only of one it does not.
THEOREM AnswersAreTrue == Spec => []AnswersMatchTheLog
  <1>1. TurnsInv => AnswersMatchTheLog
    BY DEF TurnsInv
  <1> QED
    BY <1>1, TurnsInvariant, PTL

\* A turn whose task has ended is no longer in a phase that writes, so what the
\* log holds of it after a settled cancel never changes.
THEOREM SettledStaysFinal == Spec => SettledIsFinal
  <1>1. TurnsInv /\ [Next]_vars =>
          [\A t \in settled : \A kind \in {"turn", "failed"} :
             Holds(kind, t)' = Holds(kind, t)]_vars
    <2> SUFFICES ASSUME TurnsInv, Next, NEW t \in settled, NEW kind \in {"turn", "failed"}
                 PROVE  Holds(kind, t)' = Holds(kind, t)
      OBVIOUS
    <2>1. TypeOK' /\ PhaseMoves /\ LogMoves
      BY TypesStay, Phases, Logs DEF TurnsInv
    <2>2. t \in Turns /\ Done(t)
      BY TurnsAssumption DEF TurnsInv, TypeOK, CallsFollowTasks
    <2>3. \A i \in DOMAIN log : i \in DOMAIN log' /\ log'[i] = log[i]
      BY <2>1, LogStays
    <2>4. pc'[t] = pc[t]
      BY <2>1, <2>2 DEF PhaseMoves
    <2> QED
      BY <2>1, <2>2, <2>3, <2>4, OthersStay
  <1> QED
    BY <1>1, TurnsInvariant, PTL DEF Spec, SettledIsFinal

(***************************************************************************)
(* The refinement.                                                         *)
(***************************************************************************)

\* A cancellation moves one turn.
LEMMA InterruptMovesOne ==
  ASSUME TypeOK, NEW t \in Turns, Interrupt(t)
  PROVE  \A u \in Turns : u # t => pc'[u] = pc[u]
  BY DEF TypeOK, Interrupt, End, Goto

\* A step moves the phase of one turn at most.
LEMMA OneMoves ==
  ASSUME TypeOK, Next
  PROVE  \A t, u \in Turns : pc'[t] # pc[t] /\ pc'[u] # pc[u] => t = u
  <1> USE DEF locals, supervisor, TurnOrNone
  <1> DEFINE Only(t) == \A u \in Turns : u # t => pc'[u] = pc[u]
  <1>0. pc \in [Turns -> Phase]
    BY DEF TypeOK
  <1>1. ASSUME NEW t \in Turns, TaskStep(t) PROVE Only(t)
    BY <1>0, <1>1 DEF TaskStep, Load, Prepare, ExecuteOk, ExecuteFails, FailsUnmarked,
                SaveTurn, LoseSave, Recheck, RefuseRebase, Reload, Return,
                FailLoad, FailSave, LoseMarker, FailReturn, End, Goto
  <1>2. ASSUME NEW t \in Turns, RunStep(t) PROVE Only(t)
    <2>1. CASE TimeOut(t)
      BY <2>1, InterruptMovesOne DEF TimeOut
    <2>2. CASE ~TimeOut(t)
      BY <1>0, <1>2, <2>2 DEF RunStep, Admit, Refuse, Register, Report, ReportTimeOut,
                              Disconnect, Goto
    <2> QED
      BY <2>1, <2>2
  <1>3. ASSUME NEW t \in Turns, Elsewhere(t) PROVE Only(t)
    BY <1>0, <1>3 DEF Elsewhere, StartElsewhere, Die, End, Goto
  <1>4. ASSUME NEW k \in Cancellers, CancelStep(k) PROVE UNCHANGED pc \/ Only(running)
    <2>1. CASE Cancel(k)
      BY <2>1, InterruptMovesOne, TurnsAssumption DEF Cancel, IsRunning, TypeOK, TurnOrNone
    <2>2. CASE CancelSettles(k) \/ CancelIsCut(k) \/ CancelTimesOut(k)
      BY <2>2 DEF CancelSettles, CancelIsCut, CancelTimesOut
    <2> QED
      BY <1>4, <2>1, <2>2 DEF CancelStep
  <1>5. ASSUME NEW kind \in Beside, WriteBeside(kind) PROVE UNCHANGED pc
    BY <1>5 DEF WriteBeside
  <1> QED
    BY <1>1, <1>2, <1>3, <1>4, <1>5 DEF Next

\* Each step of the session decides at most one open turn, and a decided one
\* keeps its fate: the session implements the ledger.
THEOREM SessionImplementsLedger == Spec => ImplementsLedger
  <1>1. Init => Ledger!Init
    <2> SUFFICES ASSUME Init PROVE \A t \in Turns : FateOf(t) = "open"
      BY DEF Ledger!Init
    <2>1. DOMAIN log = {} /\ \A t \in Turns : pc[t] = "new"
      BY DEF Init
    <2>2. \A t \in Turns : ~Done(t)
      BY <2>1 DEF Done, Ended
    <2>3. \A t \in Turns : ~Holds("turn", t) /\ ~Holds("failed", t)
      BY <2>1 DEF Holds
    <2> QED
      BY <2>2, <2>3 DEF FateOf
  <1>2. TurnsInv /\ TurnsInv' /\ [Next]_vars
          => [Ledger!Next]_([t \in Turns |-> FateOf(t)])
    <2> SUFFICES ASSUME TurnsInv, TurnsInv', [Next]_vars,
                        [t \in Turns |-> FateOf(t)]' # [t \in Turns |-> FateOf(t)]
                 PROVE  Ledger!Next
      OBVIOUS
    <2>1. CASE UNCHANGED vars
      BY <2>1 DEF vars, FateOf, Holds, Done
    <2>2. CASE Next
      <3>1. PhaseMoves /\ LogMoves
        BY <2>2, Phases, Logs DEF TurnsInv
      <3>2. \A i \in DOMAIN log : i \in DOMAIN log' /\ log'[i] = log[i]
        BY <3>1, LogStays DEF TurnsInv
      <3>3. \A t \in Turns : pc'[t] = pc[t] => FateOf(t)' = FateOf(t)
        <4> SUFFICES ASSUME NEW t \in Turns, pc'[t] = pc[t] PROVE FateOf(t)' = FateOf(t)
          OBVIOUS
        <4>1. Holds("turn", t)' = Holds("turn", t) /\ Holds("failed", t)' = Holds("failed", t)
          BY <3>1, <3>2, OthersStay
        <4>2. Done(t)' = Done(t)
          BY DEF Done
        <4> QED
          BY <4>1, <4>2 DEF FateOf
      <3>4. PICK t \in Turns : FateOf(t)' # FateOf(t)
        OBVIOUS
      <3>5. pc'[t] # pc[t]
        BY <3>3, <3>4
      <3>6. \A u \in Turns : u # t => FateOf(u)' = FateOf(u)
        BY <2>2, <3>3, <3>5, OneMoves DEF TurnsInv
      <3>e. /\ ~(Holds("turn", t) /\ Holds("failed", t))
            /\ ~(Holds("turn", t)' /\ Holds("failed", t)')
        BY DEF TurnsInv, OneEntryPerTurn, Holds
      <3>7. FateOf(t) = "open"
        <4>1. Holds("turn", t) => Holds("turn", t)'
          BY <3>2, HoldsStays
        <4>2. Holds("failed", t) => Holds("failed", t)'
          BY <3>2, HoldsStays
        <4>3. ~Done(t)
          BY <3>1, <3>5 DEF PhaseMoves
        <4> QED
          BY <3>4, <3>e, <4>1, <4>2, <4>3 DEF FateOf
      <3>8. FateOf(t)' \in {"recorded", "marked", "void"}
        BY <3>e, <3>4, <3>7 DEF FateOf
      <3>9. [u \in Turns |-> FateOf(u)]' =
              [[u \in Turns |-> FateOf(u)] EXCEPT ![t] = FateOf(t)']
        BY <3>6
      <3>10. Ledger!Decide(t)
        BY <3>7, <3>8, <3>9 DEF Ledger!Decide
      <3> QED
        BY <3>10 DEF Ledger!Next
    <2> QED
      BY <2>1, <2>2
  <1> QED
    BY <1>1, <1>2, TurnsInvariant, PTL DEF Spec, ImplementsLedger, Ledger!Spec

(***************************************************************************)
(* While nobody changes autonomy, a turn is never built on a log it did    *)
(* not read: what it expects is what it loaded, and a save it has lost is  *)
(* lost for good.                                                          *)
(***************************************************************************)
NoAutonomy == \A i \in DOMAIN log : log[i].kind # "autonomy"

Unsaved == {"preparing", "executing", "saving"}

\* What a turn at these phases knows of the log.
Grounded(t) ==
  /\ pc[t] \in Unsaved => seen[t] = base[t] /\ base[t] <= Len(log)
  /\ pc[t] = "rechecking" => base[t] < Len(log)
  /\ pc[t] # "reloading"

BuiltOn == NoAutonomy => (NoInterleaving /\ \A t \in Turns : Grounded(t))

Kept(t) == pc'[t] = pc[t] /\ base'[t] = base[t] /\ seen'[t] = seen[t]

Away(t) == pc'[t] \notin Unsaved \union {"rechecking", "reloading"}

\* The steps a turn takes between its load and its save; all others leave it
\* where it is or take it away from there.
OnTheWay(t) ==
  \/ Load(t)
  \/ Prepare(t) \/ ExecuteOk(t)
  \/ LoseSave(t) /\ pc'[t] = "rechecking"
  \/ Recheck(t) \/ Reload(t)

\* A coroutine that ends leaves the way to the log, and the others where they were.
LEMMA EndLeaves ==
  ASSUME TypeOK, NEW t \in Turns, NEW phase \in Ended, End(t, phase)
  PROVE  \A u \in Turns : Kept(u) \/ Away(u)
  BY DEF TypeOK, End, Goto, Kept, Away, Ended, Unsaved

\* So does one that goes to a phase off that way.
LEMMA GotoLeaves ==
  ASSUME TypeOK, NEW t \in Turns, NEW phase, Goto(t, phase),
         phase \notin Unsaved \union {"rechecking", "reloading"},
         \A u \in Turns : u # t => base'[u] = base[u] /\ seen'[u] = seen[u]
  PROVE  \A u \in Turns : Kept(u) \/ Away(u)
  BY DEF TypeOK, Goto, Kept, Away

\* A cancellation always takes a turn off the way.
LEMMA InterruptLeaves ==
  ASSUME TypeOK, NEW t \in Turns, Interrupt(t)
  PROVE  \A u \in Turns : Kept(u) \/ Away(u)
  <1> DEFINE phase == Interrupted(pc[t], bare[t])
  <1>1. phase \in {"unwinding", "cancelled"} \union Marking
    BY DEF Interrupted
  <1>2. CASE phase = "cancelled"
    <2>1. End(t, "cancelled")
      BY <1>2 DEF Interrupt
    <2> QED
      BY <2>1, EndLeaves DEF Ended
  <1>3. CASE phase # "cancelled"
    <2>1. Goto(t, phase) /\ UNCHANGED <<base, seen>>
      BY <1>3 DEF Interrupt
    <2>2. phase \notin Unsaved \union {"rechecking", "reloading"}
      BY <1>1 DEF Marking, Unsaved
    <2> HIDE DEF phase
    <2> QED
      BY <2>1, <2>2, GotoLeaves
  <1> QED
    BY <1>2, <1>3

\* Every step leaves a turn alone, takes it off the way, or is one of its own steps on it.
LEMMA Ways ==
  ASSUME TypeOK, Next, NEW u \in Turns
  PROVE  Kept(u) \/ Away(u) \/ (OnTheWay(u) /\ UNCHANGED log)
  <1> USE DEF locals, supervisor
  <1> DEFINE Leaves == \A v \in Turns : Kept(v) \/ Away(v)
  <1>1. ASSUME NEW t \in Turns, TaskStep(t)
        PROVE  Kept(u) \/ Away(u) \/ (OnTheWay(u) /\ UNCHANGED log)
    <2>1. CASE Load(t) \/ Prepare(t) \/ ExecuteOk(t) \/ Recheck(t) \/ Reload(t)
      BY <2>1 DEF TypeOK, Load, Prepare, ExecuteOk, Recheck, Reload, Goto, Kept, OnTheWay
    <2>2. CASE LoseSave(t)
      <3>1. CASE Goto(t, "rechecking") /\ UNCHANGED <<log, base, seen>>
        BY <2>2, <3>1 DEF TypeOK, Goto, Kept, OnTheWay
      <3>2. CASE End(t, GivesUp)
        BY <3>2, EndLeaves DEF GivesUp, Ended
      <3> QED
        BY <2>2, <3>1, <3>2 DEF LoseSave
    <2>3. CASE FailsUnmarked(t) \/ RefuseRebase(t) \/ Return(t) \/ FailReturn(t)
      <3>1. PICK phase \in Ended : End(t, phase)
        BY <2>3 DEF FailsUnmarked, RefuseRebase, Return, FailReturn, Ended
      <3> QED
        BY <3>1, EndLeaves
    <2>4. CASE ExecuteFails(t) \/ SaveTurn(t) \/ FailLoad(t) \/ FailSave(t) \/ LoseMarker(t)
      <3>1. PICK phase \in {"failLoading", "saved", "failSaving", "failSaved"} : Goto(t, phase)
        BY <2>4 DEF ExecuteFails, SaveTurn, FailLoad, FailSave, LoseMarker
      <3>2. \A v \in Turns : v # t => base'[v] = base[v] /\ seen'[v] = seen[v]
        BY <2>4 DEF TypeOK, ExecuteFails, SaveTurn, FailLoad, FailSave, LoseMarker
      <3>3. phase \notin Unsaved \union {"rechecking", "reloading"}
        BY DEF Unsaved
      <3> QED
        BY <3>1, <3>2, <3>3, GotoLeaves
    <2> QED
      BY <1>1, <2>1, <2>2, <2>3, <2>4 DEF TaskStep
  <1>2. ASSUME NEW t \in Turns, RunStep(t) PROVE Leaves
    <2>1. CASE Admit(t) \/ Refuse(t) \/ Report(t) \/ ReportTimeOut(t) \/ Disconnect(t)
      BY <2>1 DEF Admit, Refuse, Report, ReportTimeOut, Disconnect, Kept
    <2>2. CASE Register(t)
      <3>1. Goto(t, "loading") /\ UNCHANGED <<base, seen>>
        BY <2>2 DEF Register
      <3> QED
        BY <3>1, GotoLeaves DEF Unsaved
    <2>3. CASE TimeOut(t)
      BY <2>3, InterruptLeaves DEF TimeOut
    <2> QED
      BY <1>2, <2>1, <2>2, <2>3 DEF RunStep
  <1>3. ASSUME NEW t \in Turns, Elsewhere(t) PROVE Leaves
    <2>1. CASE StartElsewhere(t)
      <3>1. Goto(t, "loading") /\ UNCHANGED <<base, seen>>
        BY <2>1 DEF StartElsewhere
      <3> QED
        BY <3>1, GotoLeaves DEF Unsaved
    <2>2. CASE Die(t)
      BY <2>2, EndLeaves DEF Die, Ended
    <2> QED
      BY <1>3, <2>1, <2>2 DEF Elsewhere
  <1>4. ASSUME NEW k \in Cancellers, CancelStep(k) PROVE Leaves
    <2>1. CASE Cancel(k)
      <3>1. running \in Turns /\ Interrupt(running)
        BY <2>1, TurnsAssumption DEF Cancel, IsRunning, TypeOK, TurnOrNone
      <3> QED
        BY <3>1, InterruptLeaves
    <2>2. CASE CancelSettles(k) \/ CancelIsCut(k) \/ CancelTimesOut(k)
      BY <2>2 DEF CancelSettles, CancelIsCut, CancelTimesOut, Kept
    <2> QED
      BY <1>4, <2>1, <2>2 DEF CancelStep
  <1>5. ASSUME NEW kind \in Beside, WriteBeside(kind) PROVE Leaves
    BY <1>5 DEF WriteBeside, Kept
  <1> QED
    BY <1>1, <1>2, <1>3, <1>4, <1>5 DEF Next

\* A turn on the way keeps knowing what it read: a check it would have to pass after a
\* lost save finds an entry that is no autonomy change.
LEMMA StaysGrounded ==
  ASSUME TypeOK, TypeOK', Next, NoAutonomy, Len(log) <= Len(log'),
         NEW t \in Turns, Grounded(t)
  PROVE  Grounded(t)'
  <1>0. /\ Len(log) \in Nat /\ Len(log') \in Nat /\ base[t] \in Nat
        /\ base'[t] \in Nat /\ DOMAIN log = 1..Len(log)
    BY DEF TypeOK
  <1>1. CASE Kept(t)
    BY <1>0, <1>1 DEF Kept, Grounded
  <1>2. CASE Away(t)
    BY <1>2 DEF Away, Grounded
  <1>3. CASE OnTheWay(t) /\ UNCHANGED log
    <2>1. CASE Load(t)
      BY <1>0, <1>3, <2>1 DEF Load, Goto, TypeOK, Grounded
    <2>2. CASE Prepare(t) \/ ExecuteOk(t)
      BY <1>3, <2>2 DEF Prepare, ExecuteOk, Goto, TypeOK, Grounded, Unsaved, locals
    <2>3. CASE LoseSave(t) /\ pc'[t] = "rechecking"
      <3>1. base[t] < Len(log)
        BY <1>0, <2>3 DEF LoseSave, Grounded, Unsaved
      <3>2. UNCHANGED base
        BY <2>3 DEF LoseSave, End, Goto, GivesUp, TypeOK
      <3> QED
        BY <1>3, <2>3, <3>1, <3>2 DEF Grounded, Unsaved
    <2>4. CASE Recheck(t)
      <3>1. base[t] < Len(log) /\ \A i \in (base[t] + 1)..Len(log) : log[i].kind = "autonomy"
        BY <2>4 DEF Recheck, Rebasable, Grounded
      <3>2. Len(log) \in (base[t] + 1)..Len(log) /\ Len(log) \in DOMAIN log
        BY <1>0, <3>1
      <3> QED
        BY <3>1, <3>2 DEF NoAutonomy
    <2>5. CASE Reload(t)
      BY <2>5 DEF Reload, Grounded
    <2> QED
      BY <1>3, <2>1, <2>2, <2>3, <2>4, <2>5 DEF OnTheWay
  <1> QED
    BY <1>1, <1>2, <1>3, Ways

\* BuiltOn is inductive, given TurnsInv.
LEMMA BuiltOnStep == TurnsInv /\ BuiltOn /\ [Next]_vars => BuiltOn'
  <1> SUFFICES ASSUME TurnsInv, BuiltOn, [Next]_vars, NoAutonomy'
               PROVE  NoInterleaving' /\ \A t \in Turns : Grounded(t)'
    BY DEF BuiltOn
  <1>1. CASE UNCHANGED vars
    BY <1>1 DEF vars, BuiltOn, NoAutonomy, NoInterleaving, Grounded
  <1>2. CASE Next
    <2>1. TypeOK /\ TypeOK' /\ LogMoves /\ PhaseMoves
      BY <1>2, TypesStay, Logs, Phases DEF TurnsInv
    <2>2. \A i \in DOMAIN log : i \in DOMAIN log' /\ log'[i] = log[i]
      BY <2>1, LogStays
    <2>3. /\ Len(log) \in Nat /\ Len(log') \in Nat
          /\ DOMAIN log = 1..Len(log) /\ DOMAIN log' = 1..Len(log')
      BY <2>1 DEF TypeOK
    <2>4. Len(log) <= Len(log')
      <3>1. CASE Len(log) = 0
        BY <2>3, <3>1
      <3>2. CASE Len(log) # 0
        <4>1. Len(log) \in DOMAIN log
          BY <2>3, <3>2
        <4> QED
          BY <2>2, <2>3, <4>1
      <3> QED
        BY <3>1, <3>2
    <2>5. NoAutonomy
      BY <2>2 DEF NoAutonomy
    <2>6. NoInterleaving /\ \A t \in Turns : Grounded(t)
      BY <2>5 DEF BuiltOn
    <2>7. \A t \in Turns : Grounded(t)'
      BY <1>2, <2>1, <2>4, <2>5, <2>6, StaysGrounded
    <2>8. \A i \in DOMAIN log : log[i].kind = "turn" => log[i].base + 1 = i
      BY <2>5, <2>6 DEF NoInterleaving, NoAutonomy
    <2>9. ASSUME NEW e, log' = Append(log, e), e.kind = "turn" => e.base = Len(log)
          PROVE  \A i \in DOMAIN log' : log'[i].kind = "turn" => log'[i].base + 1 = i
      <3>1. /\ DOMAIN log' = 1..(Len(log) + 1) /\ log'[Len(log) + 1] = e
            /\ \A i \in 1..Len(log) : log'[i] = log[i]
        BY <2>1, <2>9 DEF TypeOK
      <3> QED
        BY <2>3, <2>8, <2>9, <3>1
    <2>10. \A i \in DOMAIN log' : log'[i].kind = "turn" => log'[i].base + 1 = i
      <3>1. CASE UNCHANGED log
        BY <2>8, <3>1
      <3>2. ASSUME NEW t \in Turns, SaveTurn(t) 
            PROVE  \A i \in DOMAIN log' : log'[i].kind = "turn" => log'[i].base + 1 = i
        <4>1. seen[t] = Len(log) /\ seen[t] = base[t]
          BY <2>6, <3>2 DEF SaveTurn, Grounded, Unsaved
        <4> QED
          BY <2>9, <3>2, <4>1, TurnsAssumption DEF SaveTurn, Record
      <3>3. ASSUME NEW t \in Turns, FailSave(t) 
            PROVE  \A i \in DOMAIN log' : log'[i].kind = "turn" => log'[i].base + 1 = i
        BY <2>9, <3>3, TurnsAssumption DEF FailSave, Record
      <3>4. ASSUME NEW kind \in Beside, WriteBeside(kind) 
            PROVE  \A i \in DOMAIN log' : log'[i].kind = "turn" => log'[i].base + 1 = i
        BY <2>9, <3>4, BesideAssumption DEF WriteBeside, Record
      <3> QED
        BY <2>1, <3>1, <3>2, <3>3, <3>4 DEF LogMoves
    <2> QED
      BY <2>7, <2>10 DEF NoInterleaving
  <1> QED
    BY <1>1, <1>2

\* Whatever cancels, retries and other processes do, a turn stands in the log
\* right behind what it read, while nobody changes autonomy (refuse_unrebasable).
THEOREM TurnsAnswerInOrder == Spec => []NoInterleaving
  <1>1. Init => BuiltOn
    BY DEF Init, BuiltOn, NoInterleaving, Grounded, Unsaved
  <1>2. BuiltOn => NoInterleaving
    BY DEF BuiltOn, NoInterleaving, NoAutonomy
  <1> QED
    BY <1>1, <1>2, BuiltOnStep, TurnsInvariant, PTL DEF Spec

(***************************************************************************)
(* What is left of a turn.  Who holds the session's slot is at an await,   *)
(* and there are only so many of those before its end.                     *)
(***************************************************************************)
HolderIsAtWork == IsRunning => running \in Turns /\ Live(running)

\* The saves a turn may still lose, each worth the three awaits of another try.
RetriesLeft(t) == 3 * (MaxAttempts - tries[t])

\* The awaits before a turn's end, those of its retries with them.
ToGo(t) ==
  CASE pc[t] = "new"         -> RetriesLeft(t) + 8
    [] pc[t] = "loading"     -> RetriesLeft(t) + 7
    [] pc[t] = "preparing"   -> RetriesLeft(t) + 6
    [] pc[t] = "executing"   -> RetriesLeft(t) + 5
    [] pc[t] = "rechecking"  -> RetriesLeft(t) + 4
    [] pc[t] = "reloading"   -> RetriesLeft(t) + 3
    [] pc[t] = "saving"      -> RetriesLeft(t) + 2
    [] pc[t] = "unwinding"   -> 4
    [] pc[t] = "failLoading" -> 3
    [] pc[t] = "failSaving"  -> 2
    [] pc[t] \in {"failSaved", "saved"} -> 1
    [] OTHER -> 0

\* Each step of its task brings a turn nearer to its end; and no cancel, no
\* timeout, no other turn and no other writer of the log sets it back.
TurnsComeCloser ==
  [][\A t \in Turns :
       /\ TaskStep(t) => ToGo(t)' < ToGo(t)
       /\ ToGo(t)' <= ToGo(t)]_vars

\* What is left is a number, and a turn with nothing left has ended.
ToGoIsANumber == \A t \in Turns : ToGo(t) \in Nat /\ (Live(t) => ToGo(t) > 0)

\* It is read off the turn's phase and its lost saves.
LEMMA ToGoIsLocal ==
  ASSUME NEW t, UNCHANGED <<pc[t], tries[t]>>
  PROVE  ToGo(t)' = ToGo(t)
  BY DEF ToGo, RetriesLeft

LEMMA ToGoCounts == TypeOK => ToGoIsANumber
  <1> SUFFICES ASSUME TypeOK, NEW t \in Turns
               PROVE  ToGo(t) \in Nat /\ (Live(t) => ToGo(t) > 0)
    BY DEF ToGoIsANumber
  <1>1. /\ pc[t] \in Phase /\ RetriesLeft(t) \in Nat
    BY AttemptsAssumption DEF TypeOK, RetriesLeft
  <1> QED
    BY <1>1 DEF ToGo, Live, Ended, Phase, Marking

LEMMA ToGoCountsThen == TypeOK' => ToGoIsANumber'
  BY ToGoCounts, PTL

\* A coroutine that is over has nothing left.
LEMMA EndIsTheEnd ==
  ASSUME TypeOK, NEW t \in Turns, NEW phase \in Ended, End(t, phase)
  PROVE  ToGo(t)' = 0 /\ \A u \in Turns \ {t} : UNCHANGED <<pc[u], tries[u]>>
  BY DEF TypeOK, End, Goto, ToGo, Ended

\* A step of a turn's task takes one await, or at a lost save goes back over
\* the three that the try it has lost is worth.
LEMMA TaskComesCloser ==
  ASSUME TypeOK, NEW t \in Turns, TaskStep(t)
  PROVE  ToGo(t)' < ToGo(t) /\ \A u \in Turns \ {t} : UNCHANGED <<pc[u], tries[u]>>
  <1>0. /\ pc \in [Turns -> Phase] /\ tries \in [Turns -> 0..MaxAttempts]
        /\ ToGo(t) \in Nat /\ (Live(t) => ToGo(t) > 0)
    BY ToGoCounts DEF TypeOK, ToGoIsANumber
  <1>1. ASSUME NEW phase \in Ended, End(t, phase), Live(t)
        PROVE  ToGo(t)' < ToGo(t) /\ \A u \in Turns \ {t} : UNCHANGED <<pc[u], tries[u]>>
    BY <1>0, <1>1, EndIsTheEnd
  <1>2. CASE FailsUnmarked(t) \/ RefuseRebase(t) \/ Return(t) \/ FailReturn(t)
    BY <1>1, <1>2 DEF FailsUnmarked, RefuseRebase, Return, FailReturn, Live, Ended
  <1>3. CASE LoseSave(t)
    <2>1. CASE tries[t] + 1 < MaxAttempts
      <3>1. /\ pc[t] = "saving" /\ pc' = [pc EXCEPT ![t] = "rechecking"]
            /\ tries' = [tries EXCEPT ![t] = @ + 1]
        BY <1>3, <2>1 DEF LoseSave, Goto
      <3>2. RetriesLeft(t)' = RetriesLeft(t) - 3 /\ RetriesLeft(t) \in Int
        BY <1>0, <3>1, AttemptsAssumption DEF RetriesLeft
      <3> QED
        BY <1>0, <3>1, <3>2 DEF ToGo
    <2>2. CASE ~(tries[t] + 1 < MaxAttempts)
      BY <1>1, <1>3, <2>2 DEF LoseSave, GivesUp, Live, Ended
    <2> QED
      BY <2>1, <2>2
  <1>4. CASE \/ Load(t) \/ Prepare(t) \/ ExecuteOk(t) \/ ExecuteFails(t) \/ SaveTurn(t)
             \/ Recheck(t) \/ Reload(t) \/ FailLoad(t) \/ FailSave(t) \/ LoseMarker(t)
    <2>1. /\ tries' = tries /\ RetriesLeft(t)' = RetriesLeft(t) /\ RetriesLeft(t) \in Nat
      BY <1>0, <1>4, AttemptsAssumption
         DEF Load, Prepare, ExecuteOk, ExecuteFails, SaveTurn, Recheck, Reload, FailLoad,
             FailSave, LoseMarker, locals, RetriesLeft
    <2>2. \/ pc[t] = "loading" /\ pc' = [pc EXCEPT ![t] = "preparing"]
          \/ pc[t] = "preparing" /\ pc' = [pc EXCEPT ![t] = "executing"]
          \/ pc[t] = "executing" /\ pc' = [pc EXCEPT ![t] = "saving"]
          \/ pc[t] \in {"executing", "unwinding"} /\ pc' = [pc EXCEPT ![t] = "failLoading"]
          \/ pc[t] = "saving" /\ pc' = [pc EXCEPT ![t] = "saved"]
          \/ pc[t] = "rechecking" /\ pc' = [pc EXCEPT ![t] = "reloading"]
          \/ pc[t] = "reloading" /\ pc' = [pc EXCEPT ![t] = "saving"]
          \/ pc[t] = "failLoading" /\ pc' = [pc EXCEPT ![t] = "failSaving"]
          \/ pc[t] \in {"failLoading", "failSaving"} /\ pc' = [pc EXCEPT ![t] = "failSaved"]
      BY <1>4 DEF Load, Prepare, ExecuteOk, ExecuteFails, SaveTurn, Recheck, Reload,
                  FailLoad, FailSave, LoseMarker, Goto
    <2>3. \A u \in Turns \ {t} : UNCHANGED <<pc[u], tries[u]>>
      BY <1>0, <2>1, <2>2
    <2>4. ToGo(t)' < ToGo(t)
      BY <1>0, <2>1, <2>2 DEF ToGo
    <2> QED
      BY <2>3, <2>4
  <1> QED
    BY <1>2, <1>3, <1>4 DEF TaskStep

\* A cancellation ends a turn, or sends it to an await nearer to its end.
LEMMA InterruptSetsNobodyBack ==
  ASSUME TypeOK, NEW t \in Turns, Interrupt(t), Live(t)
  PROVE  \A u \in Turns : ToGo(u)' <= ToGo(u)
  <1> DEFINE phase == Interrupted(pc[t], bare[t])
  <1>0. /\ pc \in [Turns -> Phase] /\ tries \in [Turns -> 0..MaxAttempts]
        /\ \A u \in Turns : ToGo(u) \in Nat
    BY ToGoCounts DEF TypeOK, ToGoIsANumber
  <1>1. CASE phase = "cancelled"
    <2>1. End(t, "cancelled")
      BY <1>1 DEF Interrupt
    <2>2. ToGo(t)' = 0 /\ \A u \in Turns \ {t} : UNCHANGED <<pc[u], tries[u]>>
      BY <2>1, EndIsTheEnd DEF Ended
    <2>3. \A u \in Turns \ {t} : ToGo(u)' = ToGo(u)
      BY <2>2, ToGoIsLocal
    <2> QED
      BY <1>0, <2>2, <2>3
  <1>2. CASE phase # "cancelled"
    <2>1. pc' = [pc EXCEPT ![t] = phase] /\ tries' = tries
      BY <1>2 DEF Interrupt, Goto
    <2>2. \A u \in Turns \ {t} : ToGo(u)' = ToGo(u)
      BY <1>0, <2>1, ToGoIsLocal
    <2>3. (pc[t] \in {"executing", "unwinding"} /\ phase = "unwinding") \/ phase = pc[t]
      BY <1>2 DEF Interrupted
    <2>4. RetriesLeft(t) \in Nat
      BY <1>0, AttemptsAssumption DEF RetriesLeft
    <2>5. ToGo(t)' <= ToGo(t)
      <3>1. CASE phase = pc[t]
        BY <1>0, <2>1, <3>1, ToGoIsLocal
      <3>2. CASE pc[t] \in {"executing", "unwinding"} /\ phase = "unwinding"
        BY <1>0, <2>1, <2>4, <3>2 DEF ToGo
      <3> QED
        BY <2>3, <3>1, <3>2
    <2> QED
      BY <1>0, <2>2, <2>5
  <1> QED
    BY <1>1, <1>2

\* The slot of a session is held by a turn that is at work, and the awaits of
\* every turn run out, however often it loses its save and whoever cancels it
\* (run_turn, with_retry, TurnSupervisor.run and cancel): nothing but the store
\* and the model client can keep a session's slot.
THEOREM TurnsRunOut == Spec => [](HolderIsAtWork /\ ToGoIsANumber) /\ TurnsComeCloser
  <1>1. TurnsInv => HolderIsAtWork /\ ToGoIsANumber
    BY ToGoCounts, TurnsAssumption
       DEF TurnsInv, CallsFollowTasks, HolderIsAtWork, IsRunning, Live, Done, TypeOK, TurnOrNone
  <1>2. ASSUME TurnsInv, [Next]_vars, NEW t \in Turns
        PROVE  /\ TaskStep(t) => ToGo(t)' < ToGo(t)
               /\ ToGo(t)' <= ToGo(t)
    <2>0. /\ TypeOK /\ CallsFollowTasks
          /\ pc \in [Turns -> Phase] /\ tries \in [Turns -> 0..MaxAttempts]
          /\ \A u \in Turns : ToGo(u) \in Nat
      BY <1>2, ToGoCounts DEF TurnsInv, TypeOK, ToGoIsANumber
    <2>1. ASSUME NEW u \in Turns, TaskStep(u) PROVE ToGo(t)' <= ToGo(t)
      <3>1. ToGo(u)' < ToGo(u) /\ \A v \in Turns \ {u} : UNCHANGED <<pc[v], tries[v]>>
        BY <2>0, <2>1, TaskComesCloser
      <3>2. t # u => ToGo(t)' = ToGo(t)
        BY <3>1, ToGoIsLocal
      <3>3. t = u => ToGo(t)' <= ToGo(t)
        <4>1. ToGo(u)' \in Nat
          BY <1>2, TypesStay, ToGoCountsThen DEF TurnsInv, ToGoIsANumber
        <4> QED
          BY <2>0, <3>1, <4>1
      <3> QED
        BY <2>0, <3>2, <3>3
    <2>2. ASSUME NEW u \in Turns, RunStep(u) PROVE ToGo(t)' <= ToGo(t)
      <3>1. CASE Register(u)
        <4>1. pc[u] = "new" /\ pc' = [pc EXCEPT ![u] = "loading"] /\ tries' = tries
          BY <2>0, <3>1 DEF Register, Goto, CallsFollowTasks, locals
        <4>2. RetriesLeft(u) \in Nat
          BY <2>0, AttemptsAssumption DEF RetriesLeft
        <4>3. ToGo(u)' <= ToGo(u)
          BY <2>0, <4>1, <4>2 DEF ToGo, RetriesLeft
        <4> QED
          BY <2>0, <4>1, <4>3, ToGoIsLocal
      <3>2. CASE TimeOut(u)
        BY <2>0, <3>2, InterruptSetsNobodyBack DEF TimeOut, CallsFollowTasks, Live, Done
      <3>3. CASE Admit(u) \/ Refuse(u) \/ Report(u) \/ ReportTimeOut(u) \/ Disconnect(u)
        <4>1. pc' = pc /\ tries' = tries
          BY <3>3 DEF Admit, Refuse, Report, ReportTimeOut, Disconnect, locals
        <4> QED
          BY <2>0, <4>1, ToGoIsLocal
      <3> QED
        BY <2>2, <3>1, <3>2, <3>3 DEF RunStep
    <2>3. ASSUME NEW u \in Turns, Elsewhere(u) PROVE ToGo(t)' <= ToGo(t)
      <3>1. CASE StartElsewhere(u)
        <4>1. pc[u] = "new" /\ pc' = [pc EXCEPT ![u] = "loading"] /\ tries' = tries
          BY <2>0, <3>1 DEF StartElsewhere, Goto, CallsFollowTasks, locals
        <4>2. RetriesLeft(u) \in Nat
          BY <2>0, AttemptsAssumption DEF RetriesLeft
        <4>3. ToGo(u)' <= ToGo(u)
          BY <2>0, <4>1, <4>2 DEF ToGo, RetriesLeft
        <4> QED
          BY <2>0, <4>1, <4>3, ToGoIsLocal
      <3>2. CASE Die(u)
        <4>1. End(u, "cancelled")
          BY <3>2 DEF Die
        <4> QED
          BY <2>0, <4>1, EndIsTheEnd, ToGoIsLocal DEF Ended
      <3> QED
        BY <2>3, <3>1, <3>2 DEF Elsewhere
    <2>4. ASSUME NEW k \in Cancellers, CancelStep(k) PROVE ToGo(t)' <= ToGo(t)
      <3>1. CASE Cancel(k)
        <4>1. running \in Turns /\ Live(running) /\ Interrupt(running)
          BY <1>1, <1>2, <3>1 DEF Cancel, HolderIsAtWork
        <4> QED
          BY <2>0, <4>1, InterruptSetsNobodyBack
      <3>2. CASE CancelSettles(k) \/ CancelIsCut(k) \/ CancelTimesOut(k)
        <4>1. pc' = pc /\ tries' = tries
          BY <3>2 DEF CancelSettles, CancelIsCut, CancelTimesOut, locals
        <4> QED
          BY <2>0, <4>1, ToGoIsLocal
      <3> QED
        BY <2>4, <3>1, <3>2 DEF CancelStep
    <2>5. ASSUME UNCHANGED <<pc, tries>> PROVE ToGo(t)' <= ToGo(t)
      BY <2>0, <2>5, ToGoIsLocal
    <2>6. ToGo(t)' <= ToGo(t)
      BY <1>2, <2>1, <2>2, <2>3, <2>4, <2>5 DEF Next, WriteBeside, vars, locals
    <2> QED
      BY <2>0, <2>6, TaskComesCloser
  <1>3. TurnsInv /\ [Next]_vars
          => [\A t \in Turns :
                /\ TaskStep(t) => ToGo(t)' < ToGo(t)
                /\ ToGo(t)' <= ToGo(t)]_vars
    BY <1>2
  <1> QED
    BY <1>1, <1>3, TurnsInvariant, PTL DEF Spec, TurnsComeCloser

(***************************************************************************)
(* ProjectionRunner: the strengthening.                                    *)
(***************************************************************************)
\* The start of the process is over before a rebuild is asked for.
BootIsAlone ==
  /\ at["boot"] \in {"idle", "checking", "opening", "following"}
  /\ at["boot"] # "idle" => \A r \in Rebuilders : at[r] = "idle"

\* Whoever is rebuilding or starting has the runner to itself.
PlacesHold ==
  \A r \in Starters :
    /\ at[r] # "idle" => \A f \in Followers : ~Running(f)
    /\ at[r] \in {"listing", "resolving", "resetting"} => runner.store # Nothing
    /\ at[r] \in {"closing", "checking", "opening"} => runner.manager = Nothing
    /\ at[r] = "following" =>
         /\ runner.manager \in Followers /\ runner.store = runner.manager
         /\ follower[runner.manager].open

\* Who follows is the runner's, at its checkpoint; who has applied follows.
FollowersHold ==
  \A f \in Followers :
    /\ Running(f) => /\ runner.manager = f /\ runner.store = f /\ follower[f].open
                     /\ follower[f].position = checkpoint
    /\ follower[f].applied => Running(f) /\ checkpoint < Len(events)

RunnerIInv == RunnerTypes /\ BootIsAlone /\ PlacesHold /\ FollowersHold

\* A session's events begin with its start, and have no other.
StartsAreFirst ==
  \A i \in DOMAIN events :
    IF events[i].kind = "started"
      THEN \A j \in 1..(i - 1) : events[j].of # events[i].of
      ELSE \E j \in 1..(i - 1) : events[j] = [of |-> events[i].of, kind |-> "started"]

\* Nothing of a session is filed as failed.
Sound(s) == \A i \in filed : events[i].of # s

Applied == \E f \in Followers : follower[f].applied

\* The row of such a session is derived up to the checkpoint; or one event
\* further, if that is applied, or a crash forgot that it was.
RowFollows(s) ==
  \/ ~Applied /\ table[s] = Derived(events, s, checkpoint)
  \/ /\ checkpoint < Len(events) /\ table[s] = Derived(events, s, checkpoint + 1)
     /\ Applied \/ events[checkpoint + 1].kind # "failure"

RowsFollow ==
  /\ \A s \in Sessions \ dirty : Sound(s) => RowFollows(s)
  /\ \A r \in Starters : at[r] = "resetting" =>
       dirty = Sessions /\ \A s \in Sessions : table[s] = Nothing

RowIInv == RunnerIInv /\ StartsAreFirst /\ RowsFollow

(***************************************************************************)
(* Types.                                                                  *)
(***************************************************************************)
SessionRows == [turns : Nat, failed : Nat]

Subscriptions(n) ==
  [running : BOOLEAN, open : BOOLEAN, applied : BOOLEAN, position : 0..n, made : BOOLEAN]

\* The types, in the names of this module.
LEMMA RunnerTyped ==
  RunnerTypes <=>
    /\ events \in Seq(Event) /\ Len(events) <= MaxEvents
    /\ table \in [Sessions -> {Nothing} \union SessionRows]
    /\ checkpoint \in 0..Len(events) /\ filed \subseteq DOMAIN events
    /\ runner \in [manager : Followers \union {Nothing}, store : Followers \union {Nothing}]
    /\ follower \in [Followers -> Subscriptions(Len(events))]
    /\ at \in [Starters -> Places]
    /\ left \in [Starters -> SUBSET DOMAIN events]
    /\ dirty \subseteq Sessions /\ broken \in BOOLEAN
    /\ lapses \in 0..MaxLapses /\ rebuilds \in 0..MaxRebuilds /\ faults \in 0..MaxFaults
  BY DEF RunnerTypes, SessionRows, Subscriptions

\* A handler that finds its row, or makes it, leaves a row.
LEMMA HandleTyped ==
  ASSUME NEW event \in Event, NEW row \in {Nothing} \union SessionRows,
         event.kind = "started" \/ row # Nothing
  PROVE  Handle(row, event) \in SessionRows
  <1>1. event.kind \in {"started", "turn", "failure"}
    BY DEF Event
  <1>2. CASE event.kind = "started"
    BY <1>2 DEF Handle, SessionRows
  <1>3. CASE event.kind = "turn"
    <2>1. row \in SessionRows /\ Handle(row, event) = [row EXCEPT !.turns = 1]
      BY <1>3 DEF Handle
    <2> QED
      BY <2>1 DEF SessionRows
  <1>4. CASE event.kind = "failure"
    <2>1. row \in SessionRows /\ Handle(row, event) = [row EXCEPT !.failed = @ + 1]
      BY <1>4 DEF Handle
    <2> QED
      BY <2>1 DEF SessionRows
  <1> QED
    BY <1>1, <1>2, <1>3, <1>4

\* The log takes an event, and nothing else moves.
LEMMA ExtendTypes ==
  ASSUME RunnerTypes, NEW s \in Sessions, NEW kind \in {"started", "turn", "failure"}, Extend(s, kind)
  PROVE  /\ RunnerTypes'
         /\ Len(events') = Len(events) + 1 /\ Len(events) \in Nat
         /\ \A i \in DOMAIN events : events'[i] = events[i]
         /\ events'[Len(events) + 1] = [of |-> s, kind |-> kind]
  <1>1. /\ events \in Seq(Event) /\ Len(events) \in Nat /\ Len(events) < MaxEvents /\ MaxEvents \in Nat
        /\ events' = Append(events, [of |-> s, kind |-> kind])
        /\ [of |-> s, kind |-> kind] \in Event
    BY BoundsAssumption, RunnerTyped DEF Extend, Event
  <1>2. /\ events' \in Seq(Event) /\ Len(events') = Len(events) + 1
        /\ \A i \in DOMAIN events : events'[i] = events[i]
        /\ events'[Len(events) + 1] = [of |-> s, kind |-> kind]
        /\ DOMAIN events \subseteq DOMAIN events'
    BY <1>1
  <1>3. 0..Len(events) \subseteq 0..Len(events') /\ Len(events') <= MaxEvents
    BY <1>1, <1>2
  <1>4. Subscriptions(Len(events)) \subseteq Subscriptions(Len(events'))
    BY <1>3 DEF Subscriptions
  <1>5. RunnerTypes'
    BY <1>2, <1>3, <1>4 DEF Extend, storeVars, boundVars, RunnerTypes, Subscriptions
  <1> QED
    BY <1>1, <1>2, <1>5

\* One subscription serves its next event.
LEMMA ServeTypes ==
  ASSUME RunnerTypes, FollowersHold, NEW f \in Followers, Serve(f)
  PROVE  RunnerTypes'
  <1>1. /\ events \in Seq(Event) /\ table \in [Sessions -> {Nothing} \union SessionRows]
        /\ follower \in [Followers -> Subscriptions(Len(events))] /\ Len(events) \in Nat
        /\ follower[f].position \in 0..Len(events) /\ checkpoint \in 0..Len(events)
    BY RunnerTyped DEF Subscriptions
  <1>2. CASE Apply(f)
    <2> DEFINE event == events[Next1(f)]
    <2>0. event \in Event
      BY <1>1, <1>2 DEF Apply, Due
    <2>1. event \in Event /\ event.of \in Sessions
      BY <2>0 DEF Event
    <2>2. table[event.of] \in {Nothing} \union SessionRows /\ (event.kind = "started" \/ table[event.of] # Nothing)
      BY <1>1, <1>2, <2>1 DEF Apply, Works
    <2>3. Handle(table[event.of], event) \in SessionRows
      BY <2>1, <2>2, HandleTyped
    <2>4. table' = [table EXCEPT ![event.of] = Handle(table[event.of], event)]
      BY <1>2 DEF Apply
    <2>5. table' \in [Sessions -> {Nothing} \union SessionRows]
      BY <1>1, <2>3, <2>4
    <2>6. follower' \in [Followers -> Subscriptions(Len(events))]
      BY <1>1, <1>2 DEF Apply, Subscriptions
    <2> QED
      BY <1>2, <2>5, <2>6 DEF Apply, boundVars, RunnerTypes, Subscriptions, SessionRows
  <1>3. CASE File(f)
    <2>1. Next1(f) \in DOMAIN events /\ lapses' \in 0..MaxLapses
      BY <1>3, BoundsAssumption DEF File, Due, RunnerTypes
    <2>2. follower' \in [Followers -> Subscriptions(Len(events))]
      BY <1>1, <1>3 DEF File, Subscriptions
    <2> QED
      BY <1>3, <2>1, <2>2 DEF File, RunnerTypes, Subscriptions
  <1>4. CASE Checkpoint(f)
    <2>1. Next1(f) \in 0..Len(events)
      BY <1>1, <1>4 DEF Checkpoint, FollowersHold, Next1
    <2>2. follower' \in [Followers -> Subscriptions(Len(events))]
      BY <1>1, <1>4, <2>1 DEF Checkpoint, Subscriptions
    <2> QED
      BY <1>4, <2>1, <2>2 DEF Checkpoint, boundVars, RunnerTypes, Subscriptions
  <1> QED
    BY <1>2, <1>3, <1>4 DEF Serve

\* A rebuild or a start moves on, a rebuild begins, the process goes down.
LEMMA WorkTypes ==
  ASSUME RunnerTypes,
         (\E r \in Starters : Work(r)) \/ (\E r \in Rebuilders : Rebuild(r) \/ Raise(r)) \/ Crash
  PROVE  RunnerTypes'
  <1>1. /\ follower \in [Followers -> Subscriptions(Len(events))] /\ Len(events) \in Nat /\ 0 \in 0..Len(events)
        /\ checkpoint \in 0..Len(events) /\ events \in Seq(Event)
        /\ runner \in [manager : Followers \union {Nothing}, store : Followers \union {Nothing}]
        /\ at \in [Starters -> Places] /\ Rebuilders \subseteq Starters /\ "boot" \in Starters
        /\ left \in [Starters -> SUBSET DOMAIN events] /\ filed \subseteq DOMAIN events
    BY RunnerTyped DEF Starters
  <1>2. Fresh \in Subscriptions(Len(events))
    BY <1>1 DEF Fresh, Subscriptions
  <1>3. ASSUME NEW r \in Starters, Work(r) PROVE RunnerTypes'
    <2>1. at' \in [Starters -> Places]
      BY <1>1, <1>3 DEF Work, List, Resolve, Truncate, Reset, Close, Check, Open, Follow, Proceed, Places
    <2>2. CASE Truncate(r) \/ Reset(r) \/ Check(r)
      BY <1>1, <2>1, <2>2 DEF Truncate, Reset, Check, RunnerTypes, storeVars, boundVars
    <2>6. CASE List(r)
      <3>1. left' \in [Starters -> SUBSET DOMAIN events]
        BY <1>1, <2>6 DEF List
      <3> QED
        BY <1>1, <2>1, <2>6, <3>1 DEF List, RunnerTypes, storeVars, boundVars
    <2>7. CASE Resolve(r)
      <3>1. PICK i \in left[r] : /\ left' = [left EXCEPT ![r] = left[r] \ {i}] /\ filed' = filed \ {i}
                                 /\ dirty' = dirty \union {events[i].of}
        BY <2>7 DEF Resolve
      <3>2. events[i] \in Event
        BY <1>1
      <3>3. left' \in [Starters -> SUBSET DOMAIN events] /\ filed' \subseteq DOMAIN events
        BY <1>1, <3>1
      <3>4. dirty' \subseteq Sessions
        BY <3>1, <3>2 DEF Event, RunnerTypes
      <3> QED
        BY <1>1, <2>1, <2>7, <3>3, <3>4 DEF Resolve, RunnerTypes, boundVars
    <2>3. CASE Close(r)
      <3>1. \A f \in Followers : [follower[f] EXCEPT !.open = FALSE] \in Subscriptions(Len(events))
        BY <1>1 DEF Subscriptions
      <3>2. follower' \in [Followers -> Subscriptions(Len(events))]
        BY <1>1, <2>3, <3>1 DEF Close
      <3> QED
        BY <1>1, <2>1, <2>3, <3>2 DEF Close, RunnerTypes, storeVars, boundVars, Subscriptions
    <2>4. CASE Open(r)
      <3>1. [Fresh EXCEPT !.made = TRUE, !.open = TRUE] \in Subscriptions(Len(events))
        BY <1>2 DEF Subscriptions
      <3>2. follower' \in [Followers -> Subscriptions(Len(events))]
        BY <1>1, <2>4, <3>1 DEF Open
      <3> QED
        BY <1>1, <2>1, <2>4, <3>2 DEF Open, RunnerTypes, storeVars, boundVars, Subscriptions
    <2>5. CASE Follow(r)
      <3>1. \A f \in Followers :
              [follower[f] EXCEPT !.running = TRUE, !.position = checkpoint] \in Subscriptions(Len(events))
        BY <1>1 DEF Subscriptions
      <3>2. follower' \in [Followers -> Subscriptions(Len(events))]
        BY <1>1, <2>5, <3>1 DEF Follow
      <3> QED
        BY <1>1, <2>1, <2>5, <3>2 DEF Follow, RunnerTypes, storeVars, boundVars, Subscriptions
    <2> QED
      BY <1>3, <2>2, <2>3, <2>4, <2>5, <2>6, <2>7 DEF Work
  <1>4. ASSUME NEW r \in Rebuilders, Rebuild(r) PROVE RunnerTypes'
    <2>1. at' \in [Starters -> Places]
      BY <1>1, <1>4 DEF Rebuild, Proceed, Places
    <2>2. rebuilds' \in 0..MaxRebuilds
      BY <1>4, BoundsAssumption DEF Rebuild, RunnerTypes
    <2>3. follower' \in [Followers -> Subscriptions(Len(events))]
      BY <1>1, <1>4 DEF Rebuild, Subscriptions
    <2> QED
      BY <1>4, <2>1, <2>2, <2>3 DEF Rebuild, RunnerTypes, storeVars, Subscriptions
  <1>6. ASSUME NEW r \in Rebuilders, Raise(r) PROVE RunnerTypes'
    <2>1. at' \in [Starters -> Places] /\ left' \in [Starters -> SUBSET DOMAIN events]
      BY <1>1, <1>6 DEF Raise, Proceed, Places
    <2>2. faults' \in 0..MaxFaults
      BY <1>6, BoundsAssumption DEF Raise, RunnerTypes
    <2> QED
      BY <1>6, <2>1, <2>2 DEF Raise, RunnerTypes, storeVars
  <1>5. CASE Crash
    <2>1. faults' \in 0..MaxFaults
      BY <1>5, BoundsAssumption DEF Crash, RunnerTypes
    <2>2. /\ at' \in [Starters -> Places] /\ follower' \in [Followers -> Subscriptions(Len(events))]
          /\ left' \in [Starters -> SUBSET DOMAIN events]
      BY <1>2, <1>5 DEF Crash, Places
    <2>3. dirty' \subseteq Sessions
      BY <1>5 DEF Crash, Recounted, RunnerTypes
    <2> QED
      BY <1>5, <2>1, <2>2, <2>3 DEF Crash, RunnerTypes, storeVars, Subscriptions
  <1> QED
    BY <1>3, <1>4, <1>5, <1>6

(***************************************************************************)
(* One follows at a time.                                                  *)
(***************************************************************************)
\* Of the rebuilds and the start, one at most is under way.
LEMMA OneIsBusy ==
  ASSUME RebuildsApart, BootIsAlone
  PROVE  \A q, r \in Starters : at[q] # "idle" /\ at[r] # "idle" => q = r
  BY DEF RebuildsApart, BootIsAlone, Starters

\* Events that come in move nobody.
LEMMA ExtendKeeps ==
  ASSUME RunnerIInv, NEW s \in Sessions, NEW kind \in {"started", "turn", "failure"}, Extend(s, kind)
  PROVE  RunnerIInv'
  <1>1. RunnerTypes' /\ Len(events') = Len(events) + 1 /\ Len(events) \in Nat /\ checkpoint \in Nat
    <2>1. RunnerTypes
      BY DEF RunnerIInv
    <2>2. checkpoint \in 0..Len(events)
      BY <2>1 DEF RunnerTypes
    <2>3. RunnerTypes' /\ Len(events') = Len(events) + 1 /\ Len(events) \in Nat
      BY <2>1, ExtendTypes
    <2> QED
      BY <2>2, <2>3
  <1>2. UNCHANGED <<storeVars, runner, follower, at>>
    BY DEF Extend
  <1>3. checkpoint < Len(events) => checkpoint < Len(events')
    BY <1>1
  <1> QED
    BY <1>1, <1>2, <1>3 DEF RunnerIInv, BootIsAlone, PlacesHold, FollowersHold, Running, storeVars

\* A subscription that serves is the one that follows.
LEMMA ServeKeeps ==
  ASSUME RunnerIInv, NEW f \in Followers, Serve(f)
  PROVE  RunnerIInv'
  <1>1. RunnerTypes'
    BY ServeTypes DEF RunnerIInv
  <1>2. /\ follower \in [Followers -> Subscriptions(Len(events))] /\ Len(events) \in Nat /\ checkpoint \in 0..Len(events)
        /\ FollowersHold /\ PlacesHold /\ BootIsAlone /\ events \in Seq(Event)
    BY RunnerTyped DEF RunnerIInv
  <1>3. UNCHANGED <<events, runner, at>> /\ follower[f].running
    BY DEF Serve, Apply, File, Checkpoint, Due, Running
  <1>4. /\ runner.manager = f /\ runner.store = f /\ follower[f].position = checkpoint
        /\ \A g \in Followers \ {f} : ~follower[g].running /\ ~follower[g].applied
        /\ \A r \in Starters : at[r] = "idle"
    BY <1>2, <1>3 DEF FollowersHold, PlacesHold, Running
  <1>5. /\ \A g \in Followers \ {f} : follower'[g] = follower[g]
        /\ follower'[f].running /\ follower'[f].open = follower[f].open
        /\ follower'[f].position = checkpoint' /\ (follower'[f].applied => checkpoint' < Len(events))
    <2>1. CASE Apply(f) \/ File(f)
      <3>1. follower' = [follower EXCEPT ![f].applied = TRUE] /\ checkpoint' = checkpoint /\ Next1(f) \in DOMAIN events
        BY <2>1 DEF Apply, File, Due
      <3>2. checkpoint < Len(events)
        BY <1>2, <1>4, <3>1 DEF Next1
      <3> QED
        BY <1>2, <1>3, <1>4, <3>1, <3>2 DEF Subscriptions
    <2>2. CASE Checkpoint(f)
      <3>1. follower' = [follower EXCEPT ![f].applied = FALSE, ![f].position = checkpoint'] /\ checkpoint' = Next1(f)
        BY <2>2 DEF Checkpoint
      <3> QED
        BY <1>2, <1>3, <1>4, <3>1 DEF Subscriptions
    <2> QED
      BY <2>1, <2>2 DEF Serve
  <1>6. FollowersHold'
    BY <1>2, <1>3, <1>4, <1>5 DEF FollowersHold, Running
  <1>7. PlacesHold' /\ BootIsAlone'
    BY <1>2, <1>3, <1>4 DEF PlacesHold, BootIsAlone
  <1> QED
    BY <1>1, <1>6, <1>7 DEF RunnerIInv

\* A rebuild begins by stopping whoever follows.
LEMMA RebuildKeeps ==
  ASSUME RunnerIInv, NEW r \in Rebuilders, Rebuild(r)
  PROVE  RunnerIInv'
  <1>1. RunnerTypes'
    BY WorkTypes DEF RunnerIInv
  <1>2. /\ follower \in [Followers -> Subscriptions(Len(events))] /\ at \in [Starters -> Places]
        /\ runner.manager \in Followers \union {Nothing} /\ r \in Starters /\ r # "boot"
        /\ FollowersHold /\ PlacesHold /\ BootIsAlone
    BY RunnerTyped, NamesAssumption DEF RunnerIInv, Starters
  <1>3. /\ UNCHANGED <<events, checkpoint, runner>> /\ runner.manager \in Followers /\ runner.store # Nothing
        /\ at["boot"] = "idle" /\ at' = [at EXCEPT ![r] = "listing"]
        /\ ~follower[runner.manager].applied
        /\ follower' = [follower EXCEPT ![runner.manager].running = FALSE]
    BY <1>2 DEF Rebuild, Proceed, storeVars
  <1>4. /\ \A g \in Followers : ~follower'[g].running /\ follower'[g].applied = follower[g].applied
                                /\ follower'[g].open = follower[g].open
        /\ \A g \in Followers : ~follower'[g].applied
    BY <1>2, <1>3 DEF FollowersHold, Running, Subscriptions
  <1>5. FollowersHold'
    BY <1>4 DEF FollowersHold, Running
  <1>6. PlacesHold'
    <2> SUFFICES ASSUME NEW q \in Starters
                 PROVE  /\ at'[q] # "idle" => \A f \in Followers : ~Running(f)'
                        /\ at'[q] \in {"listing", "resolving", "resetting"} => runner'.store # Nothing
                        /\ at'[q] \in {"closing", "checking", "opening"} => runner'.manager = Nothing
                        /\ at'[q] = "following" =>
                             /\ runner'.manager \in Followers /\ runner'.store = runner'.manager
                             /\ follower'[runner'.manager].open
      BY DEF PlacesHold
    <2>1. CASE q = r
      BY <1>2, <1>3, <1>4, <2>1 DEF Running
    <2>2. CASE q # r
      BY <1>2, <1>3, <1>4, <2>2 DEF PlacesHold, Running
    <2> QED
      BY <2>1, <2>2
  <1>7. BootIsAlone'
    BY <1>2, <1>3 DEF BootIsAlone
  <1> QED
    BY <1>1, <1>5, <1>6, <1>7 DEF RunnerIInv

\* A rebuild or a start that moves on has the runner to itself.
LEMMA WorkKeeps ==
  ASSUME RunnerIInv, RebuildsApart, NEW r \in Starters, Work(r)
  PROVE  RunnerIInv'
  <1>1. RunnerTypes'
    BY WorkTypes DEF RunnerIInv
  <1>2. /\ follower \in [Followers -> Subscriptions(Len(events))] /\ at \in [Starters -> Places]
        /\ runner \in [manager : Followers \union {Nothing}, store : Followers \union {Nothing}]
        /\ Rebuilders \subseteq Starters /\ "boot" \in Starters /\ "boot" \notin Rebuilders
        /\ FollowersHold /\ PlacesHold /\ BootIsAlone
    BY RunnerTyped, NamesAssumption DEF RunnerIInv, Starters
  <1>3. at[r] # "idle" /\ UNCHANGED events
    BY DEF Work, List, Resolve, Truncate, Reset, Close, Check, Open, Follow
  <1>4. \A q \in Starters \ {r} : at[q] = "idle"
    BY <1>3, OneIsBusy DEF RunnerIInv
  <1>5. \A f \in Followers : ~follower[f].running /\ ~follower[f].applied
    BY <1>2, <1>3 DEF PlacesHold, FollowersHold, Running
  <1>6. /\ at' = [at EXCEPT ![r] = at'[r]] /\ \A q \in Starters \ {r} : at'[q] = "idle"
    BY <1>2, <1>4 DEF Work, List, Resolve, Truncate, Reset, Close, Check, Open, Follow, Proceed
  <1>7. BootIsAlone'
    <2>1. r = "boot" => at'[r] \in {"idle", "checking", "opening", "following"}
      BY <1>2 DEF Work, List, Resolve, Truncate, Reset, Close, Check, Open, Follow, Proceed, BootIsAlone
    <2> QED
      BY <1>2, <1>6, <2>1 DEF BootIsAlone
  <1>8. ASSUME at'[r] # "idle" => \A f \in Followers : ~follower'[f].running,
               at'[r] \in {"listing", "resolving", "resetting"} => runner'.store # Nothing,
               at'[r] \in {"closing", "checking", "opening"} => runner'.manager = Nothing,
               at'[r] = "following" =>
                 /\ runner'.manager \in Followers /\ runner'.store = runner'.manager
                 /\ follower'[runner'.manager].open
        PROVE  PlacesHold'
    BY <1>6, <1>8 DEF PlacesHold, Running
  <1>9. ASSUME \A f \in Followers : ~follower'[f].running /\ ~follower'[f].applied PROVE FollowersHold'
    BY <1>9 DEF FollowersHold, Running
  <1>10. CASE List(r) \/ Resolve(r) \/ Truncate(r) \/ Reset(r) \/ Check(r)
    <2>1. UNCHANGED follower
      BY <1>10 DEF List, Resolve, Truncate, Reset, Check
    <2>2. /\ at'[r] \in {"listing", "resolving", "resetting"} => runner'.store # Nothing
          /\ at'[r] \in {"closing", "checking", "opening"} => runner'.manager = Nothing
          /\ at'[r] # "following"
      BY <1>2, <1>10 DEF List, Resolve, Truncate, Reset, Check, Proceed, PlacesHold
    <2> QED
      BY <1>1, <1>5, <1>7, <1>8, <1>9, <2>1, <2>2 DEF RunnerIInv
  <1>11. CASE Close(r)
    <2>1. \A f \in Followers : ~follower'[f].running /\ ~follower'[f].applied
      BY <1>2, <1>5, <1>11 DEF Close, Subscriptions
    <2>2. at'[r] = "checking" /\ runner'.manager = Nothing
      BY <1>2, <1>11 DEF Close, Proceed, PlacesHold
    <2> QED
      BY <1>1, <1>7, <1>8, <1>9, <2>1, <2>2 DEF RunnerIInv
  <1>12. CASE Open(r)
    <2>1. PICK g \in Followers : /\ follower' = [follower EXCEPT ![g] = [Fresh EXCEPT !.made = TRUE, !.open = TRUE]]
                                 /\ runner' = [manager |-> g, store |-> g]
      BY <1>12 DEF Open
    <2>2. follower'[g].open /\ ~follower'[g].running /\ ~follower'[g].applied
      BY <1>2, <2>1 DEF Fresh
    <2>3. \A f \in Followers : ~follower'[f].running /\ ~follower'[f].applied
      BY <1>2, <1>5, <2>1, <2>2
    <2>4. at'[r] = "following"
      BY <1>2, <1>12 DEF Open, Proceed
    <2> QED
      BY <1>1, <1>7, <1>8, <1>9, <2>1, <2>2, <2>3, <2>4 DEF RunnerIInv
  <1>13. CASE Follow(r)
    <2> DEFINE g == runner.manager
    <2>1. g \in Followers /\ runner.store = g /\ follower[g].open
      BY <1>13 , <1>2 DEF Follow, PlacesHold
    <2>2. /\ UNCHANGED <<runner, checkpoint>> /\ at'[r] = "idle"
          /\ \A f \in Followers \ {g} : follower'[f] = follower[f]
          /\ follower'[g] = [follower[g] EXCEPT !.running = TRUE, !.position = checkpoint]
      BY <1>2, <1>5, <1>13, <2>1 DEF Follow, Proceed, storeVars, Running
    <2>3. /\ follower'[g].running /\ follower'[g].open /\ ~follower'[g].applied /\ follower'[g].position = checkpoint
      BY <1>2, <1>5, <2>1, <2>2 DEF Subscriptions
    <2>4. FollowersHold'
      BY <1>5, <2>1, <2>2, <2>3 DEF FollowersHold, Running
    <2> QED
      BY <1>1, <1>7, <1>8, <2>2, <2>4 DEF RunnerIInv
  <1> QED
    BY <1>10, <1>11, <1>12, <1>13 DEF Work

\* A rebuild that raises leaves the runner with nobody that follows.
LEMMA RaiseKeeps ==
  ASSUME RunnerIInv, RebuildsApart, NEW r \in Rebuilders, Raise(r)
  PROVE  RunnerIInv' /\ (\A q \in Starters : at'[q] = "idle")
         /\ \A f \in Followers : ~follower[f].applied
  <1>1. RunnerTypes'
    BY WorkTypes DEF RunnerIInv
  <1>2. /\ at \in [Starters -> Places] /\ r \in Starters
        /\ FollowersHold /\ PlacesHold /\ BootIsAlone
    BY RunnerTyped DEF RunnerIInv, Starters
  <1>3. at[r] # "idle" /\ at' = [at EXCEPT ![r] = "idle"] /\ UNCHANGED <<events, storeVars, runner, follower>>
    BY DEF Raise, Proceed
  <1>4. \A q \in Starters : at'[q] = "idle"
    BY <1>2, <1>3, OneIsBusy
  <1>5. \A f \in Followers : ~follower[f].applied
    BY <1>2, <1>3 DEF PlacesHold, FollowersHold
  <1>6. PlacesHold' /\ BootIsAlone'
    BY <1>4 DEF PlacesHold, BootIsAlone, Starters
  <1>7. FollowersHold'
    BY <1>2, <1>3 DEF FollowersHold, Running, storeVars
  <1> QED
    BY <1>1, <1>4, <1>5, <1>6, <1>7 DEF RunnerIInv

\* The process that comes back starts its runner afresh.
LEMMA CrashKeeps ==
  ASSUME RunnerIInv, Crash
  PROVE  RunnerIInv'
  <1>1. RunnerTypes'
    BY WorkTypes DEF RunnerIInv
  <1>2. /\ \A r \in Rebuilders : at'[r] = "idle" /\ r \in Starters
        /\ at'["boot"] = "checking" /\ \A r \in Starters : r # "boot" => at'[r] = "idle"
        /\ runner'.manager = Nothing
        /\ \A f \in Followers : ~follower'[f].running /\ ~follower'[f].applied
    BY NamesAssumption DEF Crash, Starters, Fresh
  <1> QED
    BY <1>1, <1>2 DEF RunnerIInv, BootIsAlone, PlacesHold, FollowersHold, Running

\* Every step that leaves the rebuilds apart keeps the invariant.
LEMMA RunnerStays == RunnerIInv /\ RebuildsApart /\ [RunnerNext]_runnerVars => RunnerIInv'
  <1> SUFFICES ASSUME RunnerIInv, RebuildsApart, [RunnerNext]_runnerVars PROVE RunnerIInv'
    OBVIOUS
  <1>1. CASE UNCHANGED runnerVars
    BY <1>1 DEF runnerVars, storeVars, boundVars, RunnerIInv, RunnerTypes, BootIsAlone, PlacesHold, FollowersHold, Running
  <1> QED
    BY <1>1, ExtendKeeps, ServeKeeps, RebuildKeeps, RaiseKeeps, WorkKeeps, CrashKeeps DEF RunnerNext

\* The process as it starts.
LEMMA RunnerStarts == RunnerInit => RunnerIInv
  <1> SUFFICES ASSUME RunnerInit PROVE RunnerIInv
    OBVIOUS
  <1>1. /\ events \in Seq(Event) /\ Len(events) = 0 /\ MaxEvents \in Nat
        /\ 0 \in 0..MaxLapses /\ 0 \in 0..MaxRebuilds /\ 0 \in 0..MaxFaults
    BY BoundsAssumption DEF RunnerInit
  <1>2. Fresh \in Subscriptions(Len(events))
    BY <1>1 DEF Fresh, Subscriptions
  <1>3. RunnerTypes
    <2>1. left \in [Starters -> SUBSET DOMAIN events] /\ dirty \subseteq Sessions /\ broken \in BOOLEAN
      BY DEF RunnerInit
    <2> QED
      BY <1>1, <1>2, <2>1 DEF RunnerInit, RunnerTypes, Subscriptions, Places
  <1>4. /\ \A r \in Rebuilders : at[r] = "idle" /\ r \in Starters
        /\ at["boot"] = "checking" /\ \A r \in Starters : r # "boot" => at[r] = "idle"
        /\ runner.manager = Nothing
        /\ \A f \in Followers : ~follower[f].running /\ ~follower[f].applied
    BY NamesAssumption DEF RunnerInit, Starters, Fresh
  <1> QED
    BY <1>3, <1>4 DEF RunnerIInv, BootIsAlone, PlacesHold, FollowersHold, Running

\* As long as no two rebuilds overlap, one subscription follows at a time, over the
\* open table of the runner and from its checkpoint, and none during a rebuild.
THEOREM OneFollowsTheLog == RunnerSpec /\ []RebuildsApart => []RunnerInv
  <1>1. RunnerIInv => RunnerInv
    BY DEF RunnerIInv, RunnerInv, OneFollows, FollowersHold, PlacesHold, Starters
  <1> QED
    BY RunnerStarts, RunnerStays, <1>1, PTL DEF RunnerSpec

(***************************************************************************)
(* What is left to apply.  When nobody rebuilds or starts, somebody        *)
(* follows; and who is at work brings the table nearer to the log.         *)
(***************************************************************************)
Quiescent == \A r \in Starters : at[r] = "idle"

\* A runner at rest has a manager, and it runs, unless a rebuild raised.
IdleFollows == Quiescent /\ ~broken => runner.manager \in Followers /\ Running(runner.manager)

\* The manager of such a runner has an event to apply while the table is behind,
\* or one it has applied and not yet checkpointed.
SomebodyServes ==
  Quiescent /\ ~broken /\ checkpoint < Len(events) =>
    /\ runner.manager \in Followers /\ Running(runner.manager)
    /\ follower[runner.manager].applied \/ Due(runner.manager)

\* An event that is not in the table is two steps away from it, and one of them
\* may be done.
Unapplied == 2 * (Len(events) - checkpoint) - (IF Applied THEN 1 ELSE 0)

\* The awaits before a rebuild or a start is over, one for each failure listed.
AwaitsLeft(r) ==
  CASE at[r] = "listing"   -> MaxEvents + 7
    [] at[r] = "resolving" -> Cardinality(left[r]) + 6
    [] at[r] = "resetting" -> 5
    [] at[r] = "closing"   -> 4
    [] at[r] = "checking"  -> 3
    [] at[r] = "opening"   -> 2
    [] at[r] = "following" -> 1
    [] OTHER -> 0

\* They are numbers, and nothing is left only where all is applied, or at rest.
LeftIsCounted ==
  /\ Unapplied \in Nat /\ (Unapplied = 0 => checkpoint = Len(events))
  /\ \A r \in Starters : AwaitsLeft(r) \in Nat /\ (AwaitsLeft(r) = 0 => at[r] = "idle")

\* A step of a subscription leaves less to apply, one of a rebuild or a start
\* fewer awaits.  More to apply comes only of an event, of a checkpoint that is
\* dropped and of a restart; more to await only of a rebuild and of a restart; and
\* nobody is left to apply anything only by a rebuild that raises.
TableComesCloser ==
  [][/\ \A f \in Followers : Serve(f) => Unapplied' < Unapplied
     /\ \A r \in Starters : Work(r) => AwaitsLeft(r)' < AwaitsLeft(r)
     /\ \/ Unapplied' <= Unapplied
        \/ \E s \in Sessions, kind \in {"started", "turn", "failure"} : Extend(s, kind)
        \/ \E r \in Rebuilders : Reset(r)
        \/ Crash
     /\ \A r \in Starters : \/ AwaitsLeft(r)' <= AwaitsLeft(r)
                            \/ r \in Rebuilders /\ Rebuild(r)
                            \/ Crash
     /\ broken' => broken \/ \E r \in Rebuilders : Raise(r)]_runnerVars

ServedIInv == RunnerIInv /\ IdleFollows

\* Nobody rests without a follower: a check finds the manager of nobody else,
\* and what a start leaves at its end runs.
LEMMA IdleStays == ServedIInv /\ RebuildsApart /\ [RunnerNext]_runnerVars => ServedIInv'
  <1> SUFFICES ASSUME ServedIInv, RebuildsApart, [RunnerNext]_runnerVars PROVE ServedIInv'
    OBVIOUS
  <1>1. RunnerIInv /\ RunnerIInv' /\ IdleFollows
    BY RunnerStays DEF ServedIInv
  <1>2. /\ follower \in [Followers -> Subscriptions(Len(events))] /\ at \in [Starters -> Places]
        /\ PlacesHold /\ BootIsAlone /\ "boot" \in Starters /\ Rebuilders \subseteq Starters
    BY <1>1, RunnerTyped DEF RunnerIInv, Starters
  <1>3. ASSUME UNCHANGED <<at, runner, broken>>, \A f \in Followers : Running(f) => Running(f)'
        PROVE  IdleFollows'
    BY <1>1, <1>3 DEF IdleFollows, Quiescent
  <1>4. ASSUME NEW r \in Starters, at'[r] # "idle" PROVE IdleFollows'
    BY <1>4 DEF IdleFollows, Quiescent
  <1>5. ASSUME UNCHANGED runnerVars PROVE IdleFollows'
    BY <1>3, <1>5 DEF runnerVars, Running
  <1>6. ASSUME NEW s \in Sessions, NEW kind \in {"started", "turn", "failure"}, Extend(s, kind)
        PROVE  IdleFollows'
    BY <1>3, <1>6 DEF Extend, Running
  <1>7. ASSUME NEW f \in Followers, Serve(f) PROVE IdleFollows'
    <2>1. UNCHANGED <<at, runner, broken>>
      BY <1>7 DEF Serve, Apply, File, Checkpoint
    <2>2. CASE Apply(f) \/ File(f)
      <3>1. follower' = [follower EXCEPT ![f].applied = TRUE]
        BY <2>2 DEF Apply, File
      <3>2. \A g \in Followers : follower'[g].running = follower[g].running
        BY <1>2, <3>1 DEF Subscriptions
      <3> QED
        BY <1>3, <2>1, <3>2 DEF Running
    <2>3. CASE Checkpoint(f)
      <3>1. follower' = [follower EXCEPT ![f].applied = FALSE, ![f].position = Next1(f)]
        BY <2>3 DEF Checkpoint
      <3>2. \A g \in Followers : follower'[g].running = follower[g].running
        BY <1>2, <3>1 DEF Subscriptions
      <3> QED
        BY <1>3, <2>1, <3>2 DEF Running
    <2> QED
      BY <1>7, <2>2, <2>3 DEF Serve
  <1>8. ASSUME NEW r \in Starters, Work(r) PROVE IdleFollows'
    <2>1. CASE List(r) \/ Resolve(r) \/ Truncate(r) \/ Reset(r) \/ Close(r) \/ Check(r) \/ Open(r)
      <3>1. at'[r] # "idle"
        BY <1>2, <2>1 DEF List, Resolve, Truncate, Reset, Close, Check, Open, Proceed, PlacesHold
      <3> QED
        BY <1>4, <3>1
    <2>2. CASE Follow(r)
      <3>1. runner.manager \in Followers /\ runner' = runner
        BY <1>2, <2>2 DEF Follow, PlacesHold
      <3>2. follower'[runner.manager].running
        BY <1>2, <2>2, <3>1 DEF Follow, Running, Subscriptions
      <3> QED
        BY <3>1, <3>2 DEF IdleFollows, Running
    <2> QED
      BY <1>8, <2>1, <2>2 DEF Work
  <1>9. ASSUME NEW r \in Rebuilders, Rebuild(r) PROVE IdleFollows'
    BY <1>2, <1>4, <1>9 DEF Rebuild, Proceed
  <1>12. ASSUME NEW r \in Rebuilders, Raise(r) PROVE IdleFollows'
    BY <1>12 DEF Raise, IdleFollows
  <1>10. ASSUME Crash PROVE IdleFollows'
    BY <1>2, <1>4, <1>10 DEF Crash
  <1>11. IdleFollows'
    BY <1>5, <1>6, <1>7, <1>8, <1>9, <1>10, <1>12 DEF RunnerNext, ServedIInv
  <1> QED
    BY <1>1, <1>11 DEF ServedIInv

\* What a follower that runs has to do next.
LEMMA IdleServes == ServedIInv => SomebodyServes
  <1> SUFFICES ASSUME ServedIInv, Quiescent, ~broken, checkpoint < Len(events), ~follower[runner.manager].applied
               PROVE  /\ runner.manager \in Followers /\ Running(runner.manager)
                      /\ Due(runner.manager)
    BY DEF SomebodyServes, ServedIInv, IdleFollows
  <1>1. /\ events \in Seq(Event) /\ Len(events) \in Nat /\ checkpoint \in 0..Len(events) /\ FollowersHold
    BY RunnerTyped DEF ServedIInv, RunnerIInv
  <1>2. runner.manager \in Followers /\ Running(runner.manager)
    BY DEF ServedIInv, IdleFollows
  <1>3. follower[runner.manager].position = checkpoint
    BY <1>1, <1>2 DEF FollowersHold
  <1> QED
    BY <1>1, <1>2, <1>3 DEF Due, Next1

\* The failures of a log are so many as it has events, at most.
LEMMA ListedCounts ==
  ASSUME RunnerTypes
  PROVE  /\ \A r \in Starters : IsFiniteSet(left[r]) /\ Cardinality(left[r]) \in Nat
         /\ IsFiniteSet(filed) /\ Cardinality(filed) \in Nat /\ Cardinality(filed) <= MaxEvents
  <1>1. /\ events \in Seq(Event) /\ Len(events) \in Nat /\ Len(events) <= MaxEvents /\ MaxEvents \in Nat
        /\ left \in [Starters -> SUBSET DOMAIN events] /\ filed \subseteq DOMAIN events
        /\ DOMAIN events = 1..Len(events)
    BY RunnerTyped, BoundsAssumption
  <1> DEFINE n == Len(events)
  <1>2. IsFiniteSet(1..n) /\ Cardinality(1..n) = n
    <2>1. n \in Int /\ 1 \in Int
      BY <1>1
    <2> HIDE DEF n
    <2>2. IsFiniteSet(1..n) /\ Cardinality(1..n) = IF 1 > n THEN 0 ELSE n - 1 + 1
      BY <2>1, FS_Interval
    <2> QED
      BY <1>1, <2>1, <2>2 DEF n
  <1>3. \A S \in SUBSET (1..n) : IsFiniteSet(S) /\ Cardinality(S) \in Nat /\ Cardinality(S) <= n
    BY <1>2, FS_Subset, FS_CardinalityType
  <1> QED
    BY <1>1, <1>3

\* An event that is applied is not in the checkpoint, so that what is left counts.
LEMMA LeftCounts == RunnerIInv => LeftIsCounted
  <1> SUFFICES ASSUME RunnerIInv PROVE LeftIsCounted
    OBVIOUS
  <1>1. /\ events \in Seq(Event) /\ Len(events) \in Nat /\ checkpoint \in 0..Len(events)
        /\ FollowersHold /\ at \in [Starters -> Places] /\ MaxEvents \in Nat
    BY RunnerTyped, BoundsAssumption DEF RunnerIInv
  <1>2. Applied => checkpoint < Len(events)
    BY <1>1 DEF Applied, FollowersHold
  <1>3. Unapplied \in Nat /\ (Unapplied = 0 => checkpoint = Len(events))
    BY <1>1, <1>2 DEF Unapplied
  <1>4. \A r \in Starters : Cardinality(left[r]) \in Nat
    BY ListedCounts DEF RunnerIInv
  <1>5. \A r \in Starters : AwaitsLeft(r) \in Nat /\ (AwaitsLeft(r) = 0 => at[r] = "idle")
    BY <1>1, <1>4 DEF AwaitsLeft, Places
  <1> QED
    BY <1>3, <1>5 DEF LeftIsCounted

LEMMA LeftCountsThen == RunnerIInv' => LeftIsCounted'
  BY LeftCounts, PTL

\* A step of the one that follows applies an event, files it or checkpoints it.
LEMMA ServeComesCloser ==
  ASSUME RunnerIInv, NEW f \in Followers, Serve(f)
  PROVE  Unapplied' < Unapplied /\ UNCHANGED <<at, left>>
  <1>1. /\ events \in Seq(Event) /\ Len(events) \in Nat /\ checkpoint \in 0..Len(events)
        /\ follower \in [Followers -> Subscriptions(Len(events))] /\ FollowersHold
    BY RunnerTyped DEF RunnerIInv
  <1>2. /\ UNCHANGED <<events, at, left>> /\ follower[f].position = checkpoint
        /\ \A g \in Followers \ {f} : ~follower[g].applied
    BY <1>1 DEF Serve, Apply, File, Checkpoint, Due, Running, FollowersHold
  <1>3. CASE Apply(f) \/ File(f)
    <2>1. ~Applied /\ checkpoint' = checkpoint /\ follower' = [follower EXCEPT ![f].applied = TRUE]
      BY <1>2, <1>3 DEF Apply, File, Due, Applied
    <2>2. Applied'
      BY <1>1, <2>1 DEF Applied, Subscriptions
    <2> QED
      BY <1>1, <1>2, <2>1, <2>2 DEF Unapplied
  <1>4. CASE Checkpoint(f)
    <2>1. Applied /\ checkpoint' = checkpoint + 1
      BY <1>2, <1>4 DEF Checkpoint, Applied, Next1
    <2>2. ~Applied'
      BY <1>1, <1>2, <1>4 DEF Checkpoint, Applied, Subscriptions
    <2> QED
      BY <1>1, <1>2, <2>1, <2>2 DEF Unapplied
  <1> QED
    BY <1>2, <1>3, <1>4 DEF Serve

\* A rebuild or a start takes one await; only its reset drops the checkpoint.
LEMMA WorkComesCloser ==
  ASSUME RunnerIInv, RebuildsApart, NEW r \in Starters, Work(r)
  PROVE  /\ AwaitsLeft(r)' < AwaitsLeft(r)
         /\ \A q \in Starters : AwaitsLeft(q)' <= AwaitsLeft(q)
         /\ Unapplied' = Unapplied \/ (r \in Rebuilders /\ Reset(r))
  <1>1. /\ events \in Seq(Event) /\ Len(events) \in Nat /\ checkpoint \in 0..Len(events)
        /\ follower \in [Followers -> Subscriptions(Len(events))] /\ at \in [Starters -> Places]
        /\ FollowersHold /\ PlacesHold /\ BootIsAlone
    BY RunnerTyped DEF RunnerIInv
  <1>2. /\ at[r] # "idle" /\ events' = events
        /\ \A f \in Followers : ~follower[f].applied
    BY <1>1 DEF Work, List, Resolve, Truncate, Reset, Close, Check, Open, Follow, PlacesHold, FollowersHold
  <1>3. \/ at[r] = "listing" /\ at' = [at EXCEPT ![r] = "resolving"] /\ left' = [left EXCEPT ![r] = filed]
        \/ at[r] = "resolving" /\ at' = at /\ \E i \in left[r] : left' = [left EXCEPT ![r] = left[r] \ {i}]
        \/ at[r] = "resolving" /\ at' = [at EXCEPT ![r] = "resetting"]
        \/ at[r] = "resetting" /\ at' = [at EXCEPT ![r] = "closing"]
        \/ at[r] = "closing" /\ at' = [at EXCEPT ![r] = "checking"]
        \/ at[r] = "checking" /\ at' = [at EXCEPT ![r] = "opening"]
        \/ at[r] = "opening" /\ at' = [at EXCEPT ![r] = "following"]
        \/ at[r] = "following" /\ at' = [at EXCEPT ![r] = "idle"]
    BY <1>1 DEF Work, List, Resolve, Truncate, Reset, Close, Check, Open, Follow, Proceed, PlacesHold
  <1>11. /\ IsFiniteSet(left[r]) /\ Cardinality(left[r]) \in Nat
         /\ Cardinality(filed) \in Nat /\ Cardinality(filed) <= MaxEvents /\ MaxEvents \in Nat
         /\ left \in [Starters -> SUBSET DOMAIN events]
    BY ListedCounts, RunnerTyped, BoundsAssumption DEF RunnerIInv
  <1>12. ASSUME NEW i \in left[r] PROVE Cardinality(left[r] \ {i}) = Cardinality(left[r]) - 1
    BY <1>11, <1>12, FS_RemoveElement
  <1>4. AwaitsLeft(r)' < AwaitsLeft(r)
    <2>1. CASE at[r] = "listing" /\ at' = [at EXCEPT ![r] = "resolving"] /\ left' = [left EXCEPT ![r] = filed]
      <3>1. AwaitsLeft(r) = MaxEvents + 7 /\ AwaitsLeft(r)' = Cardinality(filed) + 6
        BY <1>1, <1>11, <2>1 DEF AwaitsLeft
      <3> QED
        BY <1>11, <3>1
    <2>2. ASSUME at[r] = "resolving", at' = at,
                 NEW i \in left[r], left' = [left EXCEPT ![r] = left[r] \ {i}]
          PROVE  AwaitsLeft(r)' < AwaitsLeft(r)
      <3>1. AwaitsLeft(r) = Cardinality(left[r]) + 6 /\ AwaitsLeft(r)' = Cardinality(left[r] \ {i}) + 6
        BY <1>1, <1>11, <2>2 DEF AwaitsLeft
      <3> QED
        BY <1>11, <1>12, <2>2, <3>1
    <2>3. CASE at[r] = "resolving" /\ at' = [at EXCEPT ![r] = "resetting"]
      <3>1. AwaitsLeft(r) = Cardinality(left[r]) + 6 /\ AwaitsLeft(r)' = 5
        BY <1>1, <2>3 DEF AwaitsLeft
      <3> QED
        BY <1>11, <3>1
    <2> QED
      BY <1>1, <1>3, <2>1, <2>2, <2>3 DEF AwaitsLeft
  <1>5. \A q \in Starters \ {r} : AwaitsLeft(q)' = AwaitsLeft(q)
    <2>1. \A q \in Starters \ {r} : at'[q] = at[q] /\ left'[q] = left[q]
      BY <1>1, <1>11 DEF Work, List, Resolve, Truncate, Reset, Close, Check, Open, Follow, Proceed
    <2> QED
      BY <2>1 DEF AwaitsLeft
  <1>6. LeftIsCounted
    BY LeftCounts
  <1>7. AwaitsLeft(r)' \in Nat /\ \A q \in Starters : AwaitsLeft(q) \in Nat
    <2>1. LeftIsCounted'
      BY WorkKeeps, LeftCountsThen
    <2> QED
      BY <1>6, <2>1 DEF LeftIsCounted
  <1>8. \A q \in Starters : AwaitsLeft(q)' <= AwaitsLeft(q)
    BY <1>4, <1>5, <1>7
  <1>9. CASE Reset(r)
    <2>1. r \in Rebuilders
      BY <1>1, <1>9 DEF Reset, BootIsAlone, Starters
    <2> QED
      BY <1>4, <1>8, <1>9, <2>1
  <1>10. CASE ~Reset(r)
    <2>a. ASSUME List(r) \/ Resolve(r) \/ Truncate(r) \/ Check(r)
          PROVE  checkpoint' = checkpoint /\ \A f \in Followers : ~follower'[f].applied
      BY <1>2, <2>a DEF List, Resolve, Truncate, Check, storeVars
    <2>b. ASSUME Close(r) \/ Follow(r)
          PROVE  checkpoint' = checkpoint /\ \A f \in Followers : ~follower'[f].applied
      <3>1. checkpoint' = checkpoint
        BY <2>b DEF Close, Follow, storeVars
      <3>2. Close(r) => \A f \in Followers : ~follower'[f].applied
        BY <1>1, <1>2 DEF Close, Subscriptions
      <3>3. Follow(r) => \A f \in Followers : ~follower'[f].applied
        BY <1>1, <1>2 DEF Follow, Subscriptions
      <3> QED
        BY <2>b, <3>1, <3>2, <3>3
    <2>c. ASSUME Open(r)
          PROVE  checkpoint' = checkpoint /\ \A f \in Followers : ~follower'[f].applied
      BY <1>1, <1>2, <2>c DEF Open, Fresh, storeVars, Subscriptions
    <2>1. checkpoint' = checkpoint /\ \A f \in Followers : ~follower'[f].applied
      BY <1>10, <2>a, <2>b, <2>c DEF Work
    <2>2. ~Applied /\ ~Applied'
      BY <1>2, <2>1 DEF Applied
    <2> QED
      BY <1>2, <1>4, <1>8, <2>1, <2>2 DEF Unapplied
  <1> QED
    BY <1>9, <1>10

\* As long as rebuilds are apart, a table behind its log is in somebody's hands: a
\* rebuild or a start that has only so many awaits left, or the runner's own
\* subscription, each of whose steps leaves less to apply, whatever is filed on
\* the way (ProjectionRunner.start and rebuild).  Only events, rebuilds and
\* restarts put it further behind.
THEOREM LogIsServed ==
  RunnerSpec /\ []RebuildsApart => [](SomebodyServes /\ LeftIsCounted) /\ TableComesCloser
  <1>1. RunnerInit => ServedIInv
    <2>1. RunnerInit => RunnerIInv
      BY RunnerStarts
    <2>2. RunnerInit => IdleFollows
      BY DEF RunnerInit, IdleFollows, Quiescent, Starters
    <2> QED
      BY <2>1, <2>2 DEF ServedIInv
  <1>2. ServedIInv => SomebodyServes /\ LeftIsCounted
    BY IdleServes, LeftCounts DEF ServedIInv
  <1>3. ASSUME ServedIInv, RebuildsApart, [RunnerNext]_runnerVars, ~UNCHANGED runnerVars
        PROVE  /\ \A f \in Followers : Serve(f) => Unapplied' < Unapplied
               /\ \A r \in Starters : Work(r) => AwaitsLeft(r)' < AwaitsLeft(r)
               /\ \/ Unapplied' <= Unapplied
                  \/ \E s \in Sessions, kind \in {"started", "turn", "failure"} : Extend(s, kind)
                  \/ \E r \in Rebuilders : Reset(r)
                  \/ Crash
               /\ \A r \in Starters : \/ AwaitsLeft(r)' <= AwaitsLeft(r)
                                      \/ r \in Rebuilders /\ Rebuild(r)
                                      \/ Crash
               /\ broken' => broken \/ \E r \in Rebuilders : Raise(r)
    <2> DEFINE Waits == \A r \in Starters : \/ AwaitsLeft(r)' <= AwaitsLeft(r)
                                            \/ r \in Rebuilders /\ Rebuild(r)
                                            \/ Crash
               Rows  == \/ Unapplied' <= Unapplied
                        \/ \E s \in Sessions, kind \in {"started", "turn", "failure"} : Extend(s, kind)
                        \/ \E r \in Rebuilders : Reset(r)
                        \/ Crash
    <2>0. /\ RunnerIInv /\ LeftIsCounted
      BY <1>2, <1>3 DEF ServedIInv
    <2>1. LeftIsCounted'
      BY <2>0, <1>3, RunnerStays, LeftCountsThen
    <2>2. /\ Unapplied \in Nat /\ Unapplied' \in Nat
          /\ \A r \in Starters : AwaitsLeft(r) \in Nat
      BY <2>0, <2>1 DEF LeftIsCounted
    <2>3. ASSUME UNCHANGED <<at, left>> PROVE Waits
      <3>1. \A r \in Starters : AwaitsLeft(r)' = AwaitsLeft(r)
        BY <2>3 DEF AwaitsLeft
      <3> QED
        BY <2>2, <3>1
    <2>4. ASSUME NEW f \in Followers, Serve(f) PROVE Waits /\ Rows
      BY <2>0, <2>2, <2>3, <2>4, ServeComesCloser
    <2>5. ASSUME NEW r \in Starters, Work(r) PROVE Waits /\ Rows
      BY <1>3, <2>0, <2>2, <2>5, WorkComesCloser
    <2>6. ASSUME NEW s \in Sessions, NEW kind \in {"started", "turn", "failure"}, Extend(s, kind)
          PROVE  Waits /\ Rows
      BY <2>3, <2>6 DEF Extend
    <2>7. ASSUME NEW r \in Rebuilders, Rebuild(r) PROVE Waits /\ Rows
      <3>1. at \in [Starters -> Places] /\ follower \in [Followers -> Subscriptions(Len(events))]
        BY <2>0, RunnerTyped DEF RunnerIInv
      <3>2. /\ UNCHANGED <<events, checkpoint>>
            /\ \A f \in Followers : follower'[f].applied = follower[f].applied
        BY <2>7, <3>1 DEF Rebuild, storeVars, Subscriptions
      <3>3. Unapplied' = Unapplied
        BY <3>2 DEF Unapplied, Applied
      <3>4. \A q \in Starters \ {r} : at'[q] = at[q] /\ left'[q] = left[q]
        BY <2>7, <3>1 DEF Rebuild, Proceed
      <3>5. \A q \in Starters \ {r} : AwaitsLeft(q)' = AwaitsLeft(q)
        BY <3>4 DEF AwaitsLeft
      <3> QED
        BY <2>2, <2>7, <3>3, <3>5
    <2>8. ASSUME Crash PROVE Waits /\ Rows
      BY <2>8
    <2>10. ASSUME NEW r \in Rebuilders, Raise(r) PROVE Waits /\ Rows
      <3>1. at \in [Starters -> Places] /\ left \in [Starters -> SUBSET DOMAIN events] /\ r \in Starters
        BY <2>0, RunnerTyped DEF RunnerIInv, Starters
      <3>2. Unapplied' = Unapplied
        BY <2>10 DEF Raise, Unapplied, Applied, storeVars
      <3>3. \A q \in Starters \ {r} : at'[q] = at[q] /\ left'[q] = left[q]
        BY <2>10, <3>1 DEF Raise, Proceed
      <3>4. \A q \in Starters \ {r} : AwaitsLeft(q)' = AwaitsLeft(q)
        BY <3>3 DEF AwaitsLeft
      <3>5. AwaitsLeft(r)' = 0
        BY <2>10, <3>1 DEF Raise, Proceed, AwaitsLeft
      <3> QED
        BY <2>2, <3>1, <3>2, <3>4, <3>5
    <2>9. Waits /\ Rows
      BY <1>3, <2>4, <2>5, <2>6, <2>7, <2>8, <2>10 DEF RunnerNext
    <2>11. broken' => broken \/ \E r \in Rebuilders : Raise(r)
      <3>1. \A s \in Sessions, kind \in {"started", "turn", "failure"} : Extend(s, kind) => broken' = broken
        BY DEF Extend
      <3>2. \A f \in Followers : Serve(f) => broken' = broken
        BY DEF Serve, Apply, File, Checkpoint
      <3>3. \A r \in Starters : Work(r) => broken' = broken \/ broken' = FALSE
        BY DEF Work, List, Resolve, Truncate, Reset, Close, Check, Open, Follow
      <3>4. \A r \in Rebuilders : Rebuild(r) => broken' = broken
        BY DEF Rebuild
      <3>5. Crash => broken' = FALSE
        BY DEF Crash
      <3> QED
        BY <1>3, <3>1, <3>2, <3>3, <3>4, <3>5, Zenon DEF RunnerNext
    <2> QED
      BY <1>3, <2>0, <2>9, <2>11, ServeComesCloser, WorkComesCloser
  <1>4. ServedIInv /\ RebuildsApart /\ [RunnerNext]_runnerVars
          => [/\ \A f \in Followers : Serve(f) => Unapplied' < Unapplied
              /\ \A r \in Starters : Work(r) => AwaitsLeft(r)' < AwaitsLeft(r)
              /\ \/ Unapplied' <= Unapplied
                 \/ \E s \in Sessions, kind \in {"started", "turn", "failure"} : Extend(s, kind)
                 \/ \E r \in Rebuilders : Reset(r)
                 \/ Crash
              /\ \A r \in Starters : \/ AwaitsLeft(r)' <= AwaitsLeft(r)
                                     \/ r \in Rebuilders /\ Rebuild(r)
                                     \/ Crash
              /\ broken' => broken \/ \E r \in Rebuilders : Raise(r)]_runnerVars
    BY <1>3
  <1> QED
    BY <1>1, <1>2, <1>4, IdleStays, PTL DEF RunnerSpec, TableComesCloser

(***************************************************************************)
(* The rows.                                                               *)
(***************************************************************************)
Mine(stored, s, kind, n) == {i \in 1..n : stored[i] = [of |-> s, kind |-> kind]}

\* The row that a log derives, in these sets.
LEMMA DerivedByKind ==
  ASSUME NEW stored, NEW s, NEW n
  PROVE  Derived(stored, s, n) =
           IF Mine(stored, s, "started", n) = {} THEN Nothing
           ELSE [turns  |-> IF Mine(stored, s, "turn", n) = {} THEN 0 ELSE 1,
                 failed |-> Cardinality(Mine(stored, s, "failure", n))]
  BY DEF Derived, Mine

\* A longer log derives the same from its beginning.
LEMMA DerivedOfLonger ==
  ASSUME NEW stored, NEW longer, NEW s, NEW n \in Nat, \A i \in 1..n : longer[i] = stored[i]
  PROVE  Derived(longer, s, n) = Derived(stored, s, n)
  <1>1. \A kind : Mine(longer, s, kind, n) = Mine(stored, s, kind, n)
    BY DEF Mine
  <1> QED
    BY <1>1, DerivedByKind

\* The next event is one more of its kind and its session.
LEMMA MineGrows ==
  ASSUME NEW stored \in Seq(Event), NEW n \in Nat, n < Len(stored), NEW s \in Sessions,
         NEW kind \in {"started", "turn", "failure"}
  PROVE  /\ Mine(stored, s, kind, n + 1) =
              IF stored[n + 1].of = s /\ stored[n + 1].kind = kind
                THEN Mine(stored, s, kind, n) \union {n + 1} ELSE Mine(stored, s, kind, n)
         /\ n + 1 \notin Mine(stored, s, kind, n)
         /\ IsFiniteSet(Mine(stored, s, kind, n)) /\ Cardinality(Mine(stored, s, kind, n)) \in Nat
  <1>1. n + 1 \in 1..Len(stored) /\ stored[n + 1] \in Event
    OBVIOUS
  <1>2. stored[n + 1] = [of |-> s, kind |-> kind] <=> stored[n + 1].of = s /\ stored[n + 1].kind = kind
    BY <1>1 DEF Event
  <1>3. \A i : i \in 1..(n + 1) <=> i \in 1..n \/ i = n + 1
    OBVIOUS
  <1>4. IsFiniteSet(1..n) /\ Mine(stored, s, kind, n) \subseteq 1..n
    BY FS_Interval DEF Mine
  <1>5. IsFiniteSet(Mine(stored, s, kind, n)) /\ Cardinality(Mine(stored, s, kind, n)) \in Nat
    BY <1>4, FS_Subset, FS_CardinalityType
  <1>6. CASE stored[n + 1].of = s /\ stored[n + 1].kind = kind
    <2>1. \A i : i \in Mine(stored, s, kind, n + 1) <=> i \in Mine(stored, s, kind, n) \/ i = n + 1
      BY <1>2, <1>3, <1>6 DEF Mine
    <2> QED
      BY <1>4, <1>5, <1>6, <2>1
  <1>7. CASE ~(stored[n + 1].of = s /\ stored[n + 1].kind = kind)
    <2>1. \A i : i \in Mine(stored, s, kind, n + 1) <=> i \in Mine(stored, s, kind, n)
      BY <1>2, <1>3, <1>7 DEF Mine
    <2>2. Mine(stored, s, kind, n + 1) = Mine(stored, s, kind, n)
      BY <2>1, Zenon DEF Mine
    <2>3. n + 1 \notin Mine(stored, s, kind, n)
      BY <1>4
    <2> QED
      BY <1>5, <1>7, <2>2, <2>3
  <1> QED
    BY <1>6, <1>7

\* What the handler makes of the row derived so far is the row derived one event
\* further; and the row is there unless the event makes it.
LEMMA DerivedStep ==
  ASSUME events \in Seq(Event), StartsAreFirst, NEW n \in Nat, n < Len(events), NEW s \in Sessions
  PROVE  LET event == events[n + 1]  row == Derived(events, s, n) IN
         /\ Derived(events, s, n + 1) = IF event.of = s THEN Handle(row, event) ELSE row
         /\ event.of = s /\ event.kind # "started" => row \in SessionRows
  <1> DEFINE event == events[n + 1]  row == Derived(events, s, n)
             M(kind, k) == Mine(events, s, kind, k)
  <1>0. event \in Event /\ n + 1 \in DOMAIN events
    OBVIOUS
  <1>1. event \in Event /\ event.kind \in {"started", "turn", "failure"} /\ n + 1 \in DOMAIN events
    BY <1>0 DEF Event
  <1>2. \A kind \in {"started", "turn", "failure"} :
          /\ M(kind, n + 1) = IF event.of = s /\ event.kind = kind THEN M(kind, n) \union {n + 1} ELSE M(kind, n)
          /\ n + 1 \notin M(kind, n) /\ IsFiniteSet(M(kind, n)) /\ Cardinality(M(kind, n)) \in Nat
    BY MineGrows
  <1>3. /\ row = IF M("started", n) = {} THEN Nothing
                 ELSE [turns |-> IF M("turn", n) = {} THEN 0 ELSE 1, failed |-> Cardinality(M("failure", n))]
        /\ Derived(events, s, n + 1) =
             IF M("started", n + 1) = {} THEN Nothing
             ELSE [turns  |-> IF M("turn", n + 1) = {} THEN 0 ELSE 1,
                   failed |-> Cardinality(M("failure", n + 1))]
    BY DerivedByKind
  <1>4. CASE event.of # s
    BY <1>2, <1>3, <1>4
  <1>5. CASE event.of = s /\ event.kind = "started"
    <2>1. \A j \in 1..n : events[j].of # s
      <3>1. \A j \in 1..((n + 1) - 1) : events[j].of # events[n + 1].of
        BY <1>1, <1>5 DEF StartsAreFirst
      <3> QED
        BY <1>5, <3>1
    <2>2. M("started", n) = {} /\ M("turn", n) = {} /\ M("failure", n) = {}
      BY <2>1 DEF Mine
    <2> HIDE DEF M
    <2>3. M("started", n + 1) # {} /\ M("turn", n + 1) = {} /\ M("failure", n + 1) = {}
      BY <1>2, <1>5, <2>2
    <2>4. Cardinality({}) = 0
      BY FS_EmptySet
    <2>5. Derived(events, s, n + 1) = [turns |-> 0, failed |-> 0]
      BY <1>3, <2>3, <2>4
    <2> QED
      BY <1>5, <2>5 DEF Handle
  <1>6. CASE event.of = s /\ event.kind # "started"
    <2>1. M("started", n) # {}
      <3>1. PICK j \in 1..((n + 1) - 1) : events[j] = [of |-> event.of, kind |-> "started"]
        BY <1>1, <1>6 DEF StartsAreFirst
      <3> QED
        BY <1>6, <3>1 DEF Mine
    <2> HIDE DEF M
    <2>2. M("started", n + 1) # {}
      BY <1>2, <1>6, <2>1
    <2>3. row = [turns |-> IF M("turn", n) = {} THEN 0 ELSE 1, failed |-> Cardinality(M("failure", n))]
      BY <1>3, <2>1
    <2>4. row \in SessionRows
      BY <1>2, <2>3 DEF SessionRows
    <2>5. CASE event.kind = "turn"
      <3>1. M("turn", n + 1) # {} /\ M("failure", n + 1) = M("failure", n)
        BY <1>2, <1>6, <2>5
      <3>2. Derived(events, s, n + 1) = [turns |-> 1, failed |-> Cardinality(M("failure", n))]
        BY <1>3, <2>2, <3>1
      <3>3. Handle(row, event) = [row EXCEPT !.turns = 1]
        BY <2>5 DEF Handle
      <3>4. [row EXCEPT !.turns = 1] = [turns |-> 1, failed |-> Cardinality(M("failure", n))]
        BY <2>3
      <3> QED
        BY <1>6, <2>4, <3>2, <3>3, <3>4
    <2>6. CASE event.kind = "failure"
      <3>1. M("turn", n + 1) = M("turn", n) /\ M("failure", n + 1) = M("failure", n) \union {n + 1}
        BY <1>2, <1>6, <2>6
      <3>2. Cardinality(M("failure", n + 1)) = Cardinality(M("failure", n)) + 1
        BY <1>2, <3>1, FS_AddElement
      <3>3. Derived(events, s, n + 1) =
              [turns |-> IF M("turn", n) = {} THEN 0 ELSE 1, failed |-> Cardinality(M("failure", n)) + 1]
        BY <1>3, <2>2, <3>1, <3>2
      <3>4. Handle(row, event) = [row EXCEPT !.failed = @ + 1]
        BY <2>6 DEF Handle
      <3>5. [row EXCEPT !.failed = @ + 1] =
              [turns |-> IF M("turn", n) = {} THEN 0 ELSE 1, failed |-> Cardinality(M("failure", n)) + 1]
        BY <2>3
      <3> QED
        BY <1>6, <2>4, <3>3, <3>4, <3>5
    <2> QED
      BY <1>1, <1>6, <2>5, <2>6
  <1> QED
    BY <1>4, <1>5, <1>6

\* An event that is no failed turn may be applied twice.
LEMMA AppliedTwice ==
  ASSUME NEW event \in Event, event.kind # "failure", NEW row,
         event.kind = "started" \/ row \in SessionRows
  PROVE  Handle(Handle(row, event), event) = Handle(row, event)
  <1>1. CASE event.kind = "started"
    BY <1>1 DEF Handle
  <1>2. CASE event.kind = "turn" /\ row \in SessionRows
    <2>1. \A r : Handle(r, event) = [r EXCEPT !.turns = 1]
      BY <1>2 DEF Handle
    <2> QED
      BY <1>2, <2>1 DEF SessionRows
  <1> QED
    BY <1>1, <1>2 DEF Event

\* Nothing of a log derives no row.
LEMMA DerivedOfNothing == \A s : Derived(events, s, 0) = Nothing
  <1>1. \A s : Mine(events, s, "started", 0) = {}
    BY DEF Mine
  <1> QED
    BY <1>1, DerivedByKind

\* Where a rebuild or a start is under way, nothing is applied.
LEMMA NobodyApplies ==
  ASSUME RunnerIInv, RebuildsApart, NEW r \in Starters, Work(r)
  PROVE  /\ \A q \in Starters \ {r} : at[q] = "idle" /\ at'[q] = "idle"
         /\ ~Applied /\ ~Applied'
  <1>1. /\ follower \in [Followers -> Subscriptions(Len(events))] /\ at \in [Starters -> Places]
        /\ FollowersHold /\ PlacesHold /\ BootIsAlone
    BY RunnerTyped DEF RunnerIInv
  <1>2. at[r] # "idle"
    BY DEF Work, List, Resolve, Truncate, Reset, Close, Check, Open, Follow
  <1>3. \A q \in Starters \ {r} : at[q] = "idle"
    BY <1>1, <1>2, OneIsBusy
  <1>4. \A q \in Starters \ {r} : at'[q] = at[q]
    BY <1>1 DEF Work, List, Resolve, Truncate, Reset, Close, Check, Open, Follow, Proceed
  <1>5. \A f \in Followers : ~follower[f].applied
    BY <1>1, <1>2 DEF PlacesHold, FollowersHold, Running
  <1>6. \A f \in Followers : ~follower'[f].applied
    <2>1. CASE List(r) \/ Resolve(r) \/ Truncate(r) \/ Reset(r) \/ Check(r)
      BY <1>5, <2>1 DEF List, Resolve, Truncate, Reset, Check
    <2>2. CASE Close(r)
      BY <1>1, <1>5, <2>2 DEF Close, Subscriptions
    <2>3. CASE Open(r)
      BY <1>1, <1>5, <2>3 DEF Open, Fresh
    <2>4. CASE Follow(r)
      BY <1>1, <1>5, <2>4 DEF Follow, Subscriptions
    <2> QED
      BY <2>1, <2>2, <2>3, <2>4 DEF Work
  <1> QED
    BY <1>3, <1>4, <1>5, <1>6 DEF Applied

\* The log takes an event: what was derived stays so.
LEMMA RowsUnderExtend ==
  ASSUME RowIInv, NEW s \in Sessions, NEW kind \in {"started", "turn", "failure"}, Extend(s, kind)
  PROVE  StartsAreFirst' /\ RowsFollow'
  <1> DEFINE n == Len(events)
  <1>1. RunnerTypes /\ StartsAreFirst /\ RowsFollow
    BY DEF RowIInv, RunnerIInv
  <1>2. /\ n \in Nat /\ events \in Seq(Event) /\ checkpoint \in 0..n /\ filed \subseteq 1..n /\ DOMAIN events = 1..n
    BY <1>1 DEF RunnerTypes
  <1>3. /\ Len(events') = n + 1 /\ \A i \in 1..n : events'[i] = events[i]
        /\ events'[n + 1] = [of |-> s, kind |-> kind] /\ events' \in Seq(Event)
    <2>1. /\ RunnerTypes' /\ Len(events') = n + 1
          /\ \A i \in DOMAIN events : events'[i] = events[i]
          /\ events'[n + 1] = [of |-> s, kind |-> kind]
      BY <1>1, ExtendTypes
    <2>2. events' \in Seq(Event)
      BY <2>1 DEF RunnerTypes
    <2> QED
      BY <1>2, <2>1, <2>2
  <1>4. UNCHANGED <<table, checkpoint, filed, follower, at, dirty>>
    BY DEF Extend, storeVars
  <1>5. StartsAreFirst'
    <2> SUFFICES ASSUME NEW i \in DOMAIN events'
                 PROVE  IF events'[i].kind = "started"
                          THEN \A j \in 1..(i - 1) : events'[j].of # events'[i].of
                          ELSE \E j \in 1..(i - 1) : events'[j] = [of |-> events'[i].of, kind |-> "started"]
      BY DEF StartsAreFirst
    <2>1. CASE i \in 1..n
      <3>1. \A j \in 1..(i - 1) : events'[j] = events[j]
        BY <1>2, <1>3, <2>1
      <3> QED
        BY <1>1, <1>2, <1>3, <2>1, <3>1 DEF StartsAreFirst
    <2>2. CASE i = n + 1
      <3>1. events'[i].of = s /\ events'[i].kind = kind /\ 1..(i - 1) = 1..n
        BY <1>2, <1>3, <2>2
      <3>2. kind = "started" <=> ~\E j \in 1..n : events[j].of = s
        BY <1>2 DEF Extend
      <3>3. CASE kind = "started"
        BY <1>3, <3>1, <3>2, <3>3
      <3>4. CASE kind # "started"
        <4>1. PICK j \in 1..n : events[j].of = s
          BY <3>2, <3>4
        <4>2. \E k \in 1..n : events[k] = [of |-> s, kind |-> "started"]
          <5>1. CASE events[j].kind = "started"
            <6>1. events[j] \in Event
              BY <1>2
            <6> QED
              BY <4>1, <5>1, <6>1 DEF Event
          <5>2. CASE events[j].kind # "started"
            <6>1. \E k \in 1..(j - 1) : events[k] = [of |-> s, kind |-> "started"]
              BY <1>1, <1>2, <4>1, <5>2 DEF StartsAreFirst
            <6> QED
              BY <1>2, <6>1
          <5> QED
            BY <5>1, <5>2
        <4> QED
          BY <1>3, <3>1, <3>4, <4>2
      <3> QED
        BY <3>3, <3>4
    <2> QED
      BY <1>2, <1>3, <2>1, <2>2
  <1>6. ASSUME NEW q, Sound(q)', RowFollows(q) PROVE RowFollows(q)'
    <2>1. checkpoint \in Nat /\ \A i \in 1..checkpoint : events'[i] = events[i]
      BY <1>2, <1>3
    <2>2. Derived(events', q, checkpoint) = Derived(events, q, checkpoint)
      BY <2>1, DerivedOfLonger
    <2>3. CASE ~Applied /\ table[q] = Derived(events, q, checkpoint)
      BY <1>4, <2>2, <2>3 DEF RowFollows, Applied
    <2>4. CASE checkpoint < n /\ table[q] = Derived(events, q, checkpoint + 1)
               /\ (Applied \/ events[checkpoint + 1].kind # "failure")
      <3>1. checkpoint + 1 \in 1..n /\ checkpoint + 1 \in Nat /\ checkpoint < Len(events')
            /\ \A i \in 1..(checkpoint + 1) : events'[i] = events[i]
        BY <1>2, <1>3, <2>4
      <3>2. Derived(events', q, checkpoint + 1) = Derived(events, q, checkpoint + 1)
        BY <3>1, DerivedOfLonger
      <3> QED
        BY <1>3, <1>4, <2>4, <3>1, <3>2 DEF RowFollows, Applied
    <2> QED
      BY <1>6, <2>3, <2>4 DEF RowFollows
  <1>7. \A q : Sound(q)' => Sound(q)
    BY <1>2, <1>3, <1>4 DEF Sound
  <1> QED
    BY <1>1, <1>4, <1>5, <1>6, <1>7 DEF RowsFollow

\* An event is applied or filed, or its checkpoint written.
LEMMA RowsUnderServe ==
  ASSUME RowIInv, NEW f \in Followers, Serve(f)
  PROVE  RowsFollow'
  <1> DEFINE event == events[checkpoint + 1]  n == Len(events)
  <1>1. /\ follower \in [Followers -> Subscriptions(n)] /\ n \in Nat /\ checkpoint \in 0..n
        /\ events \in Seq(Event) /\ table \in [Sessions -> {Nothing} \union SessionRows]
        /\ FollowersHold /\ PlacesHold /\ StartsAreFirst /\ RowsFollow
    BY RunnerTyped DEF RowIInv, RunnerIInv
  <1>2. UNCHANGED <<events, at, dirty>> /\ follower[f].running
    BY DEF Serve, Apply, File, Checkpoint, Due, Running
  <1>3. /\ Next1(f) = checkpoint + 1
        /\ \A g \in Followers \ {f} : ~follower[g].applied
        /\ \A r \in Starters : at[r] = "idle"
    BY <1>1, <1>2 DEF FollowersHold, PlacesHold, Running, Next1
  <1>4. checkpoint < n /\ event \in Event
    <2>1. checkpoint < n
      <3>1. CASE Apply(f) \/ File(f)
        BY <1>1, <1>3, <3>1 DEF Apply, File, Due
      <3>2. CASE Checkpoint(f)
        BY <1>1, <3>2 DEF Checkpoint, FollowersHold
      <3> QED
        BY <3>1, <3>2 DEF Serve
    <2> QED
      BY <1>1, <2>1
  <1>5. \A r \in Starters : at'[r] # "resetting"
    BY <1>2, <1>3
  <1>6. ASSUME \A s \in Sessions \ dirty : Sound(s)' => RowFollows(s)' PROVE RowsFollow'
    BY <1>2, <1>5, <1>6 DEF RowsFollow
  <1>7. \A s \in Sessions \ dirty : Sound(s) => RowFollows(s)
    BY <1>1 DEF RowsFollow
  <1>8. ASSUME NEW s \in Sessions
        PROVE  /\ Derived(events, s, checkpoint + 1) =
                    IF event.of = s THEN Handle(Derived(events, s, checkpoint), event)
                                    ELSE Derived(events, s, checkpoint)
               /\ event.of = s /\ event.kind # "started" => Derived(events, s, checkpoint) \in SessionRows
    BY <1>1, <1>4, DerivedStep
  <1> HIDE DEF event, n
  <1>9. CASE Apply(f)
    <2>1. ~Applied
      BY <1>3, <1>9 DEF Applied, Apply, Due
    <2>2. Applied'
      BY <1>1, <1>9 DEF Applied, Apply, Subscriptions
    <2>3. table' = [table EXCEPT ![event.of] = Handle(table[event.of], event)] /\ UNCHANGED <<checkpoint, filed>>
      BY <1>3, <1>9 DEF Apply, event
    <2>4. ASSUME NEW s \in Sessions \ dirty, Sound(s)' PROVE RowFollows(s)'
      <3>1. Sound(s)
        BY <1>2, <2>3, <2>4 DEF Sound
      <3>2. \/ table[s] = Derived(events, s, checkpoint)
            \/ table[s] = Derived(events, s, checkpoint + 1) /\ event.kind # "failure"
        BY <1>7, <2>1, <3>1 DEF RowFollows, event
      <3>3. table'[s] = IF event.of = s THEN Handle(table[s], event) ELSE table[s]
        BY <1>1, <2>3
      <3>4. table'[s] = Derived(events, s, checkpoint + 1)
        <4>1. CASE event.of # s
          BY <1>8, <3>2, <3>3, <4>1
        <4>2. CASE event.of = s /\ table[s] = Derived(events, s, checkpoint)
          BY <1>8, <3>3, <4>2
        <4>3. CASE event.of = s /\ table[s] = Derived(events, s, checkpoint + 1) /\ event.kind # "failure"
          <5>1. event.kind = "started" \/ Derived(events, s, checkpoint) \in SessionRows
            BY <1>8, <4>3
          <5>2. Handle(Handle(Derived(events, s, checkpoint), event), event)
                  = Handle(Derived(events, s, checkpoint), event)
            BY <1>4, <4>3, <5>1, AppliedTwice
          <5> QED
            BY <1>8, <3>3, <4>3, <5>2
        <4> QED
          BY <3>2, <4>1, <4>2, <4>3
      <3> QED
        BY <1>2, <1>4, <2>2, <2>3, <3>4 DEF RowFollows, n
    <2> QED
      BY <1>6, <2>4
  <1>10. CASE File(f)
    <2>1. ~Applied
      BY <1>3, <1>10 DEF Applied, File, Due
    <2>2. Applied'
      BY <1>1, <1>10 DEF Applied, File, Subscriptions
    <2>3. filed' = filed \union {checkpoint + 1} /\ UNCHANGED <<table, checkpoint>>
      BY <1>3, <1>10 DEF File
    <2>4. ASSUME NEW s \in Sessions \ dirty, Sound(s)' PROVE RowFollows(s)'
      <3>1. Sound(s) /\ event.of # s
        BY <1>2, <2>3, <2>4 DEF Sound, event
      <3>2. \/ table[s] = Derived(events, s, checkpoint) \/ table[s] = Derived(events, s, checkpoint + 1)
        BY <1>7, <3>1 DEF RowFollows
      <3>3. table[s] = Derived(events, s, checkpoint + 1)
        BY <1>8, <3>1, <3>2
      <3> QED
        BY <1>2, <1>4, <2>2, <2>3, <3>3 DEF RowFollows, n
    <2> QED
      BY <1>6, <2>4
  <1>11. CASE Checkpoint(f)
    <2>1. Applied
      BY <1>11 DEF Applied, Checkpoint
    <2>2. ~Applied'
      BY <1>1, <1>3, <1>11 DEF Applied, Checkpoint, Subscriptions
    <2>3. checkpoint' = checkpoint + 1 /\ UNCHANGED <<table, filed>>
      BY <1>3, <1>11 DEF Checkpoint
    <2>4. ASSUME NEW s \in Sessions \ dirty, Sound(s)' PROVE RowFollows(s)'
      <3>1. Sound(s)
        BY <1>2, <2>3, <2>4 DEF Sound
      <3>2. table[s] = Derived(events, s, checkpoint + 1)
        BY <1>7, <2>1, <3>1 DEF RowFollows
      <3> QED
        BY <1>2, <2>2, <2>3, <3>2 DEF RowFollows
    <2> QED
      BY <1>6, <2>4
  <1> QED
    BY <1>9, <1>10, <1>11 DEF Serve

\* A rebuild takes the table away and starts over; a start finds it as it was.
LEMMA RowsUnderWork ==
  ASSUME RowIInv, RebuildsApart, NEW r \in Starters, Work(r)
  PROVE  RowsFollow'
  <1>1. /\ PlacesHold /\ BootIsAlone /\ RowsFollow /\ at \in [Starters -> Places] /\ RunnerIInv
        /\ r \in Rebuilders \/ r = "boot"
    BY DEF RowIInv, RunnerIInv, RunnerTypes, Starters
  <1>2. /\ \A q \in Starters \ {r} : at[q] = "idle" /\ at'[q] = "idle"
        /\ ~Applied /\ ~Applied'
    BY <1>1, NobodyApplies
  <1>3. UNCHANGED events
    BY DEF Work, List, Resolve, Truncate, Reset, Close, Check, Open, Follow
  <1>4. CASE Resolve(r)
    <2>1. PICK i \in left[r] : filed' = filed \ {i} /\ dirty' = dirty \union {events[i].of}
      BY <1>4 DEF Resolve
    <2>2. UNCHANGED <<table, checkpoint, at>> /\ at[r] = "resolving"
      BY <1>4 DEF Resolve
    <2>3. ASSUME NEW s \in Sessions \ dirty', Sound(s)' PROVE RowFollows(s)'
      <3>1. s \notin dirty /\ events[i].of # s
        BY <2>1, <2>3
      <3>2. Sound(s)
        BY <1>3, <2>1, <2>3, <3>1 DEF Sound
      <3> QED
        BY <1>1, <1>2, <1>3, <2>2, <3>1, <3>2 DEF RowsFollow, RowFollows
    <2> QED
      BY <1>2, <2>2, <2>3 DEF RowsFollow
  <1>5. CASE Truncate(r)
    <2>1. at[r] = "resolving" /\ table' = [s \in Sessions |-> Nothing] /\ dirty' = Sessions
      BY <1>1, <1>5 DEF Truncate, PlacesHold
    <2> QED
      BY <2>1 DEF RowsFollow
  <1>6. CASE Reset(r)
    <2>1. at[r] = "resetting" /\ at'[r] = "closing" /\ checkpoint' = 0 /\ UNCHANGED <<table, filed>>
      BY <1>1, <1>6 DEF Reset, Proceed
    <2>2. \A s \in Sessions : table[s] = Nothing
      BY <1>1, <2>1 DEF RowsFollow
    <2>3. \A s \in Sessions : RowFollows(s)'
      BY <1>2, <1>3, <2>1, <2>2, DerivedOfNothing DEF RowFollows
    <2> QED
      BY <1>2, <2>1, <2>3 DEF RowsFollow
  <1>7. CASE List(r) \/ Close(r) \/ Check(r) \/ Open(r) \/ Follow(r)
    <2>1. UNCHANGED <<table, checkpoint, filed, dirty>>
      BY <1>7 DEF List, Close, Check, Open, Follow, storeVars
    <2>2. at'[r] # "resetting"
      BY <1>1, <1>7 DEF List, Close, Check, Open, Follow, Proceed
    <2>4. \A s \in Sessions \ dirty : Sound(s)' => RowFollows(s)'
      BY <1>1, <1>2, <1>3, <2>1 DEF RowsFollow, RowFollows, Sound
    <2> QED
      BY <1>2, <2>1, <2>2, <2>4 DEF RowsFollow
  <1> QED
    BY <1>4, <1>5, <1>6, <1>7 DEF Work

\* A rebuild that begins changes no row.
LEMMA RowsUnderRebuild ==
  ASSUME RowIInv, NEW r \in Rebuilders, Rebuild(r)
  PROVE  RowsFollow'
  <1>1. /\ follower \in [Followers -> Subscriptions(Len(events))] /\ at \in [Starters -> Places]
        /\ runner.manager \in Followers \union {Nothing} /\ r \in Starters
        /\ FollowersHold /\ RowsFollow
    BY RunnerTyped DEF RowIInv, RunnerIInv, Starters
  <1>2. UNCHANGED <<events, table, checkpoint, filed, dirty>> /\ at' = [at EXCEPT ![r] = "listing"] /\ at[r] = "idle"
    BY DEF Rebuild, Proceed, storeVars
  <1>3. \A f \in Followers : follower'[f].applied = follower[f].applied
    BY <1>1 DEF Rebuild, Subscriptions
  <1>4. \A q \in Starters : at'[q] = "resetting" => at[q] = "resetting"
    BY <1>1, <1>2
  <1> QED
    BY <1>1, <1>2, <1>3, <1>4 DEF RowsFollow, RowFollows, Sound, Applied

\* Nor does one that raises: what it left is set aside already.
LEMMA RowsUnderRaise ==
  ASSUME RowIInv, RebuildsApart, NEW r \in Rebuilders, Raise(r)
  PROVE  RowsFollow'
  <1>1. RunnerIInv /\ RowsFollow
    BY DEF RowIInv
  <1>2. UNCHANGED <<events, table, checkpoint, filed, follower, dirty>> /\ \A q \in Starters : at'[q] = "idle"
    BY <1>1, RaiseKeeps DEF Raise, storeVars
  <1> QED
    BY <1>1, <1>2 DEF RowsFollow, RowFollows, Sound, Applied

\* A process that goes down forgets that an event was applied, and counts it again;
\* where that shows, the row is set aside.
LEMMA RowsUnderCrash ==
  ASSUME RowIInv, Crash
  PROVE  RowsFollow'
  <1>1. /\ FollowersHold /\ RowsFollow /\ StartsAreFirst /\ events \in Seq(Event)
        /\ checkpoint \in Nat /\ Len(events) \in Nat
    BY RunnerTyped DEF RowIInv, RunnerIInv
  <1>2. UNCHANGED <<events, table, checkpoint, filed>>
    BY DEF Crash, storeVars
  <1>3. ~Applied' /\ \A r \in Starters : at'[r] # "resetting"
    BY NamesAssumption DEF Crash, Applied, Fresh, Starters
  <1>4. ASSUME NEW s \in Sessions \ dirty', Sound(s)' PROVE RowFollows(s)'
    <2>1. s \notin dirty /\ s \notin Recounted /\ Sound(s)
      BY <1>2, <1>4 DEF Crash, Sound
    <2>2. RowFollows(s)
      BY <1>1, <1>4, <2>1 DEF RowsFollow
    <2>3. CASE ~Applied
      BY <1>2, <1>3, <2>2, <2>3 DEF RowFollows
    <2>4. CASE Applied
      <3> DEFINE event == events[checkpoint + 1]
      <3>1. PICK f \in Followers : follower[f].applied
        BY <2>4 DEF Applied
      <3>2. Running(f) /\ checkpoint < Len(events) /\ Next1(f) = checkpoint + 1
        BY <1>1, <3>1 DEF FollowersHold, Next1
      <3>3. table[s] = Derived(events, s, checkpoint + 1)
        BY <2>2, <2>4 DEF RowFollows
      <3>4. CASE event.of # s
        <4>1. Derived(events, s, checkpoint + 1) = Derived(events, s, checkpoint)
          BY <1>1, <3>2, <3>4, DerivedStep
        <4> QED
          BY <1>2, <1>3, <3>3, <4>1 DEF RowFollows
      <3>5. CASE event.of = s
        <4>1. checkpoint + 1 \notin filed
          BY <2>1, <3>5 DEF Sound
        <4>2. event.kind # "failure"
          BY <1>4, <2>1, <3>1, <3>2, <3>5, <4>1 DEF Recounted
        <4> QED
          BY <1>2, <3>2, <3>3, <4>2 DEF RowFollows
      <3> QED
        BY <3>4, <3>5
    <2> QED
      BY <2>3, <2>4
  <1> QED
    BY <1>3, <1>4 DEF RowsFollow

\* Every step that leaves the rebuilds apart keeps the rows.
LEMMA RowsStay == RowIInv /\ RebuildsApart /\ [RunnerNext]_runnerVars => RowIInv'
  <1> SUFFICES ASSUME RowIInv, RebuildsApart, [RunnerNext]_runnerVars PROVE RowIInv'
    OBVIOUS
  <1>1. RunnerIInv'
    BY RunnerStays DEF RowIInv
  <1>2. StartsAreFirst /\ RowsFollow
    BY DEF RowIInv
  <1>3. CASE UNCHANGED runnerVars
    <2>1. UNCHANGED <<events, table, checkpoint, filed, follower, at, dirty>>
      BY <1>3 DEF runnerVars, storeVars
    <2> QED
      BY <1>1, <1>2, <2>1 DEF RowIInv, StartsAreFirst, RowsFollow, RowFollows, Sound, Applied
  <1>4. ASSUME NEW s \in Sessions, NEW kind \in {"started", "turn", "failure"}, Extend(s, kind) PROVE RowIInv'
    BY <1>1, <1>4, RowsUnderExtend DEF RowIInv
  <1>5. ASSUME UNCHANGED events PROVE StartsAreFirst'
    BY <1>2, <1>5 DEF StartsAreFirst
  <1>6. ASSUME NEW f \in Followers, Serve(f) PROVE RowIInv'
    <2>1. UNCHANGED events
      BY <1>6 DEF Serve, Apply, File, Checkpoint
    <2> QED
      BY <1>1, <1>5, <1>6, <2>1, RowsUnderServe DEF RowIInv
  <1>7. ASSUME NEW r \in Starters, Work(r) PROVE RowIInv'
    <2>1. UNCHANGED events
      BY <1>7 DEF Work, List, Resolve, Truncate, Reset, Close, Check, Open, Follow
    <2> QED
      BY <1>1, <1>5, <1>7, <2>1, RowsUnderWork DEF RowIInv
  <1>8. ASSUME NEW r \in Rebuilders, Rebuild(r) PROVE RowIInv'
    <2>1. UNCHANGED events
      BY <1>8 DEF Rebuild
    <2> QED
      BY <1>1, <1>5, <1>8, <2>1, RowsUnderRebuild DEF RowIInv
  <1>10. ASSUME NEW r \in Rebuilders, Raise(r) PROVE RowIInv'
    <2>1. UNCHANGED events
      BY <1>10 DEF Raise
    <2> QED
      BY <1>1, <1>5, <1>10, <2>1, RowsUnderRaise DEF RowIInv
  <1>9. CASE Crash
    <2>1. UNCHANGED events
      BY <1>9 DEF Crash
    <2> QED
      BY <1>1, <1>5, <1>9, <2>1, RowsUnderCrash DEF RowIInv
  <1> QED
    BY <1>3, <1>4, <1>6, <1>7, <1>8, <1>9, <1>10 DEF RunnerNext

\* The table as it starts: no event, no row.
LEMMA RowsStart == RunnerInit => RowIInv
  <1> SUFFICES ASSUME RunnerInit PROVE RowIInv
    OBVIOUS
  <1>1. /\ DOMAIN events = {} /\ checkpoint = 0 /\ \A s \in Sessions : table[s] = Nothing
        /\ \A f \in Followers : ~follower[f].applied
    BY DEF RunnerInit, Fresh
  <1>2. \A s \in Sessions : RowFollows(s)
    BY <1>1, DerivedOfNothing DEF RowFollows, Applied
  <1>3. \A r \in Starters : at[r] # "resetting"
    BY DEF RunnerInit
  <1> QED
    BY <1>1, <1>2, <1>3, RunnerStarts DEF RowIInv, StartsAreFirst, RowsFollow

\* As long as no two rebuilds overlap, a row that is not what the log derives has a
\* failure filed on its session, but for what a crash or a rebuild that raised leaves,
\* which the next rebuild to drop the checkpoint makes up for.
THEOREM DriftIsNeverSilent == RunnerSpec /\ []RebuildsApart => []DriftIsFiled
  <1>1. RowIInv => DriftIsFiled
    <2> SUFFICES ASSUME RowIInv, NEW s \in Sessions \ dirty, Sound(s)
                 PROVE  \E n \in {checkpoint, checkpoint + 1} :
                          n <= Len(events) /\ table[s] = Derived(events, s, n)
      BY DEF DriftIsFiled, Sound
    <2>1. RowFollows(s) /\ checkpoint \in 0..Len(events) /\ Len(events) \in Nat
      BY RunnerTyped DEF RowIInv, RunnerIInv, RowsFollow
    <2> QED
      BY <2>1 DEF RowFollows
  <1> QED
    BY RowsStart, RowsStay, <1>1, PTL DEF RunnerSpec

(***************************************************************************)
(* What a rebuild is said to be.                                           *)
(***************************************************************************)
\* No handler fails for good, no rebuild raises, and the process stays up.
NothingFails == lapses = 0 /\ faults = 0

Emptied == \E r \in Starters : at[r] = "resetting"

\* Then nothing is ever filed, and the rows are exact but in an emptied table.
CleanIInv ==
  /\ RowIInv /\ filed = {} /\ \A r \in Starters : left[r] = {}
  /\ ~Emptied => dirty = {}
  /\ ~Emptied /\ ~Applied => \A s \in Sessions : table[s] = Derived(events, s, checkpoint)

\* An event that is due finds its connection and its row.
LEMMA DueWorks ==
  ASSUME CleanIInv, NEW f \in Followers, Due(f)
  PROVE  Works(f)
  <1>1. /\ FollowersHold /\ PlacesHold /\ StartsAreFirst /\ events \in Seq(Event)
        /\ checkpoint \in Nat /\ Len(events) \in Nat /\ at \in [Starters -> Places]
    BY RunnerTyped DEF CleanIInv, RowIInv, RunnerIInv
  <1>2. /\ follower[f].running /\ follower[f].open /\ Next1(f) = checkpoint + 1
        /\ checkpoint + 1 \in DOMAIN events /\ ~follower[f].applied
    BY <1>1 DEF Due, FollowersHold, Running, Next1
  <1>3. \A r \in Starters : at[r] = "idle"
    BY <1>1, <1>2 DEF PlacesHold, Running
  <1>4. ~Emptied /\ ~Applied
    BY <1>1, <1>2, <1>3 DEF Emptied, Applied, FollowersHold, Running
  <1> DEFINE event == events[checkpoint + 1]
  <1>5. event \in Event
    BY <1>1, <1>2
  <1>6. event.of \in Sessions
    BY <1>5 DEF Event
  <1>7. checkpoint < Len(events)
    BY <1>1, <1>2
  <1>8. ASSUME event.kind # "started" PROVE table[event.of] # Nothing
    <2>1. Derived(events, event.of, checkpoint) \in SessionRows
      BY <1>1, <1>6, <1>7, <1>8, DerivedStep
    <2>2. table[event.of] = Derived(events, event.of, checkpoint)
      BY <1>4, <1>6 DEF CleanIInv
    <2> QED
      BY <2>1, <2>2, NamesAssumption DEF SessionRows
  <1> QED
    BY <1>2, <1>8 DEF Works

\* Every step that fails nothing keeps the rows exact.
LEMMA CleanStays ==
  CleanIInv /\ RebuildsApart /\ NothingFails /\ NothingFails' /\ [RunnerNext]_runnerVars => CleanIInv'
  <1> SUFFICES ASSUME CleanIInv, RebuildsApart, NothingFails, NothingFails', [RunnerNext]_runnerVars
               PROVE  CleanIInv'
    OBVIOUS
  <1>1. RowIInv' /\ RowIInv /\ RunnerIInv /\ filed = {} /\ lapses = 0 /\ faults = 0
        /\ lapses' = 0 /\ faults' = 0 /\ (\A r \in Starters : left[r] = {})
    BY RowsStay DEF CleanIInv, NothingFails, RowIInv
  <1>2. ASSUME filed' = {}, \A r \in Starters : left'[r] = {},
               ~Emptied' => dirty' = {},
               ~Emptied' /\ ~Applied' => \A s \in Sessions : table'[s] = Derived(events', s, checkpoint')
        PROVE  CleanIInv'
    BY <1>1, <1>2 DEF CleanIInv
  <1>3. CASE UNCHANGED runnerVars
    <2>1. UNCHANGED <<events, table, checkpoint, filed, follower, at, left, dirty>>
      BY <1>3 DEF runnerVars, storeVars
    <2> QED
      BY <1>1, <1>2, <2>1 DEF CleanIInv, Emptied, Applied
  <1>4. ASSUME NEW s \in Sessions, NEW kind \in {"started", "turn", "failure"}, Extend(s, kind)
        PROVE  CleanIInv'
    <2>1. UNCHANGED <<table, checkpoint, filed, follower, at, left, dirty>>
      BY <1>4 DEF Extend, storeVars
    <2>2. checkpoint \in Nat /\ \A i \in 1..checkpoint : events'[i] = events[i]
      <3>1. RunnerTypes /\ events \in Seq(Event) /\ checkpoint \in 0..Len(events) /\ Len(events) \in Nat
        BY <1>1 DEF RunnerIInv, RunnerTypes
      <3>2. \A i \in DOMAIN events : events'[i] = events[i]
        BY <1>4, <3>1, ExtendTypes
      <3>3. 1..checkpoint \subseteq DOMAIN events
        BY <3>1
      <3> QED
        BY <3>1, <3>2, <3>3
    <2>3. \A q : Derived(events', q, checkpoint) = Derived(events, q, checkpoint)
      BY <2>2, DerivedOfLonger
    <2> QED
      BY <1>1, <1>2, <2>1, <2>3 DEF CleanIInv, Emptied, Applied
  <1>5. ASSUME NEW f \in Followers, Serve(f) PROVE CleanIInv'
    <2>1. CASE Apply(f)
      <3>1. UNCHANGED <<filed, dirty, at, left>>
        BY <2>1 DEF Apply
      <3>2. Applied'
        <4>1. follower \in [Followers -> Subscriptions(Len(events))]
          BY <1>1, RunnerTyped DEF RunnerIInv
        <4> QED
          BY <2>1, <4>1 DEF Apply, Applied, Subscriptions
      <3> QED
        BY <1>1, <1>2, <3>1, <3>2 DEF CleanIInv, Emptied
    <2>2. CASE File(f)
      <3>1. Works(f)
        BY <2>2, DueWorks DEF File
      <3>2. lapses' = lapses + 1
        BY <2>2, <3>1 DEF File
      <3> QED
        BY <1>1, <3>2
    <2>3. CASE Checkpoint(f)
      <3>1. /\ UNCHANGED <<events, table, filed, at, left, dirty>> /\ checkpoint' = checkpoint + 1 /\ Applied
        <4>1. follower[f].position = checkpoint
          BY <1>1, <2>3 DEF RunnerIInv, FollowersHold, Checkpoint
        <4> QED
          BY <2>3, <4>1 DEF Checkpoint, Applied, Next1
      <3>2. ASSUME ~Emptied', NEW s \in Sessions PROVE table[s] = Derived(events, s, checkpoint + 1)
        <4>1. Sound(s) /\ s \notin dirty
          BY <1>1, <3>1, <3>2 DEF CleanIInv, Emptied, Sound
        <4>2. RowFollows(s)
          BY <1>1, <4>1 DEF RowIInv, RowsFollow
        <4> QED
          BY <3>1, <4>2 DEF RowFollows
      <3> QED
        BY <1>1, <1>2, <3>1, <3>2 DEF CleanIInv, Emptied
    <2> QED
      BY <1>5, <2>1, <2>2, <2>3 DEF Serve
  <1>6. ASSUME NEW r \in Starters, Work(r) PROVE CleanIInv'
    <2>1. /\ PlacesHold /\ BootIsAlone /\ RowsFollow /\ at \in [Starters -> Places]
          /\ r \in Rebuilders \/ r = "boot"
      BY <1>1 DEF RowIInv, RunnerIInv, RunnerTypes, Starters
    <2>2. /\ \A q \in Starters \ {r} : at[q] = "idle" /\ at'[q] = "idle"
          /\ ~Applied
      BY <1>1, <1>6, NobodyApplies
    <2>7. left \in [Starters -> SUBSET DOMAIN events]
      BY <1>1 DEF RunnerIInv, RunnerTypes
    <2>3. filed' = {} /\ (\A q \in Starters : left'[q] = {})
      BY <1>1, <1>6, <2>7 DEF Work, List, Resolve, Truncate, Reset, Close, Check, Open, Follow, storeVars
    <2>4. CASE Truncate(r)
      <3>1. at'[r] = "resetting"
        BY <2>1, <2>4 DEF Truncate, Proceed
      <3>2. Emptied'
        BY <3>1 DEF Emptied
      <3> QED
        BY <1>2, <2>3, <3>2
    <2>5. CASE Reset(r)
      <3>1. dirty' = {} /\ checkpoint' = 0 /\ UNCHANGED <<events, table>> /\ \A s \in Sessions : table[s] = Nothing
        BY <2>1, <2>5 DEF Reset, RowsFollow
      <3> QED
        BY <1>2, <2>3, <3>1, DerivedOfNothing
    <2>8. ~Resolve(r)
      BY <1>1 DEF Resolve
    <2>6. CASE List(r) \/ Close(r) \/ Check(r) \/ Open(r) \/ Follow(r)
      <3>1. UNCHANGED <<events, table, checkpoint, dirty>> /\ at[r] # "resetting"
        BY <2>6 DEF List, Close, Check, Open, Follow, storeVars
      <3>2. ~Emptied
        BY <2>2, <3>1 DEF Emptied
      <3> QED
        BY <1>2, <2>2, <2>3, <3>1, <3>2 DEF CleanIInv
    <2> QED
      BY <1>6, <2>4, <2>5, <2>6, <2>8 DEF Work
  <1>7. ASSUME NEW r \in Rebuilders, Rebuild(r) PROVE CleanIInv'
    <2>1. UNCHANGED <<events, table, checkpoint, filed, left, dirty>> /\ at' = [at EXCEPT ![r] = "listing"] /\ at[r] = "idle"
      BY <1>7 DEF Rebuild, Proceed, storeVars
    <2>2. \A f \in Followers : follower'[f].applied = follower[f].applied
      <3>1. follower \in [Followers -> Subscriptions(Len(events))]
        BY <1>1, RunnerTyped DEF RunnerIInv
      <3> QED
        BY <1>7, <3>1 DEF Rebuild, Subscriptions
    <2>3. Emptied' = Emptied
      <3>1. at \in [Starters -> Places] /\ Rebuilders \subseteq Starters
        BY <1>1 DEF RunnerIInv, RunnerTypes, Starters
      <3> QED
        BY <2>1, <3>1 DEF Emptied
    <2> QED
      BY <1>1, <1>2, <2>1, <2>2, <2>3 DEF CleanIInv, Applied
  <1>8. ~Crash /\ \A r \in Rebuilders : ~Raise(r)
    BY <1>1 DEF Crash, Raise
  <1> QED
    BY <1>3, <1>4, <1>5, <1>6, <1>7, <1>8 DEF RunnerNext

\* A rebuild is safe to call at any time but one: during another.  As long as no two
\* overlap, and nothing fails, the table is what the log derives whenever nobody works
\* on it; the run with two overlapping ones shows that this much is needed.
THEOREM RebuildsApartAreSafe == RunnerSpec /\ []RebuildsApart /\ []NothingFails => []RebuildIsSafe
  <1>1. RunnerInit => CleanIInv
    <2> SUFFICES ASSUME RunnerInit PROVE CleanIInv
      OBVIOUS
    <2>1. /\ checkpoint = 0 /\ filed = {} /\ dirty = {} /\ \A s \in Sessions : table[s] = Nothing
          /\ \A r \in Starters : left[r] = {}
      BY DEF RunnerInit
    <2> QED
      BY <2>1, RowsStart, DerivedOfNothing DEF CleanIInv
  <1>2. CleanIInv => RebuildIsSafe
    BY DEF CleanIInv, RebuildIsSafe, Emptied, Applied
  <1> QED
    BY <1>1, <1>2, CleanStays, PTL DEF RunnerSpec

=============================================================================
