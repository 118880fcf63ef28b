------------------------ MODULE ProjectLineageProofs ------------------------
(***************************************************************************)
(* Proofs about ProjectLineage, for any number of sessions and clients.    *)
(***************************************************************************)
EXTENDS ProjectLineage, TLAPS

(***************************************************************************)
(* The aggregate's events yield well-formed projects.                      *)
(***************************************************************************)
LEMMA JoinedType ==
  ASSUME NEW p \in ProjectState, NEW s \in Sessions
  PROVE  Joined(p, s) \in ProjectState
<1> DEFINE members == Append(p.members, [session |-> s, inheritedAt |-> p.tipAt])
           v == [p EXCEPT !.version = p.version + 1]
           a == [v EXCEPT !.active = s]
<1>1. members \in Seq(Membership)
  <2>1. [session |-> s, inheritedAt |-> p.tipAt] \in Membership
    BY DEF ProjectState, Membership
  <2> QED BY <2>1 DEF ProjectState
<1>2. v \in ProjectState BY DEF ProjectState
<1>3. a \in ProjectState
  <2> HIDE DEF v
  <2> QED BY <1>2 DEF ProjectState, SessionOrNone
<1>4. Joined(p, s) = [a EXCEPT !.members = members]
  BY DEF Joined
<1> HIDE DEF members, v, a
<1> QED BY <1>1, <1>3, <1>4 DEF ProjectState

LEMMA TipAdvancedType ==
  ASSUME NEW p \in ProjectState, NEW s \in SessionOrNone, NEW n \in Nat
  PROVE  TipAdvanced(p, s, n) \in ProjectState
<1> DEFINE v == [p EXCEPT !.version = p.version + 1]
           a == [v EXCEPT !.active = NoSession]
           t == [a EXCEPT !.tip = s]
<1>1. v \in ProjectState BY DEF ProjectState
<1>2. a \in ProjectState
  <2> HIDE DEF v
  <2> QED BY <1>1 DEF ProjectState, SessionOrNone
<1>3. t \in ProjectState
  <2> HIDE DEF a
  <2> QED BY <1>2 DEF ProjectState
<1>4. TipAdvanced(p, s, n) = [t EXCEPT !.tipAt = n]
  BY DEF TipAdvanced
<1> HIDE DEF v, a, t
<1> QED BY <1>3, <1>4 DEF ProjectState

LEMMA WithStatusType ==
  ASSUME NEW p \in ProjectState, NEW status \in {"created", "archived", "deleted"}
  PROVE  WithStatus(p, status) \in ProjectState
<1> DEFINE v == [p EXCEPT !.version = p.version + 1]
<1>1. v \in ProjectState BY DEF ProjectState
<1>2. WithStatus(p, status) = [v EXCEPT !.status = status] BY DEF WithStatus
<1> HIDE DEF v
<1> QED BY <1>1, <1>2 DEF ProjectState

LEMMA CaughtUpType ==
  ASSUME NEW p \in ProjectState, NEW n \in Nat
  PROVE  CaughtUp(p, n) \in ProjectState
<1>1. p.tip \in SessionOrNone BY DEF ProjectState
<1> QED BY <1>1, TipAdvancedType DEF CaughtUp

LEMMA DecidedType ==
  ASSUME NEW p \in ProjectState, NEW command \in LifecyclePC
  PROVE  Decided(command, p) \in ProjectState
<1>1. CASE command = "editing"
  BY <1>1 DEF Decided, Edited, ProjectState
<1>2. CASE command # "editing"
  <2>1. StatusAfter[command] \in {"created", "archived", "deleted"}
    BY <1>2 DEF StatusAfter, LifecyclePC
  <2> QED BY <1>2, <2>1, WithStatusType DEF Decided
<1> QED BY <1>1, <1>2

\* What a new session inherits is a set of file events.
LEMMA WorkType ==
  ASSUME stream \in [Sessions -> Seq(SUBSET Work)],
         NEW s \in Sessions, NEW n \in 0..Len(stream[s])
  PROVE  WorkIn(stream[s], n) \in SUBSET Work
<1> SUFFICES ASSUME NEW i \in 1..n PROVE stream[s][i] \in SUBSET Work
  BY DEF WorkIn
<1> QED BY DEF Work

(***************************************************************************)
(* Facts about the fields of the evolved projects, used in every step.     *)
(***************************************************************************)
LEMMA JoinedFields ==
  ASSUME NEW p \in ProjectState, NEW s \in Sessions
  PROVE  /\ Joined(p, s).status = p.status
         /\ Joined(p, s).version = p.version + 1
         /\ Joined(p, s).active = s
         /\ Joined(p, s).tip = p.tip
         /\ Joined(p, s).tipAt = p.tipAt
         /\ Joined(p, s).members
              = Append(p.members, [session |-> s, inheritedAt |-> p.tipAt])
BY DEF Joined, ProjectState

LEMMA TipAdvancedFields ==
  ASSUME NEW p \in ProjectState, NEW s \in SessionOrNone, NEW n \in Nat
  PROVE  /\ TipAdvanced(p, s, n).status = p.status
         /\ TipAdvanced(p, s, n).version = p.version + 1
         /\ TipAdvanced(p, s, n).active = NoSession
         /\ TipAdvanced(p, s, n).tip = s
         /\ TipAdvanced(p, s, n).tipAt = n
         /\ TipAdvanced(p, s, n).members = p.members
BY DEF TipAdvanced, ProjectState

LEMMA DecidedFields ==
  ASSUME NEW p \in ProjectState, NEW command \in LifecyclePC
  PROVE  /\ Decided(command, p).version = p.version + 1
         /\ Decided(command, p).active = p.active
         /\ Decided(command, p).tip = p.tip
         /\ Decided(command, p).tipAt = p.tipAt
         /\ Decided(command, p).members = p.members
         /\ Decided(command, p).status =
              IF command = "editing" THEN p.status ELSE StatusAfter[command]
BY DEF Decided, Edited, WithStatus, ProjectState

(***************************************************************************)
(* Type correctness of one step.                                           *)
(***************************************************************************)
LEMMA NewProjectType == NewProject \in ProjectState
<1>1. <<>> \in Seq(Membership) OBVIOUS
<1> QED BY <1>1 DEF NewProject, ProjectState, SessionOrNone

LEMMA FinishType ==
  ASSUME TypeOK, NEW c \in Clients, Finish(c)
  PROVE  /\ pc' \in [Clients -> PC]
         /\ snap' \in [Clients -> ProjectState]
         /\ sess' \in [Clients -> SessionOrNone]
         /\ at' \in [Clients -> Nat]
BY NewProjectType DEF TypeOK, Finish, Goto, PC, SessionOrNone

LEMMA TypeStep == LineageInv /\ [Next]_vars => TypeOK'
<1> SUFFICES ASSUME LineageInv, [Next]_vars PROVE TypeOK'
  OBVIOUS
<1>t. TypeOK BY DEF LineageInv
<1>1. CASE CreateProject
  <2>1. WithStatus(project, "created") \in ProjectState
    BY <1>t, WithStatusType DEF TypeOK
  <2> QED BY <1>1, <1>t, <2>1 DEF CreateProject, TypeOK
<1>2. ASSUME NEW c \in Clients, ClientStep(c) PROVE TypeOK'
  <2>1. CASE BeginJoin(c)
    BY <1>t, <2>1 DEF BeginJoin, Goto, TypeOK, PC
  <2>2. CASE DecideJoin(c)
    <3>1. CaughtUpAt(snap[c]) \in Nat
      <4>1. snap[c] \in ProjectState BY <1>t DEF TypeOK
      <4>2. snap[c].tip \in SessionOrNone /\ snap[c].tipAt \in Nat
        BY <4>1 DEF ProjectState
      <4> QED BY <1>t, <4>2 DEF CaughtUpAt, TypeOK, SessionOrNone
    <3>2. pc' \in [Clients -> PC] BY <1>t, <2>2 DEF DecideJoin, Goto, TypeOK, PC
    <3>3. sess' \in [Clients -> SessionOrNone]
      BY <1>t, <2>2 DEF DecideJoin, TypeOK, SessionOrNone
    <3>4. at' \in [Clients -> Nat] BY <1>t, <2>2, <3>1 DEF DecideJoin, TypeOK
    <3> QED BY <1>t, <2>2, <3>2, <3>3, <3>4 DEF DecideJoin, TypeOK
  <2>3. CASE RefuseJoin(c)
    BY <1>t, <2>3, FinishType DEF RefuseJoin, TypeOK
  <2>4. CASE ForkFiles(c)
    <3>1. sess[c] \in Sessions BY <2>4 DEF LineageInv, JoinersAreFresh, ForkFiles
    <3>2. Inherited(snap[c], at[c]) \in SUBSET Work
      <4>1. snap[c] \in ProjectState BY <1>t DEF TypeOK
      <4>2. snap[c].tip \in SessionOrNone BY <4>1 DEF ProjectState
      <4>3. CASE snap[c].tip = NoSession
        BY <4>3 DEF Inherited
      <4>4. CASE snap[c].tip # NoSession
        <5>1. at[c] \in 0..Len(stream[snap[c].tip])
          BY <2>4, <4>4 DEF LineageInv, JoinersInherit, ForkFiles
        <5>2. snap[c].tip \in Sessions BY <4>2, <4>4 DEF SessionOrNone
        <5> QED BY <1>t, <4>4, <5>1, <5>2, WorkType DEF Inherited, TypeOK
      <4> QED BY <4>3, <4>4
    <3>3. <<Inherited(snap[c], at[c])>> \in Seq(SUBSET Work) BY <3>2
    <3>4. stream' \in [Sessions -> Seq(SUBSET Work)]
      BY <1>t, <2>4, <3>1, <3>3 DEF ForkFiles, TypeOK
    <3> QED BY <1>t, <2>4, <3>4 DEF ForkFiles, Goto, TypeOK, PC
  <2>5. CASE SaveJoin(c)
    <3>1. /\ snap[c] \in ProjectState
          /\ at[c] \in Nat
      BY <1>t DEF TypeOK
    <3>2. sess[c] \in Sessions BY <2>5 DEF LineageInv, JoinersAreFresh, SaveJoin
    <3>3. project' \in ProjectState
      BY <2>5, <3>1, <3>2, CaughtUpType, JoinedType DEF SaveJoin
    <3> QED BY <1>t, <2>5, <3>3, FinishType DEF SaveJoin, TypeOK
  <2>6. CASE BeginRelease(c)
    <3>1. \A s \in Sessions : Len(stream[s]) \in Nat BY <1>t DEF TypeOK
    <3> QED BY <1>t, <2>6, <3>1 DEF BeginRelease, Goto, TypeOK, PC, SessionOrNone
  <2>7. CASE LoadHeld(c)
    BY <1>t, <2>7 DEF LoadHeld, Goto, TypeOK, PC
  <2>8. CASE NothingToRelease(c)
    BY <1>t, <2>8, FinishType DEF NothingToRelease, TypeOK
  <2>9. CASE SaveRelease(c)
    <3>1. /\ snap[c] \in ProjectState
          /\ at[c] \in Nat
          /\ sess[c] \in SessionOrNone
      BY <1>t DEF TypeOK
    <3>2. project' \in ProjectState BY <2>9, <3>1, TipAdvancedType DEF SaveRelease
    <3> QED BY <1>t, <2>9, <3>2, FinishType DEF SaveRelease, TypeOK
  <2>10. CASE BeginLifecycle(c)
    BY <1>t, <2>10 DEF BeginLifecycle, Goto, TypeOK, PC
  <2>11. CASE SaveLifecycle(c)
    <3>1. snap[c] \in ProjectState BY <1>t DEF TypeOK
    <3>2. project' \in ProjectState BY <2>11, <3>1, DecidedType DEF SaveLifecycle
    <3> QED BY <1>t, <2>11, <3>2, FinishType DEF SaveLifecycle, TypeOK
  <2>12. CASE RefuseLifecycle(c)
    BY <1>t, <2>12, FinishType DEF RefuseLifecycle, TypeOK
  <2>13. CASE LoseSave(c)
    BY <1>t, <2>13, FinishType DEF LoseSave, TypeOK
  <2>14. CASE Crash(c)
    BY <1>t, <2>14, FinishType DEF Crash, TypeOK
  <2> QED BY <1>2, <2>1, <2>2, <2>3, <2>4, <2>5, <2>6, <2>7, <2>8, <2>9, <2>10,
             <2>11, <2>12, <2>13, <2>14 DEF ClientStep
<1>3. ASSUME NEW s \in Sessions, SessionSave(s) PROVE TypeOK'
  <2>1. PICK w \in {{}, {<<s, Len(stream[s]) + 1>>}} :
          stream' = [stream EXCEPT ![s] = Append(@, w)]
    BY <1>3 DEF SessionSave
  <2>2. stream[s] \in Seq(SUBSET Work) BY <1>t DEF TypeOK
  <2>3. w \in SUBSET Work BY <2>1, <2>2 DEF Work
  <2>4. Append(stream[s], w) \in Seq(SUBSET Work) BY <2>2, <2>3
  <2>5. stream' \in [Sessions -> Seq(SUBSET Work)] BY <1>t, <2>1, <2>4 DEF TypeOK
  <2> QED BY <1>t, <1>3, <2>5 DEF SessionSave, TypeOK
<1>4. CASE UNCHANGED vars
  BY <1>t, <1>4 DEF vars, TypeOK
<1> QED BY <1>1, <1>2, <1>3, <1>4 DEF Next

(***************************************************************************)
(* How one step changes streams, the stored project and a client's locals. *)
(***************************************************************************)
Grows ==
  \A s \in Sessions :
    /\ Len(stream[s]) <= Len(stream'[s])
    /\ \A i \in 1..Len(stream[s]) : stream'[s][i] = stream[s][i]

\* Streams are append-only.
LEMMA StreamsGrow == LineageInv /\ [Next]_vars => Grows
<1> SUFFICES ASSUME LineageInv, [Next]_vars PROVE Grows
  OBVIOUS
<1>t. stream \in [Sessions -> Seq(SUBSET Work)] BY DEF LineageInv, TypeOK
<1>1. CASE stream' = stream
  BY <1>t, <1>1 DEF Grows
<1>2. ASSUME NEW c \in Clients, ForkFiles(c) PROVE Grows
  <2>1. stream[sess[c]] = <<>> /\ sess[c] \in Sessions
    BY <1>2 DEF ForkFiles, LineageInv, JoinersAreFresh, Exists
  <2>2. \A s \in Sessions \ {sess[c]} : stream'[s] = stream[s]
    BY <1>t, <1>2, <2>1 DEF ForkFiles
  <2>3. Len(stream'[sess[c]]) = 1
    BY <1>t, <1>2, <2>1 DEF ForkFiles
  <2> QED BY <1>t, <2>1, <2>2, <2>3 DEF Grows
<1>3. ASSUME NEW s \in Sessions, SessionSave(s) PROVE Grows
  <2>1. PICK w \in {{}, {<<s, Len(stream[s]) + 1>>}} :
          stream' = [stream EXCEPT ![s] = Append(@, w)]
    BY <1>3 DEF SessionSave
  <2>2. stream[s] \in Seq(SUBSET Work) BY <1>t
  <2>3. w \in SUBSET Work BY <2>1, <2>2 DEF Work
  <2>4. \A r \in Sessions \ {s} : stream'[r] = stream[r] BY <1>t, <2>1
  <2>5. stream'[s] = Append(stream[s], w) BY <1>t, <2>1
  <2>6. /\ Len(stream'[s]) = Len(stream[s]) + 1
        /\ \A i \in 1..Len(stream[s]) : stream'[s][i] = stream[s][i]
    BY <2>2, <2>3, <2>5
  <2> QED BY <1>t, <2>2, <2>4, <2>6 DEF Grows
<1> QED
  BY <1>1, <1>2, <1>3
  DEF Next, vars, ClientStep, CreateProject, BeginJoin, DecideJoin, RefuseJoin,
      SaveJoin, BeginRelease, LoadHeld, NothingToRelease, SaveRelease,
      BeginLifecycle, SaveLifecycle, RefuseLifecycle, LoseSave, Crash

\* What was in a prefix of a stream stays what is in it.
LEMMA PrefixStable ==
  ASSUME Grows
  PROVE  \A s \in Sessions : \A n \in 0..Len(stream[s]) :
           WorkIn(stream'[s], n) = WorkIn(stream[s], n)
<1> SUFFICES ASSUME NEW s \in Sessions, NEW n \in 0..Len(stream[s])
             PROVE  WorkIn(stream'[s], n) = WorkIn(stream[s], n)
  OBVIOUS
<1>1. \A i \in 1..n : stream'[s][i] = stream[s][i] BY DEF Grows
<1> QED BY <1>1 DEF WorkIn

\* Every save of the project makes a new version of it.
LEMMA VersionGrows ==
  LineageInv /\ [Next]_vars => project' = project \/ project'.version > project.version
<1> SUFFICES ASSUME LineageInv, [Next]_vars
             PROVE  project' = project \/ project'.version > project.version
  OBVIOUS
<1>t. /\ project \in ProjectState
      /\ \A c \in Clients : /\ snap[c] \in ProjectState
                            /\ at[c] \in Nat
                            /\ sess[c] \in SessionOrNone
  BY DEF LineageInv, TypeOK
<1>1. ASSUME CreateProject PROVE project'.version > project.version
  BY <1>1, <1>t DEF CreateProject, WithStatus, ProjectState
<1>2. ASSUME NEW c \in Clients, SaveJoin(c) PROVE project'.version > project.version
  <2>1. sess[c] \in Sessions /\ snap[c] = project
    BY <1>2 DEF SaveJoin, LineageInv, JoinersAreFresh, SnapshotsAreOld, Loaded
  <2>2. CaughtUp(project, at[c]) \in ProjectState BY <1>t, CaughtUpType
  <2>3. project.tip \in SessionOrNone /\ project.version \in Nat BY <1>t DEF ProjectState
  <2>4. CaughtUp(project, at[c]).version >= project.version
    BY <1>t, <2>3, TipAdvancedFields DEF CaughtUp
  <2>5. project' = Joined(CaughtUp(project, at[c]), sess[c])
    BY <1>2, <2>1 DEF SaveJoin
  <2>6. project'.version = CaughtUp(project, at[c]).version + 1
    BY <2>1, <2>2, <2>5, JoinedFields
  <2>7. CaughtUp(project, at[c]).version \in Nat BY <2>2 DEF ProjectState
  <2> QED BY <2>3, <2>4, <2>6, <2>7
<1>3. ASSUME NEW c \in Clients, SaveRelease(c) PROVE project'.version > project.version
  <2>1. project'.version = snap[c].version + 1
    BY <1>3, <1>t, TipAdvancedFields DEF SaveRelease
  <2> QED BY <1>3, <1>t, <2>1 DEF SaveRelease, Unchanged, ProjectState
<1>4. ASSUME NEW c \in Clients, SaveLifecycle(c) PROVE project'.version > project.version
  <2>1. project'.version = snap[c].version + 1
    BY <1>4, <1>t, DecidedFields DEF SaveLifecycle
  <2> QED BY <1>4, <1>t, <2>1 DEF SaveLifecycle, Unchanged, ProjectState
<1> QED
  BY <1>1, <1>2, <1>3, <1>4
  DEF Next, vars, ClientStep, BeginJoin, DecideJoin, RefuseJoin, ForkFiles,
      BeginRelease, LoadHeld, NothingToRelease,
      BeginLifecycle, RefuseLifecycle, LoseSave, Crash, SessionSave

\* A loaded project is kept as loaded, and loading takes the stored one.
LEMMA SnapshotStep ==
  LineageInv /\ [Next]_vars =>
    \A d \in Clients : Loaded(d)' =>
      \/ Loaded(d) /\ snap'[d] = snap[d]
      \/ snap'[d] = project /\ project' = project
<1> SUFFICES ASSUME LineageInv, [Next]_vars, NEW d \in Clients, Loaded(d)'
             PROVE  \/ Loaded(d) /\ snap'[d] = snap[d]
                    \/ snap'[d] = project /\ project' = project
  OBVIOUS
<1>t. /\ pc \in [Clients -> PC]
      /\ snap \in [Clients -> ProjectState]
  BY DEF LineageInv, TypeOK
<1>1. CASE pc' = pc /\ snap' = snap
  BY <1>1 DEF Loaded
<1>2. ASSUME NEW c \in Clients, Finish(c)
      PROVE  Loaded(d) /\ snap'[d] = snap[d]
  BY <1>t, <1>2 DEF Finish, Goto, Loaded
<1>3. ASSUME NEW c \in Clients, BeginJoin(c) \/ LoadHeld(c) \/ BeginLifecycle(c)
      PROVE  \/ Loaded(d) /\ snap'[d] = snap[d]
             \/ snap'[d] = project /\ project' = project
  BY <1>t, <1>3 DEF BeginJoin, LoadHeld, BeginLifecycle, Goto, Loaded
<1>4. ASSUME NEW c \in Clients, DecideJoin(c) \/ ForkFiles(c) \/ BeginRelease(c)
      PROVE  Loaded(d) /\ snap'[d] = snap[d]
  BY <1>t, <1>4 DEF DecideJoin, ForkFiles, BeginRelease, Goto, Loaded
<1> QED
  BY <1>1, <1>2, <1>3, <1>4
  DEF Next, vars, ClientStep, CreateProject, RefuseJoin, SaveJoin, NothingToRelease,
      SaveRelease, SaveLifecycle, RefuseLifecycle, LoseSave, Crash, SessionSave

LEMMA SnapshotsStep == LineageInv /\ [Next]_vars => SnapshotsAreOld'
<1> SUFFICES ASSUME LineageInv, [Next]_vars, NEW d \in Clients, Loaded(d)'
             PROVE  /\ snap'[d].version <= project'.version
                    /\ Unchanged(d)' => snap'[d] = project'
                    /\ snap'[d].tip # NoSession =>
                         snap'[d].tipAt \in 1..Len(stream'[snap'[d].tip])
                    /\ snap'[d].tip = NoSession => snap'[d].tipAt = 0
  BY DEF SnapshotsAreOld
<1>t. /\ TypeOK /\ TypeOK' /\ Grows
  BY TypeStep, StreamsGrow DEF LineageInv
<1>1. CASE Loaded(d) /\ snap'[d] = snap[d]
  <2>1. /\ snap[d].version <= project.version
        /\ Unchanged(d) => snap[d] = project
        /\ snap[d].tip # NoSession => snap[d].tipAt \in 1..Len(stream[snap[d].tip])
        /\ snap[d].tip = NoSession => snap[d].tipAt = 0
    BY <1>1 DEF LineageInv, SnapshotsAreOld
  <2>2. /\ snap[d].version \in Nat /\ snap[d].tip \in SessionOrNone
        /\ project.version \in Nat /\ project'.version \in Nat
    <3>1. snap[d] \in ProjectState /\ project \in ProjectState /\ project' \in ProjectState
      BY <1>t DEF TypeOK
    <3> QED BY <3>1 DEF ProjectState
  <2>3. snap[d].tip # NoSession => snap[d].tipAt \in 1..Len(stream'[snap[d].tip])
    BY <1>t, <2>1, <2>2 DEF Grows, SessionOrNone, TypeOK
  <2> QED BY <1>1, <2>1, <2>2, <2>3, VersionGrows DEF Unchanged
<1>2. CASE snap'[d] = project /\ project' = project
  <2>1. /\ project.tip # NoSession => project.tipAt \in 1..Len(stream[project.tip])
        /\ project.tip = NoSession => project.tipAt = 0
    BY DEF LineageInv, TipInStream, ChainOfCustody
  <2>2. project.version \in Nat /\ project.tip \in SessionOrNone
    <3>1. project \in ProjectState BY <1>t DEF TypeOK
    <3> QED BY <3>1 DEF ProjectState
  <2>3. project.tip # NoSession => project.tipAt \in 1..Len(stream'[project.tip])
    BY <1>t, <2>1, <2>2 DEF Grows, SessionOrNone, TypeOK
  <2> QED BY <1>2, <2>1, <2>2, <2>3
<1> QED BY <1>1, <1>2, SnapshotStep

(***************************************************************************)
(* The clients' parts of the invariant.                                    *)
(***************************************************************************)
Joiner(c) == pc[c] \in {"forking", "joinSaving"}

LEMMA JoinersFreshStep == LineageInv /\ [Next]_vars => JoinersAreFresh'
<1> SUFFICES ASSUME LineageInv, [Next]_vars PROVE JoinersAreFresh'
  OBVIOUS
<1>t. TypeOK /\ TypeOK' /\ Grows
  BY TypeStep, StreamsGrow DEF LineageInv
<1>m. project.members \in Seq(Membership) /\ snap \in [Clients -> ProjectState]
  BY <1>t DEF TypeOK, ProjectState
<1>o. JoinersAreFresh BY DEF LineageInv
<1>1. CASE UNCHANGED <<pc, sess, stream>> /\ project'.members = project.members
  BY <1>o, <1>1 DEF JoinersAreFresh, Exists
<1>2. ASSUME NEW c \in Clients, Finish(c), stream' = stream,
             project'.members = project.members
      PROVE  JoinersAreFresh'
  BY <1>o, <1>t, <1>2 DEF JoinersAreFresh, Exists, Finish, Goto, TypeOK
<1>3. ASSUME NEW c \in Clients, BeginJoin(c) \/ LoadHeld(c) \/ BeginLifecycle(c)
      PROVE  JoinersAreFresh'
  BY <1>o, <1>t, <1>3
  DEF BeginJoin, LoadHeld, BeginLifecycle, LifecyclePC, Goto, JoinersAreFresh, Exists, TypeOK
<1>4. ASSUME NEW c \in Clients, BeginRelease(c) PROVE JoinersAreFresh'
  BY <1>o, <1>t, <1>4 DEF BeginRelease, Goto, JoinersAreFresh, Exists, TypeOK
<1>5. ASSUME NEW c \in Clients, DecideJoin(c) PROVE JoinersAreFresh'
  <2>1. PICK s \in Sessions : Fresh(s) /\ sess' = [sess EXCEPT ![c] = s]
    BY <1>5 DEF DecideJoin
  <2>2. /\ pc' = [pc EXCEPT ![c] = "forking"]
        /\ project' = project
        /\ stream' = stream
    BY <1>5 DEF DecideJoin, Goto
  <2>3. \A i \in DOMAIN project.members : project.members[i].session # s
    BY <2>1 DEF Fresh, LineageInv, ChainOfCustody
  <2> QED BY <1>o, <1>t, <2>1, <2>2, <2>3 DEF Fresh, JoinersAreFresh, Exists, TypeOK
<1>6. ASSUME NEW c \in Clients, ForkFiles(c) PROVE JoinersAreFresh'
  <2>1. /\ pc[c] = "forking" /\ sess[c] \in Sessions
        /\ pc' = [pc EXCEPT ![c] = "joinSaving"]
        /\ sess' = sess /\ project' = project
        /\ stream' = [stream EXCEPT ![sess[c]] = <<Inherited(snap[c], at[c])>>]
    BY <1>o, <1>6 DEF ForkFiles, Goto, JoinersAreFresh
  <2>2. /\ stream'[sess[c]] # <<>>
        /\ \A r \in Sessions \ {sess[c]} : stream'[r] = stream[r]
    BY <1>t, <2>1 DEF TypeOK
  <2>3. ASSUME NEW d \in Clients, d # c, Joiner(d)'
        PROVE  Joiner(d) /\ pc'[d] = pc[d] /\ sess[d] # sess[c] /\ sess[d] \in Sessions
    BY <1>o, <1>t, <2>1, <2>3 DEF Joiner, JoinersAreFresh, TypeOK
  <2> QED BY <1>o, <1>t, <2>1, <2>2, <2>3 DEF Joiner, JoinersAreFresh, Exists, TypeOK
<1>7. ASSUME NEW c \in Clients, SaveJoin(c) PROVE JoinersAreFresh'
  <2>1. /\ sess[c] \in Sessions /\ at[c] \in Nat /\ snap[c] = project
        /\ stream' = stream /\ Finish(c)
        /\ project' = Joined(CaughtUp(project, at[c]), sess[c])
    BY <1>t, <1>7 DEF SaveJoin, LineageInv, JoinersAreFresh, SnapshotsAreOld, Loaded, TypeOK
  <2>2. project \in ProjectState /\ CaughtUp(project, at[c]) \in ProjectState
    BY <1>t, <2>1, CaughtUpType DEF TypeOK
  <2>3. CaughtUp(project, at[c]).members = project.members
    <3>1. project.tip \in SessionOrNone BY <2>2 DEF ProjectState
    <3> QED BY <2>1, <2>2, <3>1, TipAdvancedFields DEF CaughtUp
  <2>4. project'.members =
          Append(project.members, [session |-> sess[c],
                                   inheritedAt |-> CaughtUp(project, at[c]).tipAt])
    BY <2>1, <2>2, <2>3, JoinedFields
  <2>5. \A i \in DOMAIN project'.members :
          \/ i \in DOMAIN project.members /\ project'.members[i] = project.members[i]
          \/ project'.members[i].session = sess[c]
    BY <1>m, <2>4
  <2>6. pc[c] = "joinSaving" BY <1>7 DEF SaveJoin
  <2>7. ASSUME NEW d \in Clients, Joiner(d)'
        PROVE  d # c /\ Joiner(d) /\ sess'[d] = sess[d] /\ pc'[d] = pc[d] /\ sess[d] # sess[c]
    BY <1>o, <1>t, <2>1, <2>6, <2>7 DEF Joiner, Finish, Goto, JoinersAreFresh, TypeOK
  <2>8. ASSUME NEW d \in Clients, Joiner(d)'
        PROVE  \A i \in DOMAIN project'.members : project'.members[i].session # sess'[d]
    BY <1>o, <2>5, <2>7, <2>8 DEF Joiner, JoinersAreFresh
  <2>9. ASSUME NEW d \in Clients, Joiner(d)'
        PROVE  /\ sess'[d] \in Sessions
               /\ (pc'[d] = "forking") <=> ~Exists(sess[d])'
    BY <1>o, <2>1, <2>7, <2>9 DEF Joiner, JoinersAreFresh, Exists
  <2>10. ASSUME NEW d \in Clients, NEW e \in Clients, e # d, Joiner(d)', Joiner(e)'
         PROVE  sess'[e] # sess'[d]
    BY <1>o, <2>7, <2>10 DEF Joiner, JoinersAreFresh
  <2> QED BY <2>8, <2>9, <2>10 DEF Joiner, JoinersAreFresh, Exists
<1>8. ASSUME NEW s \in Sessions, SessionSave(s) PROVE JoinersAreFresh'
  <2>1. Exists(s) /\ UNCHANGED <<project, pc, sess>> BY <1>8 DEF SessionSave
  <2>2. PICK w \in {{}, {<<s, Len(stream[s]) + 1>>}} :
          stream' = [stream EXCEPT ![s] = Append(@, w)]
    BY <1>8 DEF SessionSave
  <2>3. \A r \in Sessions \ {s} : stream'[r] = stream[r]
    BY <1>t, <2>2 DEF TypeOK
  <2>4. stream'[s] # <<>>
    <3>1. stream[s] \in Seq(SUBSET Work) /\ stream'[s] = Append(stream[s], w)
      BY <1>t, <2>2 DEF TypeOK
    <3>2. w \in SUBSET Work BY <2>2, <3>1 DEF Work
    <3> QED BY <3>1, <3>2
  <2> QED BY <1>o, <1>t, <2>1, <2>3, <2>4 DEF JoinersAreFresh, Exists, TypeOK
<1>9. ASSUME NEW c \in Clients, SaveRelease(c) \/ SaveLifecycle(c)
      PROVE  Finish(c) /\ stream' = stream /\ project'.members = project.members
  <2>1. snap[c] \in ProjectState /\ at[c] \in Nat /\ sess[c] \in SessionOrNone
    BY <1>t DEF TypeOK
  <2>2. snap[c] = project
    BY <1>9 DEF SaveRelease, SaveLifecycle, LifecyclePC, LineageInv, SnapshotsAreOld, Loaded
  <2> QED BY <1>9, <2>1, <2>2, TipAdvancedFields, DecidedFields DEF SaveRelease, SaveLifecycle
<1>10. CreateProject => project'.members = project.members
  BY <1>t DEF CreateProject, WithStatus, TypeOK, ProjectState
<1> QED
  BY <1>1, <1>2, <1>3, <1>4, <1>5, <1>6, <1>7, <1>8, <1>9, <1>10
  DEF Next, vars, ClientStep, CreateProject, RefuseJoin, NothingToRelease,
      RefuseLifecycle, LoseSave, Crash

\* A joiner's locals change only by its own decision and its own fork.
LEMMA JoinerStep ==
  LineageInv /\ [Next]_vars =>
    \A d \in Clients : Joiner(d)' =>
      \/ DecideJoin(d)
      \/ ForkFiles(d)
      \/ /\ Joiner(d)
         /\ pc'[d] = pc[d] /\ snap'[d] = snap[d] /\ sess'[d] = sess[d] /\ at'[d] = at[d]
<1> SUFFICES ASSUME LineageInv, [Next]_vars, NEW d \in Clients, Joiner(d)'
             PROVE  \/ DecideJoin(d)
                    \/ ForkFiles(d)
                    \/ /\ Joiner(d)
                       /\ pc'[d] = pc[d] /\ snap'[d] = snap[d]
                       /\ sess'[d] = sess[d] /\ at'[d] = at[d]
  OBVIOUS
<1>t. TypeOK BY DEF LineageInv
<1>1. CASE UNCHANGED <<pc, snap, sess, at>>
  BY <1>1 DEF Joiner
<1>2. ASSUME NEW c \in Clients, Finish(c)
      PROVE  /\ Joiner(d)
             /\ pc'[d] = pc[d] /\ snap'[d] = snap[d] /\ sess'[d] = sess[d] /\ at'[d] = at[d]
  BY <1>t, <1>2 DEF Finish, Goto, Joiner, TypeOK
<1>3. ASSUME NEW c \in Clients,
             BeginJoin(c) \/ LoadHeld(c) \/ BeginLifecycle(c) \/ BeginRelease(c)
      PROVE  /\ Joiner(d)
             /\ pc'[d] = pc[d] /\ snap'[d] = snap[d] /\ sess'[d] = sess[d] /\ at'[d] = at[d]
  BY <1>t, <1>3
  DEF BeginJoin, LoadHeld, BeginLifecycle, BeginRelease, LifecyclePC, Goto, Joiner, TypeOK
<1>4. ASSUME NEW c \in Clients, DecideJoin(c) \/ ForkFiles(c), c # d
      PROVE  /\ Joiner(d)
             /\ pc'[d] = pc[d] /\ snap'[d] = snap[d] /\ sess'[d] = sess[d] /\ at'[d] = at[d]
  BY <1>t, <1>4 DEF DecideJoin, ForkFiles, Goto, Joiner, TypeOK
<1> QED
  BY <1>1, <1>2, <1>3, <1>4
  DEF Next, vars, ClientStep, CreateProject, RefuseJoin, SaveJoin, NothingToRelease,
      SaveRelease, SaveLifecycle, RefuseLifecycle, LoseSave, Crash, SessionSave

LEMMA JoinersInheritStep == LineageInv /\ [Next]_vars => JoinersInherit'
<1> SUFFICES ASSUME LineageInv, [Next]_vars, NEW d \in Clients, Joiner(d)'
             PROVE  /\ CanJoin(snap[d])'
                    /\ at'[d] >= snap'[d].tipAt
                    /\ snap'[d].tip = NoSession => at'[d] = 0
                    /\ snap'[d].tip # NoSession => at'[d] \in 1..Len(stream'[snap'[d].tip])
                    /\ pc'[d] = "joinSaving" =>
                         stream'[sess'[d]][1] = Inherited(snap[d], at[d])'
  BY DEF JoinersInherit, Joiner
<1>t. TypeOK /\ TypeOK' /\ Grows
  BY TypeStep, StreamsGrow DEF LineageInv
<1>s. /\ snap[d] \in ProjectState
      /\ snap[d].tip \in SessionOrNone /\ snap[d].tipAt \in Nat
      /\ at[d] \in Nat
  BY <1>t DEF TypeOK, ProjectState
<1>1. CASE DecideJoin(d)
  <2>1. /\ pc[d] = "joining" /\ pc'[d] = "forking"
        /\ snap' = snap /\ stream' = stream
        /\ CanJoin(snap[d])
        /\ at'[d] = CaughtUpAt(snap[d])
    BY <1>t, <1>1 DEF DecideJoin, Goto, TypeOK
  <2>2. /\ snap[d].tip # NoSession => snap[d].tipAt \in 1..Len(stream[snap[d].tip])
        /\ snap[d].tip = NoSession => snap[d].tipAt = 0
    BY <2>1 DEF LineageInv, SnapshotsAreOld, Loaded
  <2>3. snap[d].tip # NoSession => Len(stream[snap[d].tip]) \in Nat
    BY <1>t, <1>s DEF SessionOrNone, TypeOK
  <2> QED BY <1>s, <2>1, <2>2, <2>3 DEF CaughtUpAt, CanJoin
<1>2. ASSUME Joiner(d), UNCHANGED <<snap[d], at[d], sess[d]>>
      PROVE  /\ CanJoin(snap[d])'
             /\ at'[d] >= snap'[d].tipAt
             /\ snap'[d].tip = NoSession => at'[d] = 0
             /\ snap'[d].tip # NoSession =>
                  /\ at'[d] \in 1..Len(stream'[snap'[d].tip])
                  /\ at[d] \in 1..Len(stream[snap[d].tip])
  <2>1. /\ CanJoin(snap[d])
        /\ at[d] >= snap[d].tipAt
        /\ snap[d].tip = NoSession => at[d] = 0
        /\ snap[d].tip # NoSession => at[d] \in 1..Len(stream[snap[d].tip])
    BY <1>2 DEF LineageInv, JoinersInherit, Joiner
  <2>2. snap[d].tip # NoSession =>
          /\ Len(stream[snap[d].tip]) \in Nat
          /\ Len(stream'[snap[d].tip]) \in Nat
          /\ Len(stream[snap[d].tip]) <= Len(stream'[snap[d].tip])
    BY <1>t, <1>s DEF SessionOrNone, TypeOK, Grows
  <2> QED BY <1>2, <1>s, <2>1, <2>2 DEF CanJoin
<1>3. ASSUME Joiner(d), UNCHANGED <<snap[d], at[d], sess[d]>>
      PROVE  Inherited(snap[d], at[d])' = Inherited(snap[d], at[d])
  <2>1. CASE snap[d].tip = NoSession
    BY <1>3, <2>1 DEF Inherited
  <2>2. CASE snap[d].tip # NoSession
    <3>1. snap[d].tip \in Sessions BY <1>s, <2>2 DEF SessionOrNone
    <3>2. at[d] \in 0..Len(stream[snap[d].tip]) BY <1>2, <1>3, <2>2
    <3>4. WorkIn(stream'[snap[d].tip], at[d]) = WorkIn(stream[snap[d].tip], at[d])
      BY <1>t, <3>1, <3>2, PrefixStable
    <3> QED BY <1>3, <2>2, <3>4 DEF Inherited
  <2> QED BY <2>1, <2>2
<1>4. CASE ForkFiles(d)
  <2>1. /\ Joiner(d) /\ UNCHANGED <<snap[d], at[d], sess[d]>>
        /\ sess[d] \in Sessions
        /\ stream' = [stream EXCEPT ![sess[d]] = <<Inherited(snap[d], at[d])>>]
    BY <1>4 DEF ForkFiles, Joiner, LineageInv, JoinersAreFresh
  <2>2. stream'[sess'[d]][1] = Inherited(snap[d], at[d])
    BY <1>t, <2>1 DEF TypeOK
  <2> QED BY <1>2, <1>3, <2>1, <2>2
<1>5. CASE /\ Joiner(d)
           /\ pc'[d] = pc[d] /\ snap'[d] = snap[d] /\ sess'[d] = sess[d] /\ at'[d] = at[d]
  <2>1. ASSUME pc[d] = "joinSaving"
        PROVE  stream'[sess[d]][1] = Inherited(snap[d], at[d])
    <3>1. /\ stream[sess[d]][1] = Inherited(snap[d], at[d])
          /\ sess[d] \in Sessions /\ stream[sess[d]] # <<>>
      BY <2>1 DEF LineageInv, JoinersInherit, JoinersAreFresh, Exists
    <3>2. 1 \in 1..Len(stream[sess[d]])
      BY <1>t, <3>1 DEF TypeOK
    <3> QED BY <1>t, <3>1, <3>2 DEF Grows
  <2> QED BY <1>2, <1>3, <1>5, <2>1
<1> QED BY <1>1, <1>4, <1>5, JoinerStep

LEMMA ReleasersStep == LineageInv /\ [Next]_vars => ReleasersReached'
<1> SUFFICES ASSUME LineageInv, [Next]_vars, NEW d \in Clients,
                    pc'[d] \in {"releasing", "relSaving"}
             PROVE  /\ sess'[d] \in Sessions
                    /\ at'[d] \in 1..Len(stream'[sess'[d]])
                    /\ pc'[d] = "relSaving" => snap'[d].active = sess'[d]
  BY DEF ReleasersReached
<1>t. TypeOK /\ TypeOK' /\ Grows
  BY TypeStep, StreamsGrow DEF LineageInv
<1>1. CASE BeginRelease(d)
  <2>1. PICK s \in Sessions : /\ Exists(s)
                              /\ sess' = [sess EXCEPT ![d] = s]
                              /\ at' = [at EXCEPT ![d] = Len(stream[s])]
    BY <1>1 DEF BeginRelease
  <2>2. stream' = stream /\ pc'[d] = "releasing" BY <1>1, <1>t DEF BeginRelease, Goto, TypeOK
  <2>3. Len(stream[s]) \in 1..Len(stream[s]) BY <1>t, <2>1 DEF Exists, TypeOK
  <2> QED BY <1>t, <2>1, <2>2, <2>3 DEF TypeOK
<1>2. ASSUME pc[d] \in {"releasing", "relSaving"}, sess'[d] = sess[d], at'[d] = at[d]
      PROVE  sess'[d] \in Sessions /\ at'[d] \in 1..Len(stream'[sess'[d]])
  <2>1. sess[d] \in Sessions /\ at[d] \in 1..Len(stream[sess[d]])
    BY <1>2 DEF LineageInv, ReleasersReached
  <2>2. Len(stream[sess[d]]) \in Nat /\ Len(stream'[sess[d]]) \in Nat
    BY <1>t, <2>1 DEF TypeOK
  <2> QED BY <1>2, <1>t, <2>1, <2>2 DEF Grows
<1>3. CASE LoadHeld(d)
  BY <1>t, <1>2, <1>3 DEF LoadHeld, TypeOK
<1>4. ASSUME pc'[d] = pc[d], snap'[d] = snap[d], sess'[d] = sess[d], at'[d] = at[d]
      PROVE  /\ sess'[d] \in Sessions
             /\ at'[d] \in 1..Len(stream'[sess'[d]])
             /\ pc'[d] = "relSaving" => snap'[d].active = sess'[d]
  BY <1>2, <1>4 DEF LineageInv, ReleasersReached
<1>5. ASSUME NEW c \in Clients, Finish(c)
      PROVE  pc'[d] = pc[d] /\ snap'[d] = snap[d] /\ sess'[d] = sess[d] /\ at'[d] = at[d]
  BY <1>t, <1>5 DEF Finish, Goto, TypeOK
<1>6. ASSUME NEW c \in Clients,
             \/ BeginJoin(c) \/ DecideJoin(c) \/ ForkFiles(c) \/ BeginLifecycle(c)
             \/ c # d /\ (BeginRelease(c) \/ LoadHeld(c))
      PROVE  pc'[d] = pc[d] /\ snap'[d] = snap[d] /\ sess'[d] = sess[d] /\ at'[d] = at[d]
  BY <1>t, <1>6
  DEF BeginJoin, DecideJoin, ForkFiles, BeginLifecycle, BeginRelease, LoadHeld,
      LifecyclePC, Goto, TypeOK
<1> QED
  BY <1>1, <1>3, <1>4, <1>5, <1>6
  DEF Next, vars, ClientStep, CreateProject, RefuseJoin, SaveJoin, NothingToRelease,
      SaveRelease, SaveLifecycle, RefuseLifecycle, LoseSave, Crash, SessionSave

(***************************************************************************)
(* The stored project's part of the invariant.                             *)
(***************************************************************************)
StoredInv ==
  /\ HolderExists /\ InheritsUpToRecordedPoint /\ TipInStream
  /\ ChainOfCustody /\ JoinedAtTip

\* The lineage survives any step that grows streams and touches nothing of it.
LEMMA LineageFrame ==
  ASSUME LineageInv, TypeOK', Grows,
         UNCHANGED <<project.active, project.tip, project.tipAt, project.members>>,
         project.active # NoSession => project'.status = project.status
  PROVE  StoredInv'
<1>t. /\ project.members \in Seq(Membership)
      /\ project.active \in SessionOrNone
      /\ project.tip \in SessionOrNone
      /\ stream \in [Sessions -> Seq(SUBSET Work)]
      /\ stream' \in [Sessions -> Seq(SUBSET Work)]
  BY DEF LineageInv, TypeOK, ProjectState
<1>m. \A i \in DOMAIN project.members :
        /\ project.members[i].session \in Sessions
        /\ project.members[i].inheritedAt \in Nat
  <2> SUFFICES ASSUME NEW i \in DOMAIN project.members
               PROVE  /\ project.members[i].session \in Sessions
                      /\ project.members[i].inheritedAt \in Nat
    OBVIOUS
  <2>1. project.members[i] \in Membership BY <1>t
  <2> QED BY <2>1 DEF Membership
<1>e. \A s \in Sessions : Exists(s) => Exists(s)'
  <2> SUFFICES ASSUME NEW s \in Sessions, stream[s] # <<>> PROVE stream'[s] # <<>>
    BY DEF Exists
  <2>1. 1 \in 1..Len(stream[s]) BY <1>t
  <2>2. Len(stream'[s]) >= 1 BY <1>t, <2>1 DEF Grows
  <2> QED BY <1>t, <2>2
<1>1. HolderExists'
  <2>1. project.active # NoSession => Exists(project.active)'
    BY <1>t, <1>e DEF LineageInv, HolderExists, SessionOrNone
  <2> QED BY <2>1 DEF LineageInv, HolderExists, Exists
<1>2. InheritsUpToRecordedPoint'
  <2> SUFFICES ASSUME NEW i \in DOMAIN project.members
               PROVE  stream'[project.members[i].session][1] =
                        IF i = 1 THEN {}
                        ELSE WorkIn(stream'[project.members[i-1].session],
                                    project.members[i].inheritedAt)
    BY DEF InheritsUpToRecordedPoint
  <2>1. stream'[project.members[i].session][1] = stream[project.members[i].session][1]
    <3>1. Exists(project.members[i].session)
      BY DEF LineageInv, ChainOfCustody
    <3>2. 1 \in 1..Len(stream[project.members[i].session])
      BY <1>t, <1>m, <3>1 DEF Exists
    <3> QED BY <1>m, <3>2 DEF Grows
  <2>2. CASE i = 1
    BY <2>1, <2>2 DEF LineageInv, InheritsUpToRecordedPoint
  <2>3. CASE i # 1
    <3>0. i - 1 \in DOMAIN project.members /\ i > 1
      BY <1>t, <2>3
    <3>1. /\ project.members[i-1].session \in Sessions
          /\ project.members[i].inheritedAt
               \in 0..Len(stream[project.members[i-1].session])
      BY <1>m, <3>0 DEF LineageInv, JoinedAtTip
    <3>2. WorkIn(stream'[project.members[i-1].session], project.members[i].inheritedAt)
            = WorkIn(stream[project.members[i-1].session], project.members[i].inheritedAt)
      BY <3>1, PrefixStable
    <3> QED BY <2>1, <2>3, <3>2 DEF LineageInv, InheritsUpToRecordedPoint
  <2> QED BY <2>2, <2>3
<1>3. TipInStream'
  <2>1. CASE project.tip = NoSession
    BY <2>1 DEF TipInStream
  <2>2. CASE project.tip # NoSession
    <3>1. project.tip \in Sessions BY <1>t, <2>2 DEF SessionOrNone
    <3> QED BY <1>t, <2>2, <3>1 DEF LineageInv, TipInStream, Grows
  <2> QED BY <2>1, <2>2
<1>4. ChainOfCustody'
  BY <1>e, <1>m DEF LineageInv, ChainOfCustody, Exists
<1>5. JoinedAtTip'
  <2> SUFFICES ASSUME NEW i \in DOMAIN project.members, i > 1
               PROVE  project.members[i].inheritedAt
                        \in 1..Len(stream'[project.members[i-1].session])
    BY DEF LineageInv, JoinedAtTip, Last
  <2>1. i - 1 \in DOMAIN project.members BY <1>t
  <2>2. project.members[i].inheritedAt \in 1..Len(stream[project.members[i-1].session])
    BY DEF LineageInv, JoinedAtTip
  <2> QED BY <1>t, <1>m, <2>1, <2>2 DEF Grows
<1> QED BY <1>1, <1>2, <1>3, <1>4, <1>5 DEF StoredInv

\* A release hands the holder's stream over, as far as it was when read.
LEMMA ReleaseStep ==
  ASSUME LineageInv, TypeOK', NEW c \in Clients, SaveRelease(c)
  PROVE  StoredInv'
<1>1. /\ snap[c] = project /\ stream' = stream
      /\ project.active = sess[c] /\ sess[c] \in Sessions
      /\ at[c] \in 1..Len(stream[sess[c]])
      /\ project' = TipAdvanced(project, sess[c], at[c])
  BY DEF SaveRelease, LineageInv, SnapshotsAreOld, ReleasersReached, Loaded
<1>t. /\ project \in ProjectState
      /\ project.members \in Seq(Membership)
      /\ at[c] \in Nat
      /\ sess[c] \in SessionOrNone
  BY DEF LineageInv, TypeOK, ProjectState
<1>2. /\ project'.active = NoSession
      /\ project'.tip = sess[c]
      /\ project'.tipAt = at[c]
      /\ project'.members = project.members
  BY <1>1, <1>t, TipAdvancedFields
<1>3. /\ project.active # NoSession
      /\ project.members # <<>>
      /\ project.active = project.members[Len(project.members)].session
  BY <1>1, NoSessionIsNone DEF LineageInv, HolderExists
<1>4. HolderExists' BY <1>2 DEF HolderExists
<1>5. InheritsUpToRecordedPoint'
  BY <1>1, <1>2 DEF LineageInv, InheritsUpToRecordedPoint
<1>6. TipInStream' BY <1>1, <1>2 DEF TipInStream
<1>7. ChainOfCustody'
  <2>1. Len(project.members) # 0 BY <1>3, <1>t
  <2>2. sess[c] # NoSession BY <1>1, NoSessionIsNone
  <2> QED BY <1>1, <1>2, <1>3, <2>1, <2>2 DEF LineageInv, ChainOfCustody, Exists
<1>8. JoinedAtTip' BY <1>1, <1>2 DEF LineageInv, JoinedAtTip
<1> QED BY <1>4, <1>5, <1>6, <1>7, <1>8 DEF StoredInv

\* A join that wins its save extends the chain by one link.
LEMMA JoinStep ==
  ASSUME LineageInv, TypeOK', NEW c \in Clients, SaveJoin(c)
  PROVE  StoredInv'
<1> DEFINE n == at[c]
           s == sess[c]
           old == project.members
           len == Len(project.members)
           caught == CaughtUp(project, at[c])
<1>1. /\ snap[c] = project /\ stream' = stream
      /\ s \in Sessions /\ Exists(s)
      /\ \A i \in DOMAIN old : old[i].session # s
      /\ CanJoin(project)
      /\ n >= project.tipAt
      /\ project.tip = NoSession => n = 0
      /\ project.tip # NoSession => n \in 1..Len(stream[project.tip])
      /\ stream[s][1] = Inherited(project, n)
      /\ project' = Joined(caught, s)
  BY DEF SaveJoin, LineageInv, SnapshotsAreOld, JoinersAreFresh, JoinersInherit, Loaded
<1>t. /\ project \in ProjectState
      /\ old \in Seq(Membership)
      /\ n \in Nat
      /\ project.tip \in SessionOrNone
      /\ project.tipAt \in Nat
      /\ len \in Nat /\ DOMAIN old = 1..len
  BY DEF LineageInv, TypeOK, ProjectState
<1>2. /\ caught \in ProjectState
      /\ caught.members = old
      /\ caught.tip = project.tip
      /\ caught.tipAt = n
      /\ caught.status = "created"
  <2>1. CASE n > project.tipAt
    BY <1>1, <1>t, <2>1, TipAdvancedType, TipAdvancedFields DEF CaughtUp, CanJoin
  <2>2. CASE ~(n > project.tipAt)
    BY <1>1, <1>t, <2>2 DEF CaughtUp, CanJoin
  <2> QED BY <2>1, <2>2
<1>3. /\ project'.active = s
      /\ project'.status = "created"
      /\ project'.tip = project.tip
      /\ project'.tipAt = n
      /\ project'.members = Append(old, [session |-> s, inheritedAt |-> n])
  <2> HIDE DEF caught, s, n, old
  <2> QED BY <1>1, <1>2, JoinedFields
<1>4. /\ Len(project'.members) = len + 1
      /\ DOMAIN project'.members = 1..(len + 1)
      /\ \A i \in 1..len : project'.members[i] = old[i]
      /\ project'.members[len + 1] = [session |-> s, inheritedAt |-> n]
  <2>1. [session |-> s, inheritedAt |-> n] \in Membership
    BY <1>1, <1>t DEF Membership
  <2> HIDE DEF s, n
  <2> QED BY <1>t, <1>3, <2>1
<1>5. /\ s # NoSession
      /\ project.active = NoSession
      /\ project.tip = IF len = 0 THEN NoSession ELSE old[len].session
      /\ len # 0 => old[len].session \in Sessions
  <2>1. project.active = NoSession BY <1>1 DEF CanJoin
  <2>2. len # 0 => old[len] \in Membership BY <1>t
  <2> QED BY <1>1, <2>1, <2>2, NoSessionIsNone DEF LineageInv, ChainOfCustody, Membership
<1>6. len # 0 => project.tip # NoSession
  BY <1>5, NoSessionIsNone
<1> HIDE DEF caught, s, n, old, len
<1>7. HolderExists'
  <2>1. project'.members # <<>> BY <1>4, <1>t
  <2> QED BY <1>1, <1>3, <1>4, <2>1 DEF HolderExists, Exists
<1>8. InheritsUpToRecordedPoint'
  <2> SUFFICES ASSUME NEW i \in 1..(len + 1)
               PROVE  stream[project'.members[i].session][1] =
                        IF i = 1 THEN {}
                        ELSE WorkIn(stream[project'.members[i-1].session],
                                    project'.members[i].inheritedAt)
    BY <1>1, <1>4 DEF InheritsUpToRecordedPoint
  <2>1. CASE i \in 1..len
    <3>1. i # 1 => i - 1 \in 1..len BY <2>1, <1>t
    <3>2. stream[old[i].session][1] =
            IF i = 1 THEN {} ELSE WorkIn(stream[old[i-1].session], old[i].inheritedAt)
      BY <1>t, <2>1 DEF LineageInv, InheritsUpToRecordedPoint, old
    <3> QED BY <1>4, <2>1, <3>1, <3>2
  <2>2. CASE i = len + 1
    <3>1. CASE len = 0
      BY <1>1, <1>4, <1>5, <2>2, <3>1 DEF Inherited
    <3>2. CASE len # 0
      <4>1. i # 1 /\ i - 1 \in 1..len /\ i - 1 = len BY <1>t, <2>2, <3>2
      <4>2. project'.members[i].session = s /\ project'.members[i].inheritedAt = n
        BY <1>4, <2>2
      <4>3. project'.members[i-1].session = project.tip
        BY <1>4, <1>5, <3>2, <4>1
      <4>4. stream[s][1] = WorkIn(stream[project.tip], n)
        BY <1>1, <1>6, <3>2 DEF Inherited
      <4> QED BY <4>1, <4>2, <4>3, <4>4
    <3> QED BY <3>1, <3>2
  <2> QED BY <1>t, <2>1, <2>2
<1>9. TipInStream' BY <1>1, <1>3 DEF TipInStream
<1>10. ChainOfCustody'
  <2>1. \A i, j \in 1..(len + 1) :
          project'.members[i].session = project'.members[j].session => i = j
    <3>1. \A i, j \in 1..len : old[i].session = old[j].session => i = j
      BY <1>t DEF LineageInv, ChainOfCustody, old
    <3>2. \A i \in 1..len : project'.members[i].session = old[i].session /\ old[i].session # s
      BY <1>1, <1>t, <1>4
    <3>3. project'.members[len + 1].session = s
      BY <1>4
    <3>4. \A i \in 1..(len + 1) : i \in 1..len \/ i = len + 1
      BY <1>t
    <3> QED BY <3>1, <3>2, <3>3, <3>4
  <2>2. \A i \in 1..(len + 1) : Exists(project'.members[i].session)
    <3>1. \A i \in 1..len : Exists(old[i].session)
      BY <1>t DEF LineageInv, ChainOfCustody, old
    <3>2. \A i \in 1..(len + 1) : i \in 1..len \/ i = len + 1 BY <1>t
    <3> QED BY <1>1, <1>4, <3>1, <3>2
  <2>3. project'.tip = NoSession => project'.tipAt = 0 BY <1>1, <1>3
  <2>4. project'.tip = IF len = 0 THEN NoSession ELSE project'.members[len].session
    BY <1>t, <1>3, <1>4, <1>5
  <2> QED BY <1>1, <1>t, <1>3, <1>4, <1>5, <2>1, <2>2, <2>3, <2>4 DEF ChainOfCustody, Exists
<1>11. JoinedAtTip'
  <2>1. Last(project'.members).inheritedAt = project'.tipAt
    BY <1>3, <1>4 DEF Last
  <2>2. ASSUME NEW i \in 1..(len + 1), i > 1
        PROVE  project'.members[i].inheritedAt \in 1..Len(stream[project'.members[i-1].session])
    <3>1. CASE i \in 1..len
      <4>1. i - 1 \in 1..len BY <1>t, <2>2, <3>1
      <4>2. old[i].inheritedAt \in 1..Len(stream[old[i-1].session])
        BY <1>t, <2>2, <3>1 DEF LineageInv, JoinedAtTip, old
      <4> QED BY <1>4, <3>1, <4>1, <4>2
    <3>2. CASE i = len + 1
      <4>1. len # 0 /\ i - 1 = len /\ len \in 1..len BY <1>t, <2>2, <3>2
      <4>2. project'.members[i].inheritedAt = n
        BY <1>4, <3>2
      <4>3. project'.members[i-1].session = project.tip
        BY <1>4, <1>5, <4>1
      <4>4. n \in 1..Len(stream[project.tip])
        BY <1>1, <1>6, <4>1
      <4> QED BY <4>2, <4>3, <4>4
    <3> QED BY <1>t, <2>2, <3>1, <3>2
  <2> QED BY <1>1, <1>4, <2>1, <2>2 DEF JoinedAtTip
<1> QED BY <1>7, <1>8, <1>9, <1>10, <1>11 DEF StoredInv

LEMMA StoredStep == LineageInv /\ [Next]_vars => StoredInv'
<1> SUFFICES ASSUME LineageInv, [Next]_vars PROVE StoredInv'
  OBVIOUS
<1>t. TypeOK /\ TypeOK' /\ Grows
  BY TypeStep, StreamsGrow DEF LineageInv
<1>1. CASE project' = project
  BY <1>t, <1>1, LineageFrame
<1>2. CASE CreateProject
  <2>1. /\ project'.active = project.active /\ project'.tip = project.tip
        /\ project'.tipAt = project.tipAt /\ project'.members = project.members
    BY <1>t, <1>2 DEF CreateProject, WithStatus, TypeOK, ProjectState
  <2>2. project.active = NoSession
    BY <1>2 DEF CreateProject, LineageInv, HolderExists
  <2> QED BY <1>t, <2>1, <2>2, LineageFrame
<1>3. ASSUME NEW c \in Clients, SaveJoin(c) PROVE StoredInv'
  BY <1>t, <1>3, JoinStep
<1>4. ASSUME NEW c \in Clients, SaveRelease(c) PROVE StoredInv'
  BY <1>t, <1>4, ReleaseStep
<1>5. ASSUME NEW c \in Clients, SaveLifecycle(c) PROVE StoredInv'
  <2>1. /\ snap[c] = project /\ project \in ProjectState
        /\ pc[c] \in LifecyclePC /\ Accepts(pc[c], project)
        /\ project' = Decided(pc[c], project)
    BY <1>t, <1>5
    DEF SaveLifecycle, LifecyclePC, LineageInv, SnapshotsAreOld, Loaded, TypeOK
  <2>2. /\ project'.active = project.active /\ project'.tip = project.tip
        /\ project'.tipAt = project.tipAt /\ project'.members = project.members
        /\ project'.status = IF pc[c] = "editing" THEN project.status ELSE StatusAfter[pc[c]]
    BY <2>1, DecidedFields
  <2>3. project.active # NoSession => project.status = "created"
    BY DEF LineageInv, HolderExists
  <2>4. project.active # NoSession => pc[c] = "editing"
    BY <2>1, <2>3 DEF Accepts, CanArchive, CanUnarchive, CanDelete
  <2> QED BY <1>t, <2>2, <2>4, LineageFrame
<1> QED
  BY <1>1, <1>2, <1>3, <1>4, <1>5
  DEF Next, vars, ClientStep, BeginJoin, DecideJoin, RefuseJoin, ForkFiles,
      BeginRelease, LoadHeld, NothingToRelease,
      BeginLifecycle, RefuseLifecycle, LoseSave, Crash, SessionSave

(***************************************************************************)
(* The invariant.                                                          *)
(***************************************************************************)
LEMMA InvInit == Init => LineageInv
<1> SUFFICES ASSUME Init PROVE LineageInv
  OBVIOUS
<1>1. TypeOK
  <2>1. <<>> \in Seq(SUBSET Work) OBVIOUS
  <2> QED BY <2>1, NewProjectType DEF Init, TypeOK, PC, SessionOrNone
<1>2. /\ project.active = NoSession /\ project.tip = NoSession
      /\ project.tipAt = 0 /\ project.members = <<>>
  BY DEF Init, NewProject
<1>3. HolderExists /\ InheritsUpToRecordedPoint /\ TipInStream /\ ChainOfCustody /\ JoinedAtTip
  BY <1>2 DEF HolderExists, InheritsUpToRecordedPoint, TipInStream, ChainOfCustody, JoinedAtTip
<1>4. SnapshotsAreOld /\ JoinersAreFresh /\ JoinersInherit /\ ReleasersReached
  BY DEF Init, SnapshotsAreOld, JoinersAreFresh, JoinersInherit, ReleasersReached, Loaded
<1> QED BY <1>1, <1>3, <1>4 DEF LineageInv

LEMMA InvStep == LineageInv /\ [Next]_vars => LineageInv'
BY TypeStep, StoredStep, SnapshotsStep, JoinersFreshStep, JoinersInheritStep, ReleasersStep
DEF LineageInv, StoredInv

\* Whatever joins, releases, lifecycle commands, crashes and turns interleave,
\* the lineage invariant holds: the chain of custody, snapshots that are no
\* newer than the store, and joiners that carry exactly what they will record.
THEOREM LineageInvariant == Spec => []LineageInv
<1>1. Init => LineageInv BY InvInit
<1>2. LineageInv /\ [Next]_vars => LineageInv' BY InvStep
<1> QED BY <1>1, <1>2, PTL DEF Spec

\* Every variable keeps its type.
THEOREM TypeCorrect == Spec => []TypeOK
<1>1. LineageInv => TypeOK BY DEF LineageInv
<1> QED BY <1>1, LineageInvariant, PTL

\* A held project is held by its last member, a session that exists.
THEOREM HolderAlwaysExists == Spec => []HolderExists
<1>1. LineageInv => HolderExists BY DEF LineageInv
<1> QED BY <1>1, LineageInvariant, PTL

\* Each member inherited exactly the previous member's files, up to the offset
\* its join recorded.
THEOREM InheritanceIsExact == Spec => []InheritsUpToRecordedPoint
<1>1. LineageInv => InheritsUpToRecordedPoint BY DEF LineageInv
<1> QED BY <1>1, LineageInvariant, PTL

(***************************************************************************)
(* Custody of the work.                                                    *)
(***************************************************************************)
\* Readers see the work the project has taken custody of.
LEMMA SecuredInView == LineageInv => Secured \subseteq View
<1> SUFFICES ASSUME LineageInv, project.tip # NoSession
             PROVE  WorkIn(stream[project.tip], project.tipAt) \subseteq View
  BY DEF Secured
<1>t. /\ project.members \in Seq(Membership)
      /\ project.tip \in Sessions /\ project.active \in SessionOrNone
      /\ stream \in [Sessions -> Seq(SUBSET Work)]
  BY DEF LineageInv, TypeOK, ProjectState, SessionOrNone
<1>1. CASE project.active = NoSession
  <2>1. View = WorkIn(stream[project.tip], Len(stream[project.tip]))
    BY <1>1 DEF View, AllWork
  <2>2. project.tipAt \in 1..Len(stream[project.tip])
    BY DEF LineageInv, TipInStream
  <2> QED BY <1>t, <2>1, <2>2 DEF WorkIn
<1>2. CASE project.active # NoSession
  <2> DEFINE len == Len(project.members)
  <2>1. /\ Exists(project.active)
        /\ project.members # <<>>
        /\ project.active = project.members[len].session
    BY <1>2 DEF LineageInv, HolderExists
  <2>2. project.tip = IF len - 1 = 0 THEN NoSession ELSE project.members[len - 1].session
    BY <1>2 DEF LineageInv, ChainOfCustody
  <2>3. len \in DOMAIN project.members /\ len # 1
    BY <1>t, <2>1, <2>2
  <2>4. stream[project.active][1] = WorkIn(stream[project.tip], project.tipAt)
    BY <1>2, <2>1, <2>2, <2>3 DEF LineageInv, InheritsUpToRecordedPoint, JoinedAtTip, Last
  <2>5. 1 \in 1..Len(stream[project.active])
    BY <1>t, <1>2, <2>1 DEF Exists, SessionOrNone
  <2>6. stream[project.active][1] \subseteq WorkIn(stream[project.active], Len(stream[project.active]))
    BY <2>5 DEF WorkIn
  <2> QED BY <1>2, <2>4, <2>6 DEF View, AllWork
<1> QED BY <1>1, <1>2

\* The tip moves along its stream, or is handed to the holder's by a release.
LEMMA TipStep ==
  LineageInv /\ [Next]_vars =>
    \/ project'.tip = project.tip /\ project'.tipAt >= project.tipAt
    \/ /\ project'.tip = project.active
       /\ project.active # NoSession /\ project.active # project.tip
       /\ project'.tipAt \in 1..Len(stream[project.active])
       /\ stream' = stream
<1> SUFFICES ASSUME LineageInv, [Next]_vars
             PROVE  \/ project'.tip = project.tip /\ project'.tipAt >= project.tipAt
                    \/ /\ project'.tip = project.active
                       /\ project.active # NoSession /\ project.active # project.tip
                       /\ project'.tipAt \in 1..Len(stream[project.active])
                       /\ stream' = stream
  OBVIOUS
<1>t. /\ TypeOK
      /\ project \in ProjectState
      /\ project.tipAt \in Nat /\ project.tip \in SessionOrNone
      /\ project.members \in Seq(Membership)
      /\ \A c \in Clients : at[c] \in Nat /\ sess[c] \in SessionOrNone
  BY DEF LineageInv, TypeOK, ProjectState
<1>1. CASE project' = project
  BY <1>t, <1>1
<1>2. CASE CreateProject
  BY <1>t, <1>2 DEF CreateProject, WithStatus, ProjectState
<1>3. ASSUME NEW c \in Clients, SaveJoin(c)
      PROVE  project'.tip = project.tip /\ project'.tipAt >= project.tipAt
  <2>1. /\ snap[c] = project /\ sess[c] \in Sessions
        /\ project' = Joined(CaughtUp(project, at[c]), sess[c])
    BY <1>3 DEF SaveJoin, LineageInv, SnapshotsAreOld, JoinersAreFresh, Loaded
  <2>2. CaughtUp(project, at[c]) \in ProjectState
    BY <1>t, CaughtUpType
  <2>3. /\ CaughtUp(project, at[c]).tip = project.tip
        /\ CaughtUp(project, at[c]).tipAt >= project.tipAt
    BY <1>t, TipAdvancedFields DEF CaughtUp
  <2> QED BY <2>1, <2>2, <2>3, JoinedFields
<1>4. ASSUME NEW c \in Clients, SaveRelease(c)
      PROVE  /\ project'.tip = project.active
             /\ project.active # NoSession /\ project.active # project.tip
             /\ project'.tipAt \in 1..Len(stream[project.active])
             /\ stream' = stream
  <2>1. /\ snap[c] = project /\ stream' = stream
        /\ project.active = sess[c] /\ sess[c] \in Sessions
        /\ at[c] \in 1..Len(stream[sess[c]])
        /\ project' = TipAdvanced(project, sess[c], at[c])
    BY <1>4 DEF SaveRelease, LineageInv, SnapshotsAreOld, ReleasersReached, Loaded
  <2>2. project'.tip = sess[c] /\ project'.tipAt = at[c]
    BY <1>t, <2>1, TipAdvancedFields
  <2>3. project.active # NoSession BY <2>1, NoSessionIsNone
  <2>4. project.active # project.tip
    <3> DEFINE len == Len(project.members)
    <3>1. /\ project.members # <<>>
          /\ project.active = project.members[len].session
          /\ project.tip = IF len - 1 = 0 THEN NoSession ELSE project.members[len - 1].session
      BY <2>3 DEF LineageInv, HolderExists, ChainOfCustody
    <3>2. CASE len - 1 = 0 BY <2>3, <3>1, <3>2
    <3>3. CASE len - 1 # 0
      <4>1. len \in Nat /\ len # 0 /\ DOMAIN project.members = 1..len
        BY <1>t, <3>1
      <4> HIDE DEF len
      <4>2. len \in 1..len /\ len - 1 \in 1..len /\ len - 1 # len
        BY <3>3, <4>1
      <4> QED BY <3>1, <3>3, <4>1, <4>2 DEF LineageInv, ChainOfCustody
    <3> QED BY <3>2, <3>3
  <2> QED BY <2>1, <2>2, <2>3, <2>4
<1>5. ASSUME NEW c \in Clients, SaveLifecycle(c)
      PROVE  project'.tip = project.tip /\ project'.tipAt = project.tipAt
  <2>1. snap[c] = project /\ pc[c] \in LifecyclePC /\ project' = Decided(pc[c], project)
    BY <1>5 DEF SaveLifecycle, LifecyclePC, LineageInv, SnapshotsAreOld, Loaded
  <2> QED BY <1>t, <2>1, DecidedFields
<1> QED
  BY <1>t, <1>1, <1>2, <1>3, <1>4, <1>5
  DEF Next, vars, ClientStep, BeginJoin, DecideJoin, RefuseJoin, ForkFiles,
      BeginRelease, LoadHeld, NothingToRelease,
      BeginLifecycle, RefuseLifecycle, LoseSave, Crash, SessionSave

\* The tip never moves backwards, and changes streams only by a release.
THEOREM TipAdvances == Spec => TipOnlyAdvances
<1>1. LineageInv /\ [Next]_vars =>
        [IF project'.tip = project.tip THEN project'.tipAt >= project.tipAt
         ELSE project'.tip = project.active]_vars
  BY TipStep
<1> QED BY <1>1, LineageInvariant, PTL DEF Spec, TipOnlyAdvances

LEMMA SecuredStep == LineageInv /\ [Next]_vars => Secured \subseteq Secured'
<1> SUFFICES ASSUME LineageInv, [Next]_vars, project.tip # NoSession
             PROVE  WorkIn(stream[project.tip], project.tipAt) \subseteq Secured'
  BY DEF Secured
<1>t. /\ TypeOK /\ TypeOK' /\ Grows
  BY TypeStep, StreamsGrow DEF LineageInv
<1>s. /\ project.members \in Seq(Membership)
      /\ project.tip \in Sessions /\ project.active \in SessionOrNone
      /\ project.tipAt \in Nat /\ project'.tipAt \in Nat
      /\ stream \in [Sessions -> Seq(SUBSET Work)]
  BY <1>t DEF TypeOK, ProjectState, SessionOrNone
<1>1. CASE project'.tip = project.tip /\ project'.tipAt >= project.tipAt
  <2>1. project.tipAt \in 0..Len(stream[project.tip])
    BY DEF LineageInv, TipInStream
  <2>2. WorkIn(stream'[project.tip], project.tipAt) = WorkIn(stream[project.tip], project.tipAt)
    BY <1>t, <1>s, <2>1, PrefixStable
  <2>3. WorkIn(stream'[project.tip], project.tipAt)
          \subseteq WorkIn(stream'[project.tip], project'.tipAt)
    BY <1>1, <1>s DEF WorkIn
  <2>4. Secured' = WorkIn(stream'[project.tip], project'.tipAt)
    BY <1>1 DEF Secured
  <2> QED BY <2>2, <2>3, <2>4
<1>2. CASE /\ project'.tip = project.active
           /\ project.active # NoSession
           /\ project'.tipAt \in 1..Len(stream[project.active])
           /\ stream' = stream
  <2> DEFINE len == Len(project.members)
  <2>1. /\ project.members # <<>>
        /\ project.active = project.members[len].session
        /\ project.tip = IF len - 1 = 0 THEN NoSession ELSE project.members[len - 1].session
    BY <1>2 DEF LineageInv, HolderExists, ChainOfCustody
  <2>2. len \in DOMAIN project.members /\ len # 1
    BY <1>s, <2>1
  <2>3. stream[project.active][1] = WorkIn(stream[project.tip], project.tipAt)
    BY <1>2, <2>1, <2>2 DEF LineageInv, InheritsUpToRecordedPoint, JoinedAtTip, Last
  <2>4. stream[project.active][1] \subseteq WorkIn(stream[project.active], project'.tipAt)
    BY <1>2, <1>s DEF WorkIn
  <2>5. Secured' = WorkIn(stream[project.active], project'.tipAt)
    BY <1>2 DEF Secured
  <2> QED BY <2>3, <2>4, <2>5
<1> QED BY <1>1, <1>2, TipStep

\* Work the project has taken custody of is never lost, and readers see it.
THEOREM SecuredWorkKept == Spec => SecuredWorkIsKept
<1>1. LineageInv => Secured \subseteq View BY SecuredInView
<1>2. LineageInv /\ [Next]_vars => Secured \subseteq Secured' BY SecuredStep
<1> QED BY <1>1, <1>2, LineageInvariant, PTL DEF Spec, SecuredWorkIsKept

(***************************************************************************)
(* The project implements the lease.                                       *)
(***************************************************************************)
LEMMA LeaseInit == Init => Lease!Init
<1> SUFFICES ASSUME Init PROVE Lease!Init
  OBVIOUS
<1>1. project.status = "new" /\ project.active = NoSession /\ project.members = <<>>
  BY DEF Init, NewProject
<1>2. Custody = <<>>
  BY <1>1 DEF Custody
<1> QED BY <1>1, <1>2 DEF Lease!Init

LEMMA LeaseStep == LineageInv /\ [Next]_vars => [Lease!Next]_(Lease!vars)
<1> SUFFICES ASSUME LineageInv, [Next]_vars PROVE [Lease!Next]_(Lease!vars)
  OBVIOUS
<1>t. /\ TypeOK
      /\ project \in ProjectState
      /\ project.members \in Seq(Membership)
      /\ \A c \in Clients : at[c] \in Nat /\ sess[c] \in SessionOrNone
  BY DEF LineageInv, TypeOK, ProjectState
<1>1. CASE project' = project
  BY <1>1 DEF Lease!vars, Custody
<1>2. CASE CreateProject
  <2>1. /\ project'.active = project.active /\ project'.members = project.members
        /\ project'.status = "created"
    BY <1>t, <1>2 DEF CreateProject, WithStatus, ProjectState
  <2>2. Custody' = Custody BY <2>1 DEF Custody
  <2> QED BY <1>2, <2>1, <2>2 DEF CreateProject, Lease!Next, Lease!Create
<1>3. ASSUME NEW c \in Clients, SaveJoin(c) PROVE Lease!Next
  <2> DEFINE caught == CaughtUp(project, at[c])
             old == project.members
             len == Len(project.members)
  <2>1. /\ snap[c] = project /\ sess[c] \in Sessions
        /\ \A i \in DOMAIN old : old[i].session # sess[c]
        /\ CanJoin(project)
        /\ project' = Joined(caught, sess[c])
    BY <1>3
    DEF SaveJoin, LineageInv, SnapshotsAreOld, JoinersAreFresh, JoinersInherit, Loaded
  <2>2. caught \in ProjectState BY <1>t, CaughtUpType
  <2>3. caught.members = old /\ caught.status = project.status
    <3>1. project.tip \in SessionOrNone BY <1>t DEF ProjectState
    <3> QED BY <1>t, <3>1, TipAdvancedFields DEF CaughtUp
  <2>4. PICK m \in Membership :
          /\ m.session = sess[c]
          /\ project'.members = Append(old, m)
    <3>1. [session |-> sess[c], inheritedAt |-> caught.tipAt] \in Membership
      BY <2>1, <2>2 DEF ProjectState, Membership
    <3> HIDE DEF caught
    <3> QED BY <2>1, <2>2, <2>3, <3>1, JoinedFields
  <2>5. project'.active = sess[c] /\ project'.status = project.status
    <3> HIDE DEF caught
    <3> QED BY <2>1, <2>2, <2>3, JoinedFields
  <2>6. /\ Custody \in Seq(Sessions)
        /\ Len(Custody) = len
        /\ DOMAIN Custody = DOMAIN old
        /\ \A i \in DOMAIN old : Custody[i] = old[i].session
    <3>1. ASSUME NEW i \in 1..len PROVE old[i].session \in Sessions
      <4>1. old[i] \in Membership BY <1>t
      <4> QED BY <4>1 DEF Membership
    <3>2. DOMAIN old = 1..len /\ len \in Nat BY <1>t
    <3> QED BY <3>1, <3>2 DEF Custody
  <2>7. /\ DOMAIN project'.members = 1..(len + 1)
        /\ \A i \in 1..len : project'.members[i] = old[i]
        /\ project'.members[len + 1] = m
        /\ len \in Nat
    BY <1>t, <2>4
  <2>8. Custody' = Append(Custody, sess[c])
    <3> DEFINE longer == Append(Custody, sess[c])
    <3>1. /\ DOMAIN longer = 1..(len + 1)
          /\ \A i \in 1..len : longer[i] = Custody[i]
          /\ longer[len + 1] = sess[c]
          /\ longer \in Seq(Sessions)
      BY <2>1, <2>6
    <3>2. /\ DOMAIN Custody' = 1..(len + 1)
          /\ \A i \in 1..(len + 1) : Custody'[i] = project'.members[i].session
      BY <2>7 DEF Custody
    <3>3. \A i \in 1..(len + 1) : Custody'[i] = longer[i]
      <4>1. \A i \in 1..(len + 1) : i \in 1..len \/ i = len + 1 BY <2>7
      <4>2. \A i \in 1..len : i \in DOMAIN old BY <1>t
      <4> HIDE DEF longer
      <4> QED BY <2>4, <2>6, <2>7, <3>1, <3>2, <4>1, <4>2
    <3>4. Custody' = [i \in 1..(len + 1) |-> Custody'[i]]
      BY <2>7 DEF Custody
    <3>5. longer = [i \in 1..(len + 1) |-> longer[i]]
      BY <3>1
    <3> HIDE DEF longer
    <3>6. Custody' = longer
      BY <3>3, <3>4, <3>5
    <3> QED BY <3>6 DEF longer
  <2>9. Lease!Acquire(sess[c])
    BY <2>1, <2>5, <2>6, <2>8 DEF CanJoin, Lease!Acquire
  <2> QED BY <2>1, <2>9 DEF Lease!Next
<1>4. ASSUME NEW c \in Clients, SaveRelease(c) PROVE Lease!Next
  <2>1. /\ snap[c] = project /\ project.active = sess[c] /\ sess[c] \in Sessions
        /\ project' = TipAdvanced(project, sess[c], at[c])
    BY <1>4 DEF SaveRelease, LineageInv, SnapshotsAreOld, ReleasersReached, Loaded
  <2>2. /\ project'.active = NoSession /\ project'.status = project.status
        /\ project'.members = project.members
    BY <1>t, <2>1, TipAdvancedFields
  <2>3. Custody' = Custody BY <2>2 DEF Custody
  <2> QED BY <2>1, <2>2, <2>3, NoSessionIsNone DEF Lease!Next, Lease!GiveBack
<1>5. ASSUME NEW c \in Clients, SaveLifecycle(c) PROVE [Lease!Next]_(Lease!vars)
  <2>1. /\ snap[c] = project /\ pc[c] \in LifecyclePC /\ Accepts(pc[c], project)
        /\ project' = Decided(pc[c], project)
    BY <1>5 DEF SaveLifecycle, LifecyclePC, LineageInv, SnapshotsAreOld, Loaded
  <2>2. /\ project'.active = project.active /\ project'.members = project.members
        /\ project'.status = IF pc[c] = "editing" THEN project.status ELSE StatusAfter[pc[c]]
    BY <1>t, <2>1, DecidedFields
  <2>3. Custody' = Custody BY <2>2 DEF Custody
  <2>4. CASE pc[c] = "editing"
    BY <2>2, <2>3, <2>4 DEF Lease!vars
  <2>5. CASE pc[c] # "editing"
    <3>1. project.active = NoSession
      BY <2>1, <2>5 DEF Accepts, CanArchive, CanUnarchive, CanDelete, LineageInv, HolderExists
    <3>2. \/ project.status = "created" /\ project'.status \in {"archived", "deleted"}
          \/ project.status = "archived" /\ project'.status \in {"created", "deleted"}
      BY <2>1, <2>2, <2>5
      DEF Accepts, CanArchive, CanUnarchive, CanDelete, StatusAfter, LifecyclePC
    <3>3. Lease!Retire(project'.status)
      BY <2>2, <2>3, <3>1, <3>2 DEF Lease!Retire
    <3> QED BY <3>2, <3>3 DEF Lease!Next
  <2> QED BY <2>4, <2>5
<1> QED
  BY <1>1, <1>2, <1>3, <1>4, <1>5
  DEF Next, vars, ClientStep, BeginJoin, DecideJoin, RefuseJoin, ForkFiles,
      BeginRelease, LoadHeld, NothingToRelease,
      BeginLifecycle, RefuseLifecycle, LoseSave, Crash, SessionSave

\* The project, as its concurrent clients drive it, is an exclusive lease: it
\* implements ProjectLease for every set of sessions and clients.
THEOREM ProjectImplementsLease == Spec => ImplementsLease
<1>1. Init => Lease!Init BY LeaseInit
<1>2. LineageInv /\ [Next]_vars => [Lease!Next]_(Lease!vars) BY LeaseStep
<1> QED BY <1>1, <1>2, LineageInvariant, PTL DEF Spec, Lease!Spec, ImplementsLease

=============================================================================
