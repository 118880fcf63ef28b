--------------------------- MODULE ProjectLineage ---------------------------
(***************************************************************************)
(* One project and the sessions that carry its files.                      *)
(*                                                                         *)
(* A project owns no files: it is a lease (which session holds it) and a   *)
(* pointer (whose event stream carries the files, and how far in).         *)
(* Sessions join, inheriting by copying a prefix of the stream the tip     *)
(* names, and release, moving the tip onto their own stream.  Clients (web *)
(* requests, the REPL, background dispatches, in any number of processes)  *)
(* run these use cases concurrently: every await of the code is a point    *)
(* where another client may run, and the only guard against a stale read   *)
(* is the version check of the event store when an aggregate is saved.     *)
(*                                                                         *)
(* Abstractions.  A stream is a sequence of atomic appends (one per save), *)
(* each the set of file events it carries, so an offset into a stream is   *)
(* counted in appends.  Names, tags and metadata are one "edit".           *)
(***************************************************************************)
EXTENDS Integers, Sequences

CONSTANTS
  Sessions,    \* session ids uuid4() may hand out
  Clients,     \* concurrent callers of the use cases
  NoSession,   \* Python's None where a session id may stand
  MaxAppends,  \* bound: appends to one session's stream
  MaxVersion   \* bound: version of the project at which no use case starts

ASSUME NoSessionIsNone == NoSession \notin Sessions
ASSUME BoundsAreNat == MaxAppends \in Nat /\ MaxVersion \in Nat

VARIABLES
  project,  \* the stored project, folded from its stream
  stream,   \* stream[s]: the stored stream of session s, <<>> before it exists
  pc,       \* pc[c]: the await client c is at
  snap,     \* snap[c]: the project as client c loaded it
  sess,     \* sess[c]: the session client c is joining with or releasing
  at        \* at[c]: the stream offset client c has read

vars == <<project, stream, pc, snap, sess, at>>

(***************************************************************************)
(* Types.                                                                  *)
(***************************************************************************)
Work == Sessions \X Nat   \* a file event: who wrote it, in which append

SessionOrNone == Sessions \union {NoSession}

Membership == [session : Sessions, inheritedAt : Nat]

ProjectState ==
  [status  : {"new", "created", "archived", "deleted"},
   version : Nat,
   members : Seq(Membership),
   active  : SessionOrNone,
   tip     : SessionOrNone,
   tipAt   : Nat]

NewProject ==
  [status |-> "new", version |-> 0, members |-> <<>>,
   active |-> NoSession, tip |-> NoSession, tipAt |-> 0]

LifecyclePC == {"archiving", "unarchiving", "deleting", "editing"}

PC == {"idle", "joining", "forking", "joinSaving", "releasing", "relSaving"}
        \union LifecyclePC

TypeOK ==
  /\ project \in ProjectState
  /\ stream \in [Sessions -> Seq(SUBSET Work)]
  /\ pc \in [Clients -> PC]
  /\ snap \in [Clients -> ProjectState]
  /\ sess \in [Clients -> SessionOrNone]
  /\ at \in [Clients -> Nat]

(***************************************************************************)
(* The Project aggregate: which commands decide() accepts ...              *)
(***************************************************************************)
\* Mutant of CanJoin: a held project is joined again.
CanJoinHeld(p) == p.status = "created"

CanJoin(p) == p.status = "created" /\ p.active = NoSession

CanAdvance(p, s, n) ==
  /\ p.status = "created"
  /\ \/ p.active = s
     \/ p.active = NoSession /\ p.tip = s /\ n > p.tipAt

CanArchive(p) == p.status = "created" /\ p.active = NoSession

CanUnarchive(p) == p.status = "archived"

CanDelete(p) == p.status \in {"created", "archived"} /\ p.active = NoSession

CanEdit(p) == p.status = "created"

(***************************************************************************)
(* ... and what evolve() makes of the events they produce.                 *)
(***************************************************************************)
Joined(p, s) ==
  [p EXCEPT !.version = @ + 1, !.active = s,
            !.members = Append(@, [session |-> s, inheritedAt |-> p.tipAt])]

TipAdvanced(p, s, n) ==
  [p EXCEPT !.version = @ + 1, !.active = NoSession, !.tip = s, !.tipAt = n]

WithStatus(p, status) == [p EXCEPT !.version = @ + 1, !.status = status]

Edited(p) == [p EXCEPT !.version = @ + 1]

(***************************************************************************)
(* Streams.                                                                *)
(***************************************************************************)
Exists(s) == stream[s] # <<>>

\* The file events of the first n appends of a stream.
WorkIn(appends, n) == UNION {appends[i] : i \in 1..n}

AllWork(s) == WorkIn(stream[s], Len(stream[s]))

\* Mutant of Unchanged: saving without the version check.
UncheckedSave(c) == TRUE

\* The version check of the store: nothing was saved since c loaded.
Unchanged(c) == snap[c].version = project.version

Init ==
  /\ project = NewProject
  /\ stream = [s \in Sessions |-> <<>>]
  /\ pc = [c \in Clients |-> "idle"]
  /\ snap = [c \in Clients |-> NewProject]
  /\ sess = [c \in Clients |-> NoSession]
  /\ at = [c \in Clients |-> 0]

(***************************************************************************)
(* Client steps.                                                           *)
(***************************************************************************)
Goto(c, label) == pc' = [pc EXCEPT ![c] = label]

\* Back to idle: returned, raised, or the process died.  Its locals are gone.
Finish(c) ==
  /\ Goto(c, "idle")
  /\ snap' = [snap EXCEPT ![c] = NewProject]
  /\ sess' = [sess EXCEPT ![c] = NoSession]
  /\ at' = [at EXCEPT ![c] = 0]

Ready(c) == pc[c] = "idle" /\ project.version < MaxVersion

CreateProject ==
  /\ project.status = "new"
  /\ project' = WithStatus(project, "created")
  /\ UNCHANGED <<stream, pc, snap, sess, at>>

(***************************************************************************)
(* start_session_in_project: load, catch the tip up, decide, create the    *)
(* session, then save the project.                                         *)
(***************************************************************************)
BeginJoin(c) ==
  /\ Ready(c)
  /\ project.status # "new"
  /\ Goto(c, "joining")
  /\ snap' = [snap EXCEPT ![c] = project]
  /\ UNCHANGED <<project, stream, sess, at>>

\* Where catch_up_project_tip leaves the tip of p.
CaughtUpAt(p) ==
  IF p.tip # NoSession /\ Len(stream[p.tip]) > p.tipAt
    THEN Len(stream[p.tip]) ELSE p.tipAt

\* Mutant of CaughtUp: the tip is read but its advance is not recorded before
\* the join stamps inherited_at.
CaughtUpTooLate(p, n) == p

CaughtUp(p, n) == IF n > p.tipAt THEN TipAdvanced(p, p.tip, n) ELSE p

\* uuid4: an id no session has and nobody else is about to use.
Fresh(s) == ~Exists(s) /\ \A d \in Clients : sess[d] # s

DecideJoin(c) ==
  /\ pc[c] = "joining"
  /\ CanJoin(snap[c])
  /\ \E s \in Sessions :
       /\ Fresh(s)
       /\ sess' = [sess EXCEPT ![c] = s]
  /\ at' = [at EXCEPT ![c] = CaughtUpAt(snap[c])]
  /\ Goto(c, "forking")
  /\ UNCHANGED <<project, stream, snap>>

RefuseJoin(c) ==
  /\ pc[c] = "joining"
  /\ ~CanJoin(snap[c])
  /\ Finish(c)
  /\ UNCHANGED <<project, stream>>

\* Mutant of Inherited: the copy stops one append short.
InheritedShort(p, n) == IF p.tip = NoSession THEN {} ELSE WorkIn(stream[p.tip], n - 1)

\* What the new session starts with: the file events of the tip's prefix.
Inherited(p, n) == IF p.tip = NoSession THEN {} ELSE WorkIn(stream[p.tip], n)

ForkFiles(c) ==
  /\ pc[c] = "forking"
  /\ stream' = [stream EXCEPT ![sess[c]] = <<Inherited(snap[c], at[c])>>]
  /\ Goto(c, "joinSaving")
  /\ UNCHANGED <<project, snap, sess, at>>

SaveJoin(c) ==
  /\ pc[c] = "joinSaving"
  /\ Unchanged(c)
  /\ project' = Joined(CaughtUp(snap[c], at[c]), sess[c])
  /\ Finish(c)
  /\ UNCHANGED stream

(***************************************************************************)
(* release_session_project: load the session, load its project, move the   *)
(* tip if the session holds it.                                            *)
(***************************************************************************)
BeginRelease(c) ==
  /\ Ready(c)
  /\ \E s \in Sessions :
       /\ Exists(s)
       /\ sess' = [sess EXCEPT ![c] = s]
       /\ at' = [at EXCEPT ![c] = Len(stream[s])]
  /\ Goto(c, "releasing")
  /\ UNCHANGED <<project, stream, snap>>

LoadHeld(c) ==
  /\ pc[c] = "releasing"
  /\ project.active = sess[c]
  /\ snap' = [snap EXCEPT ![c] = project]
  /\ Goto(c, "relSaving")
  /\ UNCHANGED <<project, stream, sess, at>>

NothingToRelease(c) ==
  /\ pc[c] = "releasing"
  /\ project.active # sess[c]
  /\ Finish(c)
  /\ UNCHANGED <<project, stream>>

SaveRelease(c) ==
  /\ pc[c] = "relSaving"
  /\ Unchanged(c)
  /\ CanAdvance(snap[c], sess[c], at[c])
  /\ project' = TipAdvanced(snap[c], sess[c], at[c])
  /\ Finish(c)
  /\ UNCHANGED stream

(***************************************************************************)
(* The lifecycle commands: load, decide, save.                             *)
(***************************************************************************)
BeginLifecycle(c) ==
  /\ Ready(c)
  /\ project.status # "new"
  /\ \E step \in LifecyclePC : Goto(c, step)
  /\ snap' = [snap EXCEPT ![c] = project]
  /\ UNCHANGED <<project, stream, sess, at>>

Accepts(command, p) ==
  \/ command = "archiving"   /\ CanArchive(p)
  \/ command = "unarchiving" /\ CanUnarchive(p)
  \/ command = "deleting"    /\ CanDelete(p)
  \/ command = "editing"     /\ CanEdit(p)

StatusAfter ==
  [archiving |-> "archived", unarchiving |-> "created", deleting |-> "deleted"]

Decided(command, p) ==
  IF command = "editing" THEN Edited(p) ELSE WithStatus(p, StatusAfter[command])

SaveLifecycle(c) ==
  /\ pc[c] \in LifecyclePC
  /\ Accepts(pc[c], snap[c])
  /\ Unchanged(c)
  /\ project' = Decided(pc[c], snap[c])
  /\ Finish(c)
  /\ UNCHANGED stream

RefuseLifecycle(c) ==
  /\ pc[c] \in LifecyclePC
  /\ ~Accepts(pc[c], snap[c])
  /\ Finish(c)
  /\ UNCHANGED <<project, stream>>

(***************************************************************************)
(* What any use case may meet: the store refuses a stale save, and the     *)
(* caller dies (or is cancelled) at an await.  Neither undoes a save.      *)
(***************************************************************************)
LoseSave(c) ==
  /\ pc[c] \in {"joinSaving", "relSaving"} \union LifecyclePC
  /\ ~Unchanged(c)
  /\ Finish(c)
  /\ UNCHANGED <<project, stream>>

Crash(c) ==
  /\ pc[c] # "idle"
  /\ Finish(c)
  /\ UNCHANGED <<project, stream>>

(***************************************************************************)
(* A save of a session by its own turns: any session that exists takes     *)
(* turns, whether or not it holds the project.                             *)
(***************************************************************************)
SessionSave(s) ==
  /\ Exists(s)
  /\ Len(stream[s]) < MaxAppends
  /\ \E w \in {{}, {<<s, Len(stream[s]) + 1>>}} :
       stream' = [stream EXCEPT ![s] = Append(@, w)]
  /\ UNCHANGED <<project, pc, snap, sess, at>>

ClientStep(c) ==
  \/ BeginJoin(c) \/ DecideJoin(c) \/ RefuseJoin(c) \/ ForkFiles(c) \/ SaveJoin(c)
  \/ BeginRelease(c) \/ LoadHeld(c) \/ NothingToRelease(c) \/ SaveRelease(c)
  \/ BeginLifecycle(c) \/ SaveLifecycle(c) \/ RefuseLifecycle(c)
  \/ LoseSave(c) \/ Crash(c)

Next ==
  \/ CreateProject
  \/ \E c \in Clients : ClientStep(c)
  \/ \E s \in Sessions : SessionSave(s)

Spec == Init /\ [][Next]_vars

(***************************************************************************)
(* Properties.                                                             *)
(***************************************************************************)
\* What project_files answers: the holder's files, else the tip session's.
View ==
  IF project.active # NoSession THEN AllWork(project.active)
  ELSE IF project.tip # NoSession THEN AllWork(project.tip)
  ELSE {}

\* The work the project has taken custody of: the tip's stream up to the tip.
Secured == 
  IF project.tip = NoSession THEN {} ELSE WorkIn(stream[project.tip], project.tipAt)

\* A project is never held by a session that was not created: such a project
\* is one nothing can take back (start_session_in_project saves the session
\* before the project).  The holder is always the last member, and a retired
\* project has none.
HolderExists ==
  project.active # NoSession =>
    /\ Exists(project.active)
    /\ project.status = "created"
    /\ project.members # <<>>
    /\ project.active = project.members[Len(project.members)].session

\* Every member after the first started with exactly the files of the member
\* before it, up to the very offset its join recorded as inherited_at: the
\* chain of custody has no gap and no fork, whatever joins raced for it.
InheritsUpToRecordedPoint ==
  \A i \in DOMAIN project.members :
    stream[project.members[i].session][1] =
      IF i = 1 THEN {}
      ELSE WorkIn(stream[project.members[i-1].session], project.members[i].inheritedAt)

\* The tip names an offset its stream has reached, so a join can always fork
\* from it (fork_session_files raises outside 1..len(events)).
TipInStream ==
  project.tip # NoSession => project.tipAt \in 1..Len(stream[project.tip])

(***************************************************************************)
(* The inductive invariant behind these, in named parts.                   *)
(***************************************************************************)
Last(seq) == seq[Len(seq)]

\* The members, in order, each once; the tip is the last member that released.
ChainOfCustody ==
  /\ \A i, j \in DOMAIN project.members :
       project.members[i].session = project.members[j].session => i = j
  /\ \A i \in DOMAIN project.members : Exists(project.members[i].session)
  /\ LET released == IF project.active = NoSession
                       THEN Len(project.members) ELSE Len(project.members) - 1
     IN  project.tip = IF released = 0 THEN NoSession
                       ELSE project.members[released].session
  /\ project.tip = NoSession => project.tipAt = 0

\* A held project was joined at its tip, and joins recorded reached offsets.
JoinedAtTip ==
  /\ project.active # NoSession => Last(project.members).inheritedAt = project.tipAt
  /\ \A i \in DOMAIN project.members :
       i > 1 => project.members[i].inheritedAt
                  \in 1..Len(stream[project.members[i-1].session])

Loaded(c) == pc[c] \notin {"idle", "releasing"}

\* A loaded project is the stored one or an older version of it.
SnapshotsAreOld ==
  \A c \in Clients : Loaded(c) =>
    /\ snap[c].version <= project.version
    /\ Unchanged(c) => snap[c] = project
    /\ snap[c].tip # NoSession => snap[c].tipAt \in 1..Len(stream[snap[c].tip])
    /\ snap[c].tip = NoSession => snap[c].tipAt = 0

\* A joiner past its decision owns an id no member and no other joiner has.
JoinersAreFresh ==
  \A c \in Clients : pc[c] \in {"forking", "joinSaving"} =>
    /\ sess[c] \in Sessions
    /\ \A i \in DOMAIN project.members : project.members[i].session # sess[c]
    /\ \A d \in Clients :
         d # c /\ pc[d] \in {"forking", "joinSaving"} => sess[d] # sess[c]
    /\ pc[c] = "forking" <=> ~Exists(sess[c])

\* ... and starts it with the files of the offset it will record.
JoinersInherit ==
  \A c \in Clients : pc[c] \in {"forking", "joinSaving"} =>
    /\ CanJoin(snap[c])
    /\ at[c] >= snap[c].tipAt
    /\ snap[c].tip = NoSession => at[c] = 0
    /\ snap[c].tip # NoSession => at[c] \in 1..Len(stream[snap[c].tip])
    /\ pc[c] = "joinSaving" => stream[sess[c]][1] = Inherited(snap[c], at[c])

ReleasersReached ==
  \A c \in Clients : pc[c] \in {"releasing", "relSaving"} =>
    /\ sess[c] \in Sessions
    /\ at[c] \in 1..Len(stream[sess[c]])
    /\ pc[c] = "relSaving" => snap[c].active = sess[c]

LineageInv ==
  /\ TypeOK
  /\ HolderExists /\ InheritsUpToRecordedPoint /\ TipInStream
  /\ ChainOfCustody /\ JoinedAtTip
  /\ SnapshotsAreOld /\ JoinersAreFresh /\ JoinersInherit /\ ReleasersReached

\* The tip never moves backwards on a stream, and moves to another stream only
\* by the release of the session that held the project.
TipOnlyAdvances ==
  [][IF project'.tip = project.tip THEN project'.tipAt >= project.tipAt
     ELSE project'.tip = project.active]_vars

\* Work the project has taken custody of is never lost again: neither a later
\* release, nor a catch-up, nor a takeover drops it, and readers see it.
SecuredWorkIsKept ==
  [][Secured \subseteq Secured' /\ (Secured \subseteq View)']_vars

(***************************************************************************)
(* The lease the project implements: who held it, in order.                *)
(***************************************************************************)
Custody == [i \in DOMAIN project.members |-> project.members[i].session]

Lease ==
  INSTANCE ProjectLease WITH
    status <- project.status, holder <- project.active, custody <- Custody

\* Every behaviour of the project is one of an exclusive lease: whatever joins,
\* releases and lifecycle commands race, one session holds the project at a
\* time, none holds it twice, and it is retired only while free.
ImplementsLease == Lease!Spec

=============================================================================
