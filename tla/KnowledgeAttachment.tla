------------------------ MODULE KnowledgeAttachment ------------------------
(***************************************************************************)
(* The one attachment of the process, over the open project graphs: whose  *)
(* tools the turn executor hands to the next turn, of any session.         *)
(*                                                                         *)
(* A turn of a browser session attaches its project if another one is      *)
(* attached, and runs without the graph if that fails; a background run    *)
(* (dispatch, seeding, authoring, research) attaches always, and fails if  *)
(* that fails.  Both then await a load or two before the executor reads    *)
(* the tools.  Deleting a project closes its store, archiving it detaches  *)
(* it, and the process closes everything when it stops.                    *)
(*                                                                         *)
(* close_graph does nothing, so attach (after its open) and detach never   *)
(* wait: each is one step.                                                 *)
(***************************************************************************)
EXTENDS ProjectGraphs

CONSTANTS
  Browsers,  \* callers that take turns of browser sessions
  Runs,      \* callers that are background runs
  Closers,   \* callers that delete a project or stop the process
  NoProject, \* nothing attached: the executor has its base tools
  MaxOps     \* bound: operations begun

ASSUME KindsAssumption == Browsers \union Runs \union Closers = Callers
ASSUME NoProjectAssumption == NoProject \notin Projects /\ MaxOps \in Nat

VARIABLES
  attached, \* attached_project_id, and with it the tools of the executor
  over,     \* the store those tools were built over, or 0
  used,     \* used[c]: whose tools the turn of c was given
  ops       \* operations begun so far

avars == <<attached, over, used, ops>>
vars == <<gvars, avars>>

graphs == <<want, mine, got, lock, caches, builds, closed, vector, sweep>>

TypeOK ==
  /\ pc \in [Callers -> {"idle", "ensuring", "opened", "refused", "admitted", "turn"}
                          \union Opening \union Closing]
  /\ attached \in Projects \union {NoProject}
  /\ over \in 0..MaxBuilds
  /\ used \in [Callers -> Projects \union {NoProject}]
  /\ ops \in 0..MaxOps

Init ==
  /\ GraphsInit
  /\ attached = NoProject /\ over = 0
  /\ used = [c \in Callers |-> NoProject]
  /\ ops = 0

(***************************************************************************)
(* A turn.                                                                 *)
(***************************************************************************)
BeginOp(c) == pc[c] = "idle" /\ ops < MaxOps /\ ops' = ops + 1

BeginTurn(c) ==
  /\ c \in Browsers \union Runs
  /\ BeginOp(c)
  /\ Go(c, "ensuring")
  /\ used' = [used EXCEPT ![c] = NoProject]
  /\ UNCHANGED <<graphs, attached, over>>

\* ensure_session_project_attached skips what is attached already.
Skip(c) ==
  /\ c \in Browsers /\ pc[c] = "ensuring" /\ attached = want[c]
  /\ Go(c, "admitted")
  /\ UNCHANGED <<graphs, avars>>

\* The project was archived or deleted: its graph is detached, and not opened.
GoRetired(c) ==
  /\ c \in Browsers /\ pc[c] = "ensuring"
  /\ Go(c, "admitted")
  /\ IF attached = want[c] THEN attached' = NoProject /\ over' = 0
                            ELSE UNCHANGED <<attached, over>>
  /\ UNCHANGED <<graphs, used, ops>>

AskToOpen(c) ==
  /\ pc[c] = "ensuring" /\ (c \in Browsers => attached # want[c])
  /\ BeginOpen(c)
  /\ UNCHANGED avars

Attach(c) ==
  /\ pc[c] = "opened"
  /\ attached' = want[c] /\ over' = got[c]
  /\ Go(c, "admitted")
  /\ UNCHANGED <<graphs, used, ops>>

\* A graph that will not open: the browser's turn runs without it.
GoWithout(c) ==
  /\ pc[c] = "refused"
  /\ Go(c, IF c \in Browsers THEN "admitted" ELSE "idle")
  /\ UNCHANGED <<graphs, avars>>

\* DeepAgentTurnExecutor._invoke reads the tools, a load or two later: the
\* turn works on the store they are over, whoever attached it.
Invoke(c) ==
  /\ pc[c] = "admitted"
  /\ used' = [used EXCEPT ![c] = attached]
  /\ got' = [got EXCEPT ![c] = over]
  /\ Go(c, "turn")
  /\ UNCHANGED <<want, mine, lock, caches, builds, closed, vector, sweep, attached, over, ops>>

EndTurn(c) ==
  /\ pc[c] = "turn"
  /\ Go(c, "idle")
  /\ got' = [got EXCEPT ![c] = 0]
  /\ used' = [used EXCEPT ![c] = NoProject]
  /\ UNCHANGED <<want, mine, lock, caches, builds, closed, vector, sweep, attached, over, ops>>

(***************************************************************************)
(* Archiving, deleting, stopping.                                          *)
(***************************************************************************)
Detach ==
  /\ attached # NoProject
  /\ attached' = NoProject /\ over' = 0
  /\ UNCHANGED <<gvars, used, ops>>

BeginDelete(c) ==
  /\ c \in Closers /\ BeginOp(c)
  /\ Go(c, "closeLock")
  /\ UNCHANGED <<graphs, attached, over, used>>

BeginStop(c) ==
  /\ c \in Closers /\ BeginOp(c)
  /\ BeginCloseAll(c)
  /\ UNCHANGED <<attached, over, used>>

CloseStep(c) ==
  \/ Close(c) \/ CloseNext(c) \/ Closed(c)
  \/ TakeVectors(c) \/ ClosedVectors(c)

Turn(c) ==
  \/ BeginTurn(c) \/ Skip(c) \/ GoRetired(c) \/ AskToOpen(c) \/ Attach(c) \/ GoWithout(c)
  \/ Invoke(c) \/ EndTurn(c)

Next ==
  \/ \E c \in Callers :
       \/ Turn(c) \/ BeginDelete(c) \/ BeginStop(c)
       \/ (OpenStep(c) \/ CancelOpen(c) \/ CloseStep(c)) /\ UNCHANGED avars
  \/ Detach

Spec == Init /\ [][Next]_vars

\* Every await is resumed; asyncio's locks are first come, first served.
FairSpec ==
  Spec /\ \A c \in Callers :
            SF_vars((OpenStep(c) \/ CloseStep(c)) /\ UNCHANGED avars)

(***************************************************************************)
(* Properties.                                                             *)
(***************************************************************************)
AttachmentInv ==
  /\ TypeOK /\ GraphsInv
  /\ attached = NoProject <=> over = 0

Works(c) == IF pc[c] = "turn" THEN used[c] ELSE want[c]

\* Whoever opened a project, and whoever's turn was given its tools, has the
\* same graph as everyone else who has, or one that was closed since: no two
\* live stores of a project are in use, so nobody reads a graph that
\* extraction does not write to (ProjectGraphs.open, close; attach).
OneLiveStore ==
  \A c, d \in Callers :
    /\ Works(c) = Works(d) /\ {got[c], got[d]} \intersect (closed \union {0}) = {}
    => got[c] = got[d]

\* Whatever fails, is cancelled or is closed meanwhile, whoever asked for a
\* graph gets it or is refused: no lock is left held and no two wait for each
\* other (vectors() has its own lock, taken before the project's).
OpensEnd ==
  \A c \in Callers : pc[c] \in Opening ~> pc[c] \in {"opened", "refused"}

=============================================================================
