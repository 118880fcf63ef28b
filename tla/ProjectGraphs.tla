--------------------------- MODULE ProjectGraphs ---------------------------
(***************************************************************************)
(* The open knowledge graphs of the process: one store for each project,   *)
(* built by whoever asks first and shared by everyone after, and one       *)
(* vector store for all of them.                                           *)
(*                                                                         *)
(* Two kinds of lock stand in for threads: one for each project, held over *)
(* the build and over the close of its store, and one for opening the      *)
(* vector store.  Everything that awaits may raise; a cancellation does so *)
(* too, and is the one exception that open does not clean up after.        *)
(*                                                                         *)
(* A store is the number of its build: the graph, the passages and the     *)
(* cards that one open builds are built together and closed together, but  *)
(* enter their caches at different moments.  0 is no store.                *)
(***************************************************************************)
EXTENDS Integers, FiniteSets

CONSTANTS
  Projects,
  Callers,   \* coroutines that open or close
  Nobody,    \* no caller
  MaxBuilds, \* bound: stores built
  MaxPools   \* bound: vector stores opened

ASSUME CallersAssumption == Nobody \notin Callers
ASSUME BoundsAssumption == MaxBuilds \in Nat /\ MaxPools \in Nat

VARIABLES
  pc,       \* pc[c]: the await caller c is at
  want,     \* want[c]: the project it opens or closes
  mine,     \* mine[c]: stores it is building, or has taken out to close
  got,      \* got[c]: the store open returned to it or its turn was given, or 0
  lock,     \* lock[p]: who holds _locks[p], or Nobody
  store,    \* _stores[p]
  chunks,   \* _chunk_stores[p], and with it _co_mentions and _card_vectors
  cards,    \* _card_stores[p]
  builds,   \* stores built so far
  closed,   \* stores closed
  vlock,    \* who holds _vector_lock, or Nobody
  vectors,  \* _vector_store, or 0
  ready,    \* _vector_ready
  pools,    \* vector stores opened so far
  drained,  \* vector stores closed
  todo,     \* projects close_all has yet to close
  stopping  \* who is in close_all, or Nobody

caches == <<store, chunks, cards>>
vector == <<vlock, vectors, ready, pools, drained>>
sweep == <<todo, stopping>>
gvars == <<pc, want, mine, got, lock, caches, builds, closed, vector, sweep>>

Opening == {"vectorLock", "vectorOpening", "vectorSchema", "lock", "building", "indexing"}

Closing == {"closeLock", "closing", "closingAll", "closingVectors"}

GraphsTypeOK ==
  /\ want \in [Callers -> Projects]
  /\ mine \in [Callers -> SUBSET (1..MaxBuilds)]
  /\ got \in [Callers -> 0..MaxBuilds]
  /\ lock \in [Projects -> Callers \union {Nobody}]
  /\ store \in [Projects -> 0..MaxBuilds]
  /\ chunks \in [Projects -> 0..MaxBuilds]
  /\ cards \in [Projects -> 0..MaxBuilds]
  /\ builds \in 0..MaxBuilds
  /\ closed \subseteq 1..MaxBuilds
  /\ vlock \in Callers \union {Nobody}
  /\ vectors \in 0..MaxPools
  /\ ready \in BOOLEAN
  /\ pools \in 0..MaxPools
  /\ drained \subseteq 1..MaxPools
  /\ todo \subseteq Projects
  /\ stopping \in Callers \union {Nobody}

GraphsInit ==
  /\ pc = [c \in Callers |-> "idle"]
  /\ want \in [Callers -> Projects]
  /\ mine = [c \in Callers |-> {}]
  /\ got = [c \in Callers |-> 0]
  /\ lock = [p \in Projects |-> Nobody]
  /\ store = [p \in Projects |-> 0]
  /\ chunks = [p \in Projects |-> 0]
  /\ cards = [p \in Projects |-> 0]
  /\ builds = 0 /\ closed = {}
  /\ vlock = Nobody /\ vectors = 0 /\ ready = FALSE /\ pools = 0 /\ drained = {}
  /\ todo = {} /\ stopping = Nobody

Go(c, place) == pc' = [pc EXCEPT ![c] = place]

(***************************************************************************)
(* vectors(): the latch, looked at before the lock and again under it.     *)
(***************************************************************************)
\* open begins with the vector store, before it takes the project's lock.
BeginOpen(c) ==
  /\ Go(c, IF ready THEN "lock" ELSE "vectorLock")
  /\ UNCHANGED <<want, mine, got, lock, caches, builds, closed, vector, sweep>>

EnterVectors(c) ==
  /\ pc[c] = "vectorLock" /\ vlock = Nobody
  /\ IF ready THEN Go(c, "lock") /\ UNCHANGED vlock
              ELSE Go(c, "vectorOpening") /\ vlock' = c
  /\ UNCHANGED <<want, mine, got, lock, caches, builds, closed,
                 vectors, ready, pools, drained, sweep>>

\* The pool is connected; its schema is the next await.
ConnectVectors(c) ==
  /\ pc[c] = "vectorOpening" /\ pools < MaxPools
  /\ pools' = pools + 1
  /\ Go(c, "vectorSchema")
  /\ UNCHANGED <<want, mine, got, lock, caches, builds, closed,
                 vlock, vectors, ready, drained, sweep>>

LatchVectors(c) ==
  /\ pc[c] = "vectorSchema"
  /\ vectors' = pools /\ ready' = TRUE
  /\ vlock' = Nobody
  /\ Go(c, "lock")
  /\ UNCHANGED <<want, mine, got, lock, caches, builds, closed, pools, drained, sweep>>

\* A mutant of FailVectors: the lock is not given back by an exception.
FailVectorsHolding(c) ==
  /\ pc[c] \in {"vectorOpening", "vectorSchema"}
  /\ Go(c, "refused")
  /\ UNCHANGED <<want, mine, got, lock, caches, builds, closed, vector, sweep>>

\* Not latched, so that the next open tries again.
FailVectors(c) ==
  /\ pc[c] \in {"vectorOpening", "vectorSchema"}
  /\ vlock' = Nobody
  /\ Go(c, "refused")
  /\ UNCHANGED <<want, mine, got, lock, caches, builds, closed,
                 vectors, ready, pools, drained, sweep>>

(***************************************************************************)
(* open(): find the store, or build it, under the project's lock.          *)
(***************************************************************************)
\* A mutant of Enter: what is cached is looked at, but no lock is taken.
EnterUnlocked(c) ==
  LET p == want[c] IN
  /\ pc[c] = "lock"
  /\ \/ /\ store[p] # 0
        /\ got' = [got EXCEPT ![c] = store[p]]
        /\ Go(c, "opened")
        /\ UNCHANGED <<mine, builds>>
     \/ /\ store[p] = 0 /\ builds < MaxBuilds
        /\ builds' = builds + 1
        /\ mine' = [mine EXCEPT ![c] = {builds + 1}]
        /\ Go(c, "building")
        /\ UNCHANGED got
  /\ UNCHANGED <<want, lock, caches, closed, vector, sweep>>

Enter(c) ==
  LET p == want[c] IN
  /\ pc[c] = "lock" /\ lock[p] = Nobody
  /\ \/ /\ store[p] # 0
        /\ got' = [got EXCEPT ![c] = store[p]]
        /\ Go(c, "opened")
        /\ UNCHANGED <<mine, lock, builds>>
     \/ /\ store[p] = 0 /\ builds < MaxBuilds
        /\ builds' = builds + 1
        /\ mine' = [mine EXCEPT ![c] = {builds + 1}]
        /\ lock' = [lock EXCEPT ![p] = c]
        /\ Go(c, "building")
        /\ UNCHANGED got
  /\ UNCHANGED <<want, caches, closed, vector, sweep>>

\* The log is folded in: the passages are cached, the cards come next.
Fold(c) ==
  /\ pc[c] = "building"
  /\ \E g \in mine[c] : chunks' = [chunks EXCEPT ![want[c]] = g]
  /\ Go(c, "indexing")
  /\ UNCHANGED <<want, mine, got, lock, store, cards, builds, closed, vector, sweep>>

Unlock(c) == lock' = [p \in Projects |-> IF lock[p] = c THEN Nobody ELSE lock[p]]

IndexCards(c) ==
  /\ pc[c] = "indexing"
  /\ \E g \in mine[c] :
       /\ cards' = [cards EXCEPT ![want[c]] = g]
       /\ store' = [store EXCEPT ![want[c]] = g]
       /\ got' = [got EXCEPT ![c] = g]
  /\ mine' = [mine EXCEPT ![c] = {}]
  /\ Unlock(c)
  /\ Go(c, "opened")
  /\ UNCHANGED <<want, chunks, builds, closed, vector, sweep>>

\* A mutant of FailBuild: the store is cached before it is complete, and a
\* failure does not take it out again.
FailBuildCached(c) ==
  /\ pc[c] \in {"building", "indexing"}
  /\ closed' = closed \union mine[c]
  /\ \E g \in mine[c] : store' = [store EXCEPT ![want[c]] = g]
  /\ mine' = [mine EXCEPT ![c] = {}]
  /\ Unlock(c)
  /\ Go(c, "refused")
  /\ UNCHANGED <<want, got, chunks, cards, builds, vector, sweep>>

\* Everything built is closed.  The passages are not taken out of their cache.
FailBuild(c) ==
  /\ pc[c] \in {"building", "indexing"}
  /\ closed' = closed \union mine[c]
  /\ mine' = [mine EXCEPT ![c] = {}]
  /\ Unlock(c)
  /\ Go(c, "refused")
  /\ UNCHANGED <<want, got, caches, builds, vector, sweep>>

\* A cancellation is no Exception: the store is left open, and to nobody.
CancelOpen(c) ==
  /\ pc[c] \in Opening
  /\ mine' = [mine EXCEPT ![c] = {}]
  /\ Unlock(c)
  /\ vlock' = IF vlock = c THEN Nobody ELSE vlock
  /\ Go(c, "refused")
  /\ UNCHANGED <<want, got, caches, builds, closed, vectors, ready, pools, drained, sweep>>

(***************************************************************************)
(* close() and close_all().                                                *)
(***************************************************************************)
Cached(p) == {g \in {store[p], chunks[p], cards[p]} : g # 0}

\* Taken out under the lock, and closed before the lock is given back.
Evict(c, p) ==
  /\ lock[p] = Nobody
  /\ lock' = [lock EXCEPT ![p] = c]
  /\ mine' = [mine EXCEPT ![c] = Cached(p)]
  /\ store' = [store EXCEPT ![p] = 0]
  /\ chunks' = [chunks EXCEPT ![p] = 0]
  /\ cards' = [cards EXCEPT ![p] = 0]
  /\ Go(c, "closing")
  /\ UNCHANGED <<want, got, builds, closed, vector>>

Close(c) == pc[c] = "closeLock" /\ Evict(c, want[c]) /\ UNCHANGED sweep

CloseNext(c) ==
  /\ pc[c] = "closingAll"
  /\ \E p \in todo : Evict(c, p) /\ todo' = todo \ {p}
  /\ UNCHANGED stopping

\* close_all goes on with the next project.
Closed(c) ==
  /\ pc[c] = "closing"
  /\ closed' = closed \union mine[c]
  /\ mine' = [mine EXCEPT ![c] = {}]
  /\ Unlock(c)
  /\ Go(c, IF stopping = c THEN "closingAll" ELSE "idle")
  /\ UNCHANGED <<want, got, caches, builds, vector, sweep>>

BeginCloseAll(c) ==
  /\ stopping = Nobody /\ stopping' = c
  /\ todo' = {p \in Projects : Cached(p) # {}}
  /\ Go(c, "closingAll")
  /\ UNCHANGED <<want, mine, got, lock, caches, builds, closed, vector>>

\* The vector store last: it is taken out, and then closed, under its lock.
TakeVectors(c) ==
  /\ pc[c] = "closingAll" /\ todo = {} /\ vlock = Nobody
  /\ vlock' = c /\ vectors' = 0 /\ ready' = FALSE
  /\ drained' = drained \union ({vectors} \ {0})
  /\ Go(c, "closingVectors")
  /\ UNCHANGED <<want, mine, got, lock, caches, builds, closed, pools, sweep>>

ClosedVectors(c) ==
  /\ pc[c] = "closingVectors"
  /\ stopping' = Nobody
  /\ vlock' = Nobody
  /\ Go(c, "idle")
  /\ UNCHANGED <<want, mine, got, lock, caches, builds, closed,
                 vectors, ready, pools, drained, todo>>

OpenStep(c) ==
  \/ EnterVectors(c) \/ ConnectVectors(c) \/ LatchVectors(c) \/ FailVectors(c)
  \/ Enter(c) \/ Fold(c) \/ IndexCards(c) \/ FailBuild(c)

(***************************************************************************)
(* Properties.                                                             *)
(***************************************************************************)
\* Who holds a lock is at an await under it; a store being built or closed is
\* in one caller's hands; what is cached as a graph, or as cards, is open.
GraphsInv ==
  /\ GraphsTypeOK
  /\ \A p \in Projects : \A c \in Callers :
       lock[p] = c => pc[c] \in {"building", "indexing", "closing"}
  /\ \A c \in Callers :
       /\ pc[c] \in {"building", "indexing"} => lock[want[c]] = c
       /\ vlock = c <=> pc[c] \in {"vectorOpening", "vectorSchema", "closingVectors"}
  /\ \A p \in Projects :
       /\ store[p] \notin closed /\ cards[p] \notin closed
       /\ store[p] # 0 => chunks[p] = store[p]
  /\ ready => vectors # 0 /\ vectors \notin drained

=============================================================================
