--------------------- MODULE KnowledgeAttachmentProofs ---------------------
(***************************************************************************)
(* Proofs about KnowledgeAttachment and the ProjectGraphs under it: what   *)
(* is cached is open and in nobody else's hands (AttachmentInv), and no    *)
(* two live stores of a project are in use (OneLiveStore), for any number  *)
(* of projects, of callers and of builds; and nobody who is waited for     *)
(* waits (NoDeadlock).                                                     *)
(***************************************************************************)
EXTENDS KnowledgeAttachment, TLAPS

(***************************************************************************)
(* Types.                                                                  *)
(***************************************************************************)
Types == TypeOK /\ GraphsTypeOK

Places ==
  {"idle", "ensuring", "opened", "refused", "admitted", "turn"} \union Opening \union Closing

Stores == 0..MaxBuilds

\* The bounds are natural numbers.
LEMMA StoresAreNumbers == MaxBuilds \in Nat /\ MaxPools \in Nat /\ MaxOps \in Nat
  BY BoundsAssumption, NoProjectAssumption

\* Everything is well typed at first.
LEMMA TypesInit == Init => Types
  <1> SUFFICES ASSUME Init PROVE Types
    OBVIOUS
  <1> USE StoresAreNumbers DEF Init, GraphsInit
  <1>1. TypeOK
    BY DEF TypeOK
  <1>2. mine \in [Callers -> SUBSET (1..MaxBuilds)]
    OBVIOUS
  <1>3. /\ store \in [Projects -> Stores] /\ chunks \in [Projects -> Stores]
        /\ cards \in [Projects -> Stores] /\ got \in [Callers -> Stores]
    BY DEF Stores
  <1>4. /\ lock \in [Projects -> Callers \union {Nobody}]
        /\ closed \subseteq 1..MaxBuilds /\ drained \subseteq 1..MaxPools
        /\ todo \subseteq Projects /\ want \in [Callers -> Projects]
    OBVIOUS
  <1>5. /\ builds \in 0..MaxBuilds /\ vlock \in Callers \union {Nobody}
        /\ vectors \in 0..MaxPools /\ pools \in 0..MaxPools
        /\ stopping \in Callers \union {Nobody}
    OBVIOUS
  <1>6. ready \in BOOLEAN
    BY Zenon
  <1> HIDE DEF Init, GraphsInit
  <1>7. GraphsTypeOK
    BY <1>2, <1>3, <1>4, <1>5, <1>6 DEF GraphsTypeOK, Stores
  <1> QED
    BY <1>1, <1>7 DEF Types

\* A caller moves: pc keeps its type.
LEMMA GoStays ==
  ASSUME Types, NEW c \in Callers, NEW place \in Places, Go(c, place)
  PROVE  pc' \in [Callers -> Places]
  BY DEF Go, Types, TypeOK, Places

\* No step leaves the types: the steps of the graphs.
LEMMA OpenTypes ==
  ASSUME Types, NEW c \in Callers, OpenStep(c) \/ CancelOpen(c), UNCHANGED avars
  PROVE  Types'
  <1> USE StoresAreNumbers
      DEF Types, TypeOK, GraphsTypeOK, Go, caches, vector, sweep, avars, Opening, Closing
  <1>1. CASE EnterVectors(c)
    BY <1>1 DEF EnterVectors
  <1>2. CASE ConnectVectors(c)
    BY <1>2 DEF ConnectVectors
  <1>3. CASE LatchVectors(c)
    BY <1>3 DEF LatchVectors
  <1>4. CASE FailVectors(c)
    BY <1>4 DEF FailVectors
  <1>5. CASE Enter(c)
    <2>1. CASE store[want[c]] # 0 /\ got' = [got EXCEPT ![c] = store[want[c]]]
               /\ Go(c, "opened") /\ UNCHANGED <<mine, lock, builds>>
      BY <1>5, <2>1 DEF Enter
    <2>2. CASE /\ store[want[c]] = 0 /\ builds < MaxBuilds /\ builds' = builds + 1
               /\ mine' = [mine EXCEPT ![c] = {builds + 1}]
               /\ lock' = [lock EXCEPT ![want[c]] = c]
               /\ Go(c, "building") /\ UNCHANGED got
      <3>1. builds + 1 \in 1..MaxBuilds
        BY <2>2
      <3>2. mine' \in [Callers -> SUBSET (1..MaxBuilds)]
        BY <2>2, <3>1
      <3> QED
        BY <1>5, <2>2, <3>1, <3>2 DEF Enter
    <2> QED
      BY <1>5, <2>1, <2>2 DEF Enter
  <1>6. CASE Fold(c)
    BY <1>6 DEF Fold
  <1>7. CASE IndexCards(c)
    BY <1>7 DEF IndexCards, Unlock
  <1>8. CASE FailBuild(c)
    BY <1>8 DEF FailBuild, Unlock
  <1>9. CASE CancelOpen(c)
    BY <1>9 DEF CancelOpen, Unlock
  <1> QED
    BY <1>1, <1>2, <1>3, <1>4, <1>5, <1>6, <1>7, <1>8, <1>9 DEF OpenStep

\* An eviction keeps the types.
LEMMA EvictTypes ==
  ASSUME Types, NEW c \in Callers, NEW p \in Projects, Evict(c, p)
  PROVE  /\ pc' \in [Callers -> Places] /\ mine' \in [Callers -> SUBSET (1..MaxBuilds)]
         /\ lock' \in [Projects -> Callers \union {Nobody}]
         /\ store' \in [Projects -> Stores] /\ chunks' \in [Projects -> Stores]
         /\ cards' \in [Projects -> Stores]
         /\ UNCHANGED <<want, got, builds, closed, vlock, vectors, ready, pools, drained>>
  <1> USE StoresAreNumbers DEF Types, TypeOK, GraphsTypeOK, Stores, Evict, vector
  <1>1. Cached(p) \subseteq 1..MaxBuilds
    BY DEF Cached
  <1>2. pc' \in [Callers -> Places]
    BY GoStays DEF Places, Closing
  <1>3. mine' \in [Callers -> SUBSET (1..MaxBuilds)]
    BY <1>1
  <1>4. /\ lock' \in [Projects -> Callers \union {Nobody}]
        /\ store' \in [Projects -> Stores] /\ chunks' \in [Projects -> Stores]
        /\ cards' \in [Projects -> Stores]
    OBVIOUS
  <1> QED
    BY <1>2, <1>3, <1>4

\* So does closing.
LEMMA CloseTypes ==
  ASSUME Types, NEW c \in Callers, CloseStep(c), UNCHANGED avars
  PROVE  Types'
  <1> USE StoresAreNumbers
      DEF Types, TypeOK, GraphsTypeOK, Go, caches, vector, sweep, avars, Opening, Closing
  <1>1. CASE Close(c)
    <2>1. want[c] \in Projects /\ Evict(c, want[c])
      BY <1>1 DEF Close
    <2> QED
      BY <1>1, <2>1, EvictTypes DEF Close, Stores, Places
  <1>2. CASE CloseNext(c)
    <2>1. PICK p \in todo : Evict(c, p) /\ todo' = todo \ {p}
      BY <1>2 DEF CloseNext
    <2> QED
      BY <1>2, <2>1, EvictTypes DEF CloseNext, Stores, Places
  <1>3. CASE Closed(c)
    BY <1>3 DEF Closed, Unlock
  <1>4. CASE TakeVectors(c)
    <2>1. /\ drained \subseteq 1..MaxPools /\ vectors \in 0..MaxPools
          /\ drained' = drained \union ({vectors} \ {0})
      BY <1>4 DEF TakeVectors
    <2>2. ({vectors} \ {0}) \subseteq 1..MaxPools
      BY <2>1
    <2>3. drained' \subseteq 1..MaxPools
      BY <2>1, <2>2, Zenon
    <2>4. /\ vlock' = c /\ vectors' = 0 /\ ready' = FALSE
          /\ pc' = [pc EXCEPT ![c] = "closingVectors"]
          /\ UNCHANGED <<want, mine, got, lock, store, chunks, cards, builds, closed, pools,
                         todo, stopping, attached, over, used, ops>>
      BY <1>4 DEF TakeVectors
    <2>5. ready' \in BOOLEAN
      BY <2>4, Zenon
    <2>6. vlock' \in Callers \union {Nobody} /\ vectors' \in 0..MaxPools
      BY <2>4
    <2>7. GraphsTypeOK'
      BY <2>3, <2>4, <2>5, <2>6
    <2>8. TypeOK'
      BY <2>4
    <2> QED
      BY <2>7, <2>8
  <1>5. CASE ClosedVectors(c)
    BY <1>5 DEF ClosedVectors
  <1> QED
    BY <1>1, <1>2, <1>3, <1>4, <1>5 DEF CloseStep

\* The steps of turns, of deletions and of the stop.
LEMMA TurnTypes ==
  ASSUME Types, NEW c \in Callers, Turn(c) \/ BeginDelete(c) \/ BeginStop(c)
  PROVE  Types'
  <1> USE StoresAreNumbers
      DEF Types, TypeOK, GraphsTypeOK, Go, graphs, caches, vector, sweep, avars, Opening, Closing
  <1>1. CASE BeginTurn(c)
    BY <1>1 DEF BeginTurn, BeginOp
  <1>2. CASE Skip(c)
    BY <1>2 DEF Skip
  <1>3. CASE GoRetired(c)
    BY <1>3 DEF GoRetired
  <1>4. CASE AskToOpen(c)
    BY <1>4 DEF AskToOpen, BeginOpen
  <1>5. CASE Attach(c)
    BY <1>5 DEF Attach
  <1>6. CASE GoWithout(c)
    BY <1>6 DEF GoWithout
  <1>7. CASE Invoke(c)
    BY <1>7 DEF Invoke
  <1>8. CASE EndTurn(c)
    BY <1>8 DEF EndTurn
  <1>9. CASE BeginDelete(c)
    BY <1>9 DEF BeginDelete, BeginOp
  <1>10. CASE BeginStop(c)
    BY <1>10 DEF BeginStop, BeginOp, BeginCloseAll
  <1> QED
    BY <1>1, <1>2, <1>3, <1>4, <1>5, <1>6, <1>7, <1>8, <1>9, <1>10 DEF Turn

\* The types are inductive.
LEMMA TypesStay == Types /\ [Next]_vars => Types'
  <1> SUFFICES ASSUME Types, [Next]_vars PROVE Types'
    OBVIOUS
  <1>1. CASE Detach
    BY <1>1, StoresAreNumbers DEF Detach, gvars, Types, TypeOK, GraphsTypeOK, caches, vector, sweep
  <1>2. CASE UNCHANGED vars
    BY <1>2 DEF vars, gvars, avars, Types, TypeOK, GraphsTypeOK, caches, vector, sweep
  <1> QED
    BY <1>1, <1>2, OpenTypes, CloseTypes, TurnTypes DEF Next

(***************************************************************************)
(* The steps, as far as locks and stores go.                               *)
(***************************************************************************)
Holding == {"building", "indexing", "closing"}

homes == <<lock, mine, caches, builds, closed>>

\* A caller goes from one await to another, neither under a project's lock.
Quiet(c) ==
  /\ pc[c] \notin Holding
  /\ \E place \in Places \ Holding : Go(c, place)
  /\ UNCHANGED homes

\* Enter finds nothing cached.
Build(c) ==
  /\ pc[c] = "lock" /\ lock[want[c]] = Nobody
  /\ store[want[c]] = 0 /\ builds < MaxBuilds
  /\ builds' = builds + 1
  /\ mine' = [mine EXCEPT ![c] = {builds + 1}]
  /\ lock' = [lock EXCEPT ![want[c]] = c]
  /\ Go(c, "building")
  /\ UNCHANGED <<caches, closed>>

Move(c) ==
  \/ Quiet(c) \/ Build(c) \/ Fold(c) \/ IndexCards(c) \/ FailBuild(c) \/ CancelOpen(c)
  \/ Closed(c)
  \/ \E p \in Projects : Evict(c, p) /\ pc[c] \in {"closeLock", "closingAll"}

\* Each await of an open is one of the moves.
LEMMA OpenMoves ==
  ASSUME Types, NEW c \in Callers, OpenStep(c) \/ CancelOpen(c)
  PROVE  Move(c) /\ want' = want
  <1> USE DEF Move, Quiet, Holding, homes, Places, Opening, caches
  <1>1. CASE EnterVectors(c)
    BY <1>1 DEF EnterVectors
  <1>2. CASE ConnectVectors(c)
    BY <1>2 DEF ConnectVectors
  <1>3. CASE LatchVectors(c)
    BY <1>3 DEF LatchVectors
  <1>4. CASE FailVectors(c)
    BY <1>4 DEF FailVectors
  <1>5. CASE Enter(c)
    BY <1>5 DEF Enter, Build
  <1>6. CASE Fold(c)
    BY <1>6 DEF Fold
  <1>7. CASE IndexCards(c)
    BY <1>7 DEF IndexCards
  <1>8. CASE FailBuild(c)
    BY <1>8 DEF FailBuild
  <1>9. CASE CancelOpen(c)
    BY <1>9 DEF CancelOpen
  <1> QED
    BY <1>1, <1>2, <1>3, <1>4, <1>5, <1>6, <1>7, <1>8, <1>9 DEF OpenStep

\* So is each of a close.
LEMMA CloseMoves ==
  ASSUME Types, NEW c \in Callers, CloseStep(c)
  PROVE  Move(c) /\ want' = want
  <1> USE DEF Move, Quiet, Holding, homes, Places, Closing, caches
  <1>1. CASE Close(c)
    BY <1>1 DEF Close, Evict, Types, GraphsTypeOK
  <1>2. CASE CloseNext(c)
    BY <1>2 DEF CloseNext, Evict, Types, GraphsTypeOK
  <1>3. CASE Closed(c)
    BY <1>3 DEF Closed
  <1>4. CASE TakeVectors(c)
    BY <1>4 DEF TakeVectors
  <1>5. CASE ClosedVectors(c)
    BY <1>5 DEF ClosedVectors
  <1> QED
    BY <1>1, <1>2, <1>3, <1>4, <1>5 DEF CloseStep

\* So is each of a turn.
LEMMA TurnMoves ==
  ASSUME NEW c \in Callers, Turn(c) \/ BeginDelete(c) \/ BeginStop(c)
  PROVE  Quiet(c) /\ want' = want
  <1> USE DEF Quiet, Holding, homes, Places, Opening, Closing, graphs, caches
  <1>1. CASE BeginTurn(c)
    BY <1>1 DEF BeginTurn, BeginOp
  <1>2. CASE Skip(c)
    BY <1>2 DEF Skip
  <1>3. CASE GoRetired(c)
    BY <1>3 DEF GoRetired
  <1>4. CASE AskToOpen(c)
    BY <1>4 DEF AskToOpen, BeginOpen
  <1>5. CASE Attach(c)
    BY <1>5 DEF Attach
  <1>6. CASE GoWithout(c)
    BY <1>6 DEF GoWithout
  <1>7. CASE Invoke(c)
    BY <1>7 DEF Invoke
  <1>8. CASE EndTurn(c)
    BY <1>8 DEF EndTurn
  <1>9. CASE BeginDelete(c)
    BY <1>9 DEF BeginDelete, BeginOp
  <1>10. CASE BeginStop(c)
    BY <1>10 DEF BeginStop, BeginOp, BeginCloseAll
  <1> QED
    BY <1>1, <1>2, <1>3, <1>4, <1>5, <1>6, <1>7, <1>8, <1>9, <1>10 DEF Turn

\* Every step is one of the moves, or touches no graph.
LEMMA EveryStepMoves ==
  ASSUME Types, [Next]_vars
  PROVE  want' = want /\ ((\E c \in Callers : Move(c)) \/ UNCHANGED <<pc, homes>>)
  <1>1. CASE Detach
    BY <1>1 DEF Detach, gvars, homes
  <1>2. CASE UNCHANGED vars
    BY <1>2 DEF vars, gvars, homes
  <1> QED
    BY <1>1, <1>2, OpenMoves, CloseMoves, TurnMoves DEF Next, Move

(***************************************************************************)
(* Every store has one home: a cache, or the hands of one caller.          *)
(***************************************************************************)
\* The holder of a lock is at an await under it; whoever builds or closes
\* has the lock of the project, and finds nothing cached as its graph.
LocksHeld ==
  /\ \A p \in Projects, c \in Callers : lock[p] = c => pc[c] \in Holding
  /\ \A c \in Callers : pc[c] \in {"building", "indexing"} => lock[want[c]] = c
  /\ \A p \in Projects, c \in Callers : lock[p] = c => store[p] = 0

\* A graph, its passages and its cards are of one build.
CachesAgree ==
  \A p \in Projects : cards[p] = store[p] /\ (store[p] # 0 => chunks[p] = store[p])

\* One build at a time is in a caller's hands, and only while it holds a lock.
HandsHoldOne ==
  /\ \A c \in Callers : mine[c] # {} => pc[c] \in Holding
  /\ \A c \in Callers : \A g, h \in mine[c] : g = h
  /\ \A c \in Callers : pc[c] = "indexing" => \A g \in mine[c] : chunks[want[c]] = g

\* Builds are numbered on, and no two homes share one.
HomesApart ==
  /\ \A c \in Callers : mine[c] \subseteq 1..builds
  /\ \A p \in Projects : chunks[p] \in 0..builds
  /\ closed \subseteq 1..builds
  /\ \A c, d \in Callers : c # d => mine[c] \intersect mine[d] = {}
  /\ \A c \in Callers : pc[c] \in {"building", "indexing"} => mine[c] \intersect closed = {}
  /\ \A p, q \in Projects : chunks[p] = chunks[q] /\ p # q => chunks[p] = 0
  /\ \A p \in Projects, c \in Callers :
       chunks[p] \in mine[c] => pc[c] = "indexing" /\ want[c] = p
  /\ \A p \in Projects : store[p] # 0 =>
       store[p] \notin closed /\ \A c \in Callers : store[p] \notin mine[c]

HomesInv == LocksHeld /\ CachesAgree /\ HandsHoldOne /\ HomesApart

\* No store has a home at first.
LEMMA HomesInit == Init => HomesInv
  BY CallersAssumption
     DEF Init, GraphsInit, HomesInv, LocksHeld, CachesAgree, HandsHoldOne, HomesApart, Holding

\* A move that touches no store keeps the homes.
LEMMA QuietKeepsHomes ==
  ASSUME Types, HomesInv, want' = want, NEW c \in Callers, Quiet(c)
  PROVE  HomesInv'
  <1>1. PICK place \in Places \ Holding : pc' = [pc EXCEPT ![c] = place]
    BY DEF Quiet, Go
  <1>2. \A d \in Callers : pc'[d] = pc[d] \/ (d = c /\ pc'[d] \notin Holding /\ pc[d] \notin Holding)
    BY <1>1 DEF Types, TypeOK, Quiet
  <1>3. UNCHANGED <<lock, mine, store, chunks, cards, builds, closed, want>>
    BY DEF Quiet, homes, caches
  <1>4. LocksHeld'
    BY <1>2, <1>3 DEF HomesInv, LocksHeld, Holding
  <1>5. HandsHoldOne'
    BY <1>2, <1>3 DEF HomesInv, HandsHoldOne, Holding
  <1>6. HomesApart'
    BY <1>2, <1>3 DEF HomesInv, HomesApart, Holding
  <1> QED
    BY <1>3, <1>4, <1>5, <1>6 DEF HomesInv, CachesAgree

\* A build puts its store in the builder's hands.
LEMMA BuildKeepsHomes ==
  ASSUME Types, HomesInv, want' = want, NEW c \in Callers, Build(c)
  PROVE  HomesInv'
  <1> USE CallersAssumption
  <1>1. /\ pc[c] = "lock" /\ lock[want[c]] = Nobody /\ store[want[c]] = 0
        /\ want[c] \in Projects /\ builds \in Nat
    BY StoresAreNumbers DEF Build, Types, GraphsTypeOK
  <1>2. /\ \A d \in Callers : pc'[d] = IF d = c THEN "building" ELSE pc[d]
        /\ \A d \in Callers : mine'[d] = IF d = c THEN {builds + 1} ELSE mine[d]
        /\ \A q \in Projects : lock'[q] = IF q = want[c] THEN c ELSE lock[q]
        /\ builds' = builds + 1
        /\ UNCHANGED <<store, chunks, cards, closed, want>>
    BY DEF Build, Go, Types, TypeOK, GraphsTypeOK, caches
  <1>3. LocksHeld'
    <2> USE DEF HomesInv, LocksHeld, Holding
    <2>1. \A q \in Projects, d \in Callers : lock'[q] = d => pc'[d] \in Holding /\ store'[q] = 0
      BY <1>1, <1>2
    <2>2. ASSUME NEW d \in Callers, pc'[d] \in {"building", "indexing"}
          PROVE  lock'[want'[d]] = d
      <3>1. CASE d = c
        BY <1>1, <1>2, <3>1
      <3>2. CASE d # c
        <4>1. lock[want[d]] = d /\ want[d] \in Projects /\ want[d] # want[c]
          BY <1>1, <1>2, <2>2, <3>2 DEF Types, GraphsTypeOK
        <4> QED
          BY <1>2, <4>1
      <3> QED
        BY <3>1, <3>2
    <2> QED
      BY <2>1, <2>2
  <1>4. HandsHoldOne'
    BY <1>1, <1>2 DEF HomesInv, HandsHoldOne, Holding
  <1>5. \A d \in Callers : builds + 1 \notin mine[d]
    BY <1>1 DEF HomesInv, HomesApart
  <1>6. builds + 1 \notin closed /\ \A q \in Projects : chunks[q] # builds + 1 /\ store[q] # builds + 1
    BY <1>1 DEF HomesInv, HomesApart, CachesAgree
  <1>7. HomesApart'
    <2> USE DEF HomesInv, HomesApart
    <2>1. /\ \A d \in Callers : mine'[d] \subseteq 1..builds'
          /\ \A q \in Projects : chunks'[q] \in 0..builds'
          /\ closed' \subseteq 1..builds'
      BY <1>1, <1>2
    <2>2. \A d, e \in Callers : d # e => mine'[d] \intersect mine'[e] = {}
      BY <1>2, <1>5
    <2>3. \A d \in Callers : pc'[d] \in {"building", "indexing"} => mine'[d] \intersect closed' = {}
      BY <1>2, <1>6
    <2>4. \A q \in Projects, d \in Callers :
            chunks'[q] \in mine'[d] => pc'[d] = "indexing" /\ want'[d] = q
      BY <1>1, <1>2, <1>6
    <2>5. \A q \in Projects : store'[q] # 0 =>
            store'[q] \notin closed' /\ \A d \in Callers : store'[q] \notin mine'[d]
      BY <1>2, <1>6
    <2> QED
      BY <1>2, <2>1, <2>2, <2>3, <2>4, <2>5
  <1> QED
    BY <1>2, <1>3, <1>4, <1>7 DEF HomesInv, CachesAgree

\* A fold passes the store from the hands to the cache.
LEMMA FoldKeepsHomes ==
  ASSUME Types, HomesInv, want' = want, NEW c \in Callers, Fold(c)
  PROVE  HomesInv'
  <1>0. PICK g \in mine[c] : chunks' = [chunks EXCEPT ![want[c]] = g]
    BY DEF Fold
  <1>1. /\ pc[c] = "building" /\ want[c] \in Projects /\ lock[want[c]] = c /\ store[want[c]] = 0
        /\ g \in 1..builds /\ builds \in Nat
    BY StoresAreNumbers DEF Fold, Types, GraphsTypeOK, HomesInv, LocksHeld, HomesApart
  <1>2. /\ \A d \in Callers : pc'[d] = IF d = c THEN "indexing" ELSE pc[d]
        /\ \A q \in Projects : chunks'[q] = IF q = want[c] THEN g ELSE chunks[q]
        /\ UNCHANGED <<lock, mine, store, cards, builds, closed, want>>
    BY <1>0 DEF Fold, Go, Types, TypeOK, GraphsTypeOK
  <1>3. LocksHeld'
    BY <1>1, <1>2 DEF HomesInv, LocksHeld, Holding
  <1>4. CachesAgree'
    BY <1>1, <1>2 DEF HomesInv, CachesAgree
  <1>5. HandsHoldOne'
    <2>1. \A d \in Callers \ {c} : pc[d] = "indexing" => want[d] # want[c]
      BY <1>1 DEF HomesInv, LocksHeld
    <2>2. \A d \in Callers : want[d] \in Projects
      BY DEF Types, GraphsTypeOK
    <2> QED
      BY <1>1, <1>2, <2>1, <2>2 DEF HomesInv, HandsHoldOne, Holding
  <1>6. HomesApart'
    <2> USE DEF HomesInv, HomesApart
    <2>1. \A q \in Projects : chunks'[q] \in 0..builds'
      BY <1>1, <1>2
    <2>2. \A q \in Projects : chunks[q] # g
      BY <1>1
    <2>3. \A p, q \in Projects : chunks'[p] = chunks'[q] /\ p # q => chunks'[p] = 0
      BY <1>2, <2>2
    <2>4. \A d \in Callers \ {c} : g \notin mine[d]
      OBVIOUS
    <2>5. \A q \in Projects, d \in Callers :
            chunks'[q] \in mine'[d] => pc'[d] = "indexing" /\ want'[d] = q
      BY <1>1, <1>2, <2>4
    <2> QED
      BY <1>1, <1>2, <2>1, <2>3, <2>5
  <1> QED
    BY <1>3, <1>4, <1>5, <1>6 DEF HomesInv

\* The cards follow their graph into the cache.
LEMMA IndexKeepsHomes ==
  ASSUME Types, HomesInv, want' = want, NEW c \in Callers, IndexCards(c)
  PROVE  HomesInv'
  <1> USE CallersAssumption
  <1>0. PICK g \in mine[c] : /\ cards' = [cards EXCEPT ![want[c]] = g]
                             /\ store' = [store EXCEPT ![want[c]] = g]
    BY DEF IndexCards
  <1>1. /\ pc[c] = "indexing" /\ want[c] \in Projects /\ lock[want[c]] = c
        /\ g \in 1..builds /\ chunks[want[c]] = g /\ g \notin closed
        /\ \A d \in Callers \ {c} : g \notin mine[d]
    BY DEF IndexCards, Types, GraphsTypeOK, HomesInv, LocksHeld, HandsHoldOne, HomesApart
  <1>2. /\ \A d \in Callers : pc'[d] = IF d = c THEN "opened" ELSE pc[d]
        /\ \A d \in Callers : mine'[d] = IF d = c THEN {} ELSE mine[d]
        /\ \A q \in Projects : store'[q] = IF q = want[c] THEN g ELSE store[q]
        /\ \A q \in Projects : cards'[q] = IF q = want[c] THEN g ELSE cards[q]
        /\ \A q \in Projects : lock'[q] = IF lock[q] = c THEN Nobody ELSE lock[q]
        /\ UNCHANGED <<chunks, builds, closed, want>>
    BY <1>0 DEF IndexCards, Go, Unlock, Types, TypeOK, GraphsTypeOK
  <1>3. LocksHeld'
    BY <1>1, <1>2 DEF HomesInv, LocksHeld, Types, GraphsTypeOK
  <1>4. CachesAgree'
    BY <1>1, <1>2 DEF HomesInv, CachesAgree
  <1>5. HandsHoldOne'
    BY <1>1, <1>2 DEF HomesInv, HandsHoldOne, Holding
  <1>6. HomesApart'
    BY <1>1, <1>2 DEF HomesInv, HomesApart
  <1> QED
    BY <1>3, <1>4, <1>5, <1>6 DEF HomesInv

\* The three ways out of a lock: a failure, a cancellation and a close.
LEMMA LeavingKeepsHomes ==
  ASSUME Types, HomesInv, want' = want, NEW c \in Callers,
         FailBuild(c) \/ CancelOpen(c) \/ Closed(c)
  PROVE  HomesInv'
  <1> USE CallersAssumption
  <1>1. /\ \E place \in Places \ Holding :
             \A d \in Callers : pc'[d] = IF d = c THEN place ELSE pc[d]
        /\ \A d \in Callers : mine'[d] = IF d = c THEN {} ELSE mine[d]
        /\ \A q \in Projects : lock'[q] = IF lock[q] = c THEN Nobody ELSE lock[q]
        /\ closed' = closed \union mine[c] \/ closed' = closed
        /\ UNCHANGED <<store, chunks, cards, builds, want>>
    <2> USE DEF Go, Unlock, Types, TypeOK, GraphsTypeOK, Places, Holding, caches
    <2>1. CASE FailBuild(c)
      BY <2>1 DEF FailBuild
    <2>2. CASE CancelOpen(c)
      BY <2>2 DEF CancelOpen
    <2>3. CASE Closed(c)
      BY <2>3 DEF Closed, Closing
    <2> QED
      BY <2>1, <2>2, <2>3
  <1>2. \A d \in Callers : d # c => pc'[d] = pc[d]
    BY <1>1
  <1>3. pc'[c] \notin Holding
    BY <1>1
  <1>4. LocksHeld'
    BY <1>1, <1>2, <1>3 DEF HomesInv, LocksHeld, Holding, Types, GraphsTypeOK
  <1>5. HandsHoldOne'
    BY <1>1, <1>2, <1>3 DEF HomesInv, HandsHoldOne, Holding
  <1>6. HomesApart'
    <2> USE DEF HomesInv, HomesApart
    <2>1. /\ \A d \in Callers : mine'[d] \subseteq 1..builds'
          /\ \A q \in Projects : chunks'[q] \in 0..builds'
          /\ \A q, r \in Projects : chunks'[q] = chunks'[r] /\ q # r => chunks'[q] = 0
      BY <1>1
    <2>2. mine[c] \subseteq 1..builds /\ closed \subseteq 1..builds
      OBVIOUS
    <2>3. closed' \subseteq 1..builds'
      BY <1>1, <2>2
    <2>4. \A d, e \in Callers : d # e => mine'[d] \intersect mine'[e] = {}
      BY <1>1
    <2>5. ASSUME NEW d \in Callers, pc'[d] \in {"building", "indexing"}
          PROVE  mine'[d] \intersect closed' = {}
      <3>1. d # c /\ pc[d] \in {"building", "indexing"}
        BY <1>2, <1>3, <2>5 DEF Holding
      <3>2. mine'[d] = mine[d] /\ mine[d] \intersect closed = {} /\ mine[d] \intersect mine[c] = {}
        BY <1>1, <3>1
      <3> QED
        BY <1>1, <3>2
    <2>6. \A q \in Projects, d \in Callers :
            chunks'[q] \in mine'[d] => pc'[d] = "indexing" /\ want'[d] = q
      BY <1>1, <1>2
    <2>7. ASSUME NEW q \in Projects, store'[q] # 0
          PROVE  store'[q] \notin closed' /\ \A d \in Callers : store'[q] \notin mine'[d]
      BY <1>1, <2>7
    <2> QED
      BY <2>1, <2>3, <2>4, <2>5, <2>6, <2>7
  <1> QED
    BY <1>1, <1>4, <1>5, <1>6 DEF HomesInv, CachesAgree

\* An eviction takes a store out of the caches for good.
LEMMA EvictKeepsHomes ==
  ASSUME Types, HomesInv, want' = want, NEW c \in Callers, NEW p \in Projects,
         Evict(c, p), pc[c] \in {"closeLock", "closingAll"}
  PROVE  HomesInv'
  <1> USE CallersAssumption
  <1>1. /\ lock[p] = Nobody
        /\ \A d \in Callers : pc'[d] = IF d = c THEN "closing" ELSE pc[d]
        /\ \A d \in Callers : mine'[d] = IF d = c THEN Cached(p) ELSE mine[d]
        /\ \A q \in Projects : lock'[q] = IF q = p THEN c ELSE lock[q]
        /\ \A q \in Projects : store'[q] = IF q = p THEN 0 ELSE store[q]
        /\ \A q \in Projects : chunks'[q] = IF q = p THEN 0 ELSE chunks[q]
        /\ \A q \in Projects : cards'[q] = IF q = p THEN 0 ELSE cards[q]
        /\ UNCHANGED <<builds, closed, want>>
    BY DEF Evict, Go, Types, TypeOK, GraphsTypeOK
  <1>2. Cached(p) \subseteq {chunks[p]} \ {0}
    BY DEF HomesInv, CachesAgree, Cached
  <1>3. \A d \in Callers : chunks[p] \notin mine[d]
    BY <1>1 DEF HomesInv, HomesApart, LocksHeld
  <1>4. LocksHeld'
    <2> USE DEF HomesInv, LocksHeld, Holding
    <2>1. \A q \in Projects, d \in Callers : lock'[q] = d => pc'[d] \in Holding /\ store'[q] = 0
      BY <1>1
    <2>2. ASSUME NEW d \in Callers, pc'[d] \in {"building", "indexing"}
          PROVE  lock'[want'[d]] = d
      <3>1. d # c /\ pc[d] \in {"building", "indexing"}
        BY <1>1, <2>2
      <3>2. lock[want[d]] = d /\ want[d] \in Projects /\ want[d] # p
        BY <1>1, <3>1 DEF Types, GraphsTypeOK
      <3> QED
        BY <1>1, <3>2
    <2> QED
      BY <2>1, <2>2
  <1>5. CachesAgree'
    BY <1>1 DEF HomesInv, CachesAgree
  <1>6. HandsHoldOne'
    <2>1. \A d \in Callers : pc[d] = "indexing" => want[d] \in Projects /\ want[d] # p
      BY <1>1 DEF HomesInv, LocksHeld, Types, GraphsTypeOK
    <2> QED
      BY <1>1, <1>2, <2>1 DEF HomesInv, HandsHoldOne, Holding
  <1>7. HomesApart'
    <2> USE DEF HomesInv, HomesApart
    <2>0. builds \in Nat /\ builds' = builds /\ chunks[p] \in 0..builds
      BY <1>1, StoresAreNumbers DEF Types, GraphsTypeOK
    <2>1. /\ \A d \in Callers : mine'[d] \subseteq 1..builds'
          /\ \A q \in Projects : chunks'[q] \in 0..builds'
      <3>1. {chunks[p]} \ {0} \subseteq 1..builds
        BY <2>0
      <3>2. Cached(p) \subseteq 1..builds
        BY <1>2, <3>1
      <3>3. 0 \in 0..builds
        BY <2>0
      <3> QED
        BY <1>1, <2>0, <3>2, <3>3
    <2>2. \A d, e \in Callers : d # e => mine'[d] \intersect mine'[e] = {}
      BY <1>1, <1>2, <1>3
    <2>3. \A d \in Callers : pc'[d] \in {"building", "indexing"} => mine'[d] \intersect closed' = {}
      BY <1>1
    <2>4. \A q, r \in Projects : chunks'[q] = chunks'[r] /\ q # r => chunks'[q] = 0
      BY <1>1
    <2>5. \A q \in Projects, d \in Callers :
            chunks'[q] \in mine'[d] => pc'[d] = "indexing" /\ want'[d] = q
      BY <1>1, <1>2
    <2>6. \A q \in Projects : store'[q] # 0 =>
            store'[q] \notin closed' /\ \A d \in Callers : store'[q] \notin mine'[d]
      BY <1>1, <1>2 DEF CachesAgree
    <2> QED
      BY <1>1, <2>1, <2>2, <2>3, <2>4, <2>5, <2>6
  <1> QED
    BY <1>4, <1>5, <1>6, <1>7 DEF HomesInv

\* HomesInv is inductive.
LEMMA HomesStay == Types /\ HomesInv /\ [Next]_vars => HomesInv'
  <1> SUFFICES ASSUME Types, HomesInv, [Next]_vars PROVE HomesInv'
    OBVIOUS
  <1>1. want' = want /\ ((\E c \in Callers : Move(c)) \/ UNCHANGED <<pc, homes>>)
    BY EveryStepMoves
  <1>2. CASE UNCHANGED <<pc, homes>>
    BY <1>1, <1>2
       DEF homes, caches, HomesInv, LocksHeld, CachesAgree, HandsHoldOne, HomesApart
  <1> QED
    BY <1>1, <1>2, QuietKeepsHomes, BuildKeepsHomes, FoldKeepsHomes, IndexKeepsHomes,
       LeavingKeepsHomes, EvictKeepsHomes DEF Move

(***************************************************************************)
(* The vector store: one opener or closer at a time.                       *)
(***************************************************************************)
UnderVectors == {"vectorOpening", "vectorSchema", "closingVectors"}

\* The latch is set on a pool that is open; whoever connected one has it
\* open still, for nobody else closes under the lock.
VectorsInv ==
  /\ \A c \in Callers : vlock = c <=> pc[c] \in UnderVectors
  /\ ready => vectors # 0
  /\ vectors \notin drained /\ vectors <= pools
  /\ drained \subseteq 1..pools
  /\ \A c \in Callers : pc[c] = "vectorSchema" => pools # 0 /\ pools \notin drained

\* No vector store is open at first.
LEMMA VectorsInit == Init => VectorsInv
  BY CallersAssumption, StoresAreNumbers DEF Init, GraphsInit, VectorsInv, UnderVectors

\* A caller goes from one await to another, neither under the vector lock.
Elsewhere(c) ==
  /\ pc[c] \notin UnderVectors
  /\ \E place \in Places \ UnderVectors : Go(c, place)
  /\ UNCHANGED vector

\* A step that does not touch the vector store keeps its part.
LEMMA ElsewhereKeepsVectors ==
  ASSUME Types, VectorsInv, NEW c \in Callers, Elsewhere(c)
  PROVE  VectorsInv'
  <1>1. \A d \in Callers :
          pc'[d] = pc[d] \/ (pc'[d] \notin UnderVectors /\ pc[d] \notin UnderVectors)
    BY DEF Elsewhere, Go, Types, TypeOK
  <1> QED
    BY <1>1 DEF Elsewhere, vector, VectorsInv, UnderVectors

\* The steps over graphs do not touch it.
LEMMA GraphsElsewhere ==
  ASSUME Types, NEW c \in Callers,
         \/ Enter(c) \/ Fold(c) \/ IndexCards(c) \/ FailBuild(c)
         \/ Close(c) \/ CloseNext(c) \/ Closed(c)
  PROVE  Elsewhere(c)
  <1> USE DEF Elsewhere, UnderVectors, Places, Opening, Closing, vector
  <1>1. CASE Enter(c)
    BY <1>1 DEF Enter
  <1>2. CASE Fold(c)
    BY <1>2 DEF Fold
  <1>3. CASE IndexCards(c)
    BY <1>3 DEF IndexCards
  <1>4. CASE FailBuild(c)
    BY <1>4 DEF FailBuild
  <1>5. CASE Close(c)
    BY <1>5 DEF Close, Evict
  <1>6. CASE CloseNext(c)
    BY <1>6 DEF CloseNext, Evict
  <1>7. CASE Closed(c)
    BY <1>7 DEF Closed
  <1> QED
    BY <1>1, <1>2, <1>3, <1>4, <1>5, <1>6, <1>7

\* Nor do the other steps of a turn.
LEMMA TurnsElsewhere ==
  ASSUME NEW c \in Callers, Turn(c) \/ BeginDelete(c) \/ BeginStop(c)
  PROVE  Elsewhere(c)
  <1> USE DEF Elsewhere, UnderVectors, Places, Opening, Closing, graphs, vector
  <1>1. CASE BeginTurn(c)
    BY <1>1 DEF BeginTurn, BeginOp
  <1>2. CASE Skip(c)
    BY <1>2 DEF Skip
  <1>3. CASE GoRetired(c)
    BY <1>3 DEF GoRetired
  <1>4. CASE AskToOpen(c)
    BY <1>4 DEF AskToOpen, BeginOpen
  <1>5. CASE Attach(c)
    BY <1>5 DEF Attach
  <1>6. CASE GoWithout(c)
    BY <1>6 DEF GoWithout
  <1>7. CASE Invoke(c)
    BY <1>7 DEF Invoke
  <1>8. CASE EndTurn(c)
    BY <1>8 DEF EndTurn
  <1>9. CASE BeginDelete(c)
    BY <1>9 DEF BeginDelete, BeginOp
  <1>10. CASE BeginStop(c)
    BY <1>10 DEF BeginStop, BeginOp, BeginCloseAll
  <1> QED
    BY <1>1, <1>2, <1>3, <1>4, <1>5, <1>6, <1>7, <1>8, <1>9, <1>10 DEF Turn

\* The steps that do keep the latch on an open pool.
LEMMA VectorStepKeepsVectors ==
  ASSUME Types, VectorsInv, NEW c \in Callers,
         \/ EnterVectors(c) \/ ConnectVectors(c) \/ LatchVectors(c) \/ FailVectors(c)
         \/ CancelOpen(c) \/ TakeVectors(c) \/ ClosedVectors(c)
  PROVE  VectorsInv'
  <1> USE CallersAssumption DEF UnderVectors
  <1>1. \A place : Go(c, place) =>
          \A d \in Callers : pc'[d] = IF d = c THEN place ELSE pc[d]
    BY DEF Go, Types, TypeOK
  <1>2. pools \in Nat /\ drained \subseteq 1..pools /\ vectors \notin drained
        /\ vectors \in Nat /\ vectors <= pools
    BY StoresAreNumbers DEF Types, GraphsTypeOK, VectorsInv
  <1>3. \A d \in Callers \ {c} : pc[d] \in UnderVectors => vlock # c /\ vlock # Nobody
    BY DEF VectorsInv
  <1>4. CASE EnterVectors(c)
    <2>1. vlock = Nobody /\ pc[c] = "vectorLock"
          /\ UNCHANGED <<vectors, ready, pools, drained>>
      BY <1>4 DEF EnterVectors
    <2>2. CASE ready
      BY <1>1, <1>4, <2>1, <2>2 DEF EnterVectors, VectorsInv
    <2>3. CASE ~ready
      BY <1>1, <1>4, <2>1, <2>3 DEF EnterVectors, VectorsInv
    <2> QED
      BY <2>2, <2>3
  <1>5. CASE ConnectVectors(c)
    <2>1. /\ pc[c] = "vectorOpening" /\ pools' = pools + 1
          /\ \A d \in Callers : pc'[d] = IF d = c THEN "vectorSchema" ELSE pc[d]
          /\ UNCHANGED <<vlock, vectors, ready, drained>>
      BY <1>1, <1>5 DEF ConnectVectors
    <2>2. pools + 1 \notin drained /\ drained \subseteq 1..pools' /\ pools' # 0
      BY <1>2, <2>1
    <2>3. \A d \in Callers \ {c} : pc[d] # "vectorSchema"
      BY <2>1 DEF VectorsInv
    <2>4. \A d \in Callers : vlock' = d <=> pc'[d] \in UnderVectors
      BY <2>1 DEF VectorsInv
    <2> QED
      BY <1>2, <2>1, <2>2, <2>3, <2>4 DEF VectorsInv
  <1>6. CASE LatchVectors(c)
    <2>1. /\ pc[c] = "vectorSchema" /\ vectors' = pools /\ vlock' = Nobody
          /\ \A d \in Callers : pc'[d] = IF d = c THEN "lock" ELSE pc[d]
          /\ UNCHANGED <<pools, drained>>
      BY <1>1, <1>6 DEF LatchVectors
    <2>2. pools # 0 /\ pools \notin drained /\ vlock = c
      BY <2>1 DEF VectorsInv
    <2> QED
      BY <1>2, <2>1, <2>2 DEF VectorsInv
  <1>7. CASE FailVectors(c)
    <2>1. /\ pc[c] \in UnderVectors /\ vlock' = Nobody
          /\ \A d \in Callers : pc'[d] = IF d = c THEN "refused" ELSE pc[d]
          /\ UNCHANGED <<vectors, ready, pools, drained>>
      BY <1>1, <1>7 DEF FailVectors
    <2> QED
      BY <2>1 DEF VectorsInv
  <1>8. CASE CancelOpen(c)
    <2>1. /\ vlock' = (IF vlock = c THEN Nobody ELSE vlock)
          /\ \A d \in Callers : pc'[d] = IF d = c THEN "refused" ELSE pc[d]
          /\ UNCHANGED <<vectors, ready, pools, drained>>
      BY <1>1, <1>8 DEF CancelOpen
    <2> QED
      BY <2>1 DEF VectorsInv
  <1>9. CASE TakeVectors(c)
    <2>1. /\ pc[c] = "closingAll" /\ vlock = Nobody /\ vlock' = c
          /\ vectors' = 0 /\ ready' = FALSE /\ pools' = pools
          /\ drained' = drained \union ({vectors} \ {0})
          /\ \A d \in Callers : pc'[d] = IF d = c THEN "closingVectors" ELSE pc[d]
      BY <1>1, <1>9 DEF TakeVectors
    <2>2. drained' \subseteq 1..pools' /\ 0 \notin drained'
      BY <2>1, <1>2
    <2>3. \A d \in Callers : vlock' = d <=> pc'[d] \in UnderVectors
      BY <2>1 DEF VectorsInv
    <2>4. \A d \in Callers : pc'[d] # "vectorSchema"
      BY <2>1, <2>3
    <2> QED
      BY <2>1, <2>2, <2>3, <2>4, <1>2 DEF VectorsInv
  <1>10. CASE ClosedVectors(c)
    <2>1. /\ pc[c] \in UnderVectors /\ vlock' = Nobody
          /\ \A d \in Callers : pc'[d] = IF d = c THEN "idle" ELSE pc[d]
          /\ UNCHANGED <<vectors, ready, pools, drained>>
      BY <1>1, <1>10 DEF ClosedVectors
    <2> QED
      BY <2>1 DEF VectorsInv
  <1> QED
    BY <1>4, <1>5, <1>6, <1>7, <1>8, <1>9, <1>10

\* VectorsInv is inductive.
LEMMA VectorsStay == Types /\ VectorsInv /\ [Next]_vars => VectorsInv'
  <1> SUFFICES ASSUME Types, VectorsInv, [Next]_vars PROVE VectorsInv'
    OBVIOUS
  <1>1. CASE Detach
    BY <1>1 DEF Detach, gvars, vector, VectorsInv
  <1>2. CASE UNCHANGED vars
    BY <1>2 DEF vars, gvars, vector, VectorsInv
  <1>3. ASSUME NEW c \in Callers, OpenStep(c) \/ CancelOpen(c) \/ CloseStep(c)
        PROVE  VectorsInv'
    BY <1>3, VectorStepKeepsVectors, GraphsElsewhere, ElsewhereKeepsVectors
       DEF OpenStep, CloseStep
  <1>4. ASSUME NEW c \in Callers, Turn(c) \/ BeginDelete(c) \/ BeginStop(c)
        PROVE  VectorsInv'
    BY <1>4, TurnsElsewhere, ElsewhereKeepsVectors
  <1> QED
    BY <1>1, <1>2, <1>3, <1>4 DEF Next

(***************************************************************************)
(* Standing: whoever has a store of a project has the one in the cache, or *)
(* one that is closed, or one being closed under the project's lock.       *)
(***************************************************************************)
Standing(p, g) ==
  \/ g = 0 \/ g \in closed \/ store[p] = g
  \/ \E d \in Callers : lock[p] = d /\ pc[d] = "closing" /\ g \in mine[d]

\* A store in use stays the cached one through a move.
LEMMA MoveKeepsStanding ==
  ASSUME Types, HomesInv, want' = want, NEW c \in Callers, Move(c),
         NEW p \in Projects, NEW g, Standing(p, g)
  PROVE  Standing(p, g)'
  <1> USE CallersAssumption
  <1>0. \A place : Go(c, place) =>
          \A d \in Callers : pc'[d] = IF d = c THEN place ELSE pc[d]
    BY DEF Go, Types, TypeOK
  <1>1. CASE Quiet(c)
    BY <1>0, <1>1 DEF Quiet, homes, caches, Standing, Holding
  <1>2. CASE Build(c)
    <2>1. /\ pc[c] = "lock" /\ lock[want[c]] = Nobody /\ UNCHANGED <<store, closed>>
          /\ \A d \in Callers \ {c} : pc'[d] = pc[d] /\ mine'[d] = mine[d]
          /\ \A q \in Projects \ {want[c]} : lock'[q] = lock[q]
      BY <1>0, <1>2 DEF Build, Types, GraphsTypeOK, caches
    <2> QED
      BY <2>1 DEF Standing
  <1>3. CASE Fold(c)
    BY <1>0, <1>3 DEF Fold, Standing
  <1>4. CASE IndexCards(c)
    <2>1. /\ pc[c] = "indexing" /\ store[want[c]] = 0 /\ closed' = closed
          /\ \A d \in Callers \ {c} : pc'[d] = pc[d] /\ mine'[d] = mine[d]
          /\ \A q \in Projects \ {want[c]} : store'[q] = store[q]
          /\ \A q \in Projects : lock[q] # c => lock'[q] = lock[q]
      BY <1>0, <1>4
         DEF IndexCards, Unlock, Types, GraphsTypeOK, HomesInv, LocksHeld
    <2> QED
      BY <2>1 DEF Standing
  <1>5. CASE FailBuild(c) \/ CancelOpen(c)
    <2>1. /\ pc[c] # "closing" /\ store' = store /\ closed \subseteq closed'
          /\ \A d \in Callers \ {c} : pc'[d] = pc[d] /\ mine'[d] = mine[d]
          /\ \A q \in Projects : lock[q] # c => lock'[q] = lock[q]
      BY <1>0, <1>5
         DEF FailBuild, CancelOpen, Opening, Unlock, Types, GraphsTypeOK, caches
    <2> QED
      BY <2>1 DEF Standing
  <1>6. CASE Closed(c)
    <2>1. /\ store' = store /\ closed' = closed \union mine[c]
          /\ \A d \in Callers \ {c} : pc'[d] = pc[d] /\ mine'[d] = mine[d]
          /\ \A q \in Projects : lock[q] # c => lock'[q] = lock[q]
      BY <1>0, <1>6 DEF Closed, Unlock, Types, GraphsTypeOK, caches
    <2> QED
      BY <2>1 DEF Standing
  <1>7. ASSUME NEW q \in Projects, Evict(c, q), pc[c] \in {"closeLock", "closingAll"}
        PROVE  Standing(p, g)'
    <2>1. /\ lock[q] = Nobody /\ lock'[q] = c /\ pc'[c] = "closing" /\ mine'[c] = Cached(q)
          /\ closed' = closed
          /\ \A d \in Callers \ {c} : pc'[d] = pc[d] /\ mine'[d] = mine[d]
          /\ \A r \in Projects \ {q} : lock'[r] = lock[r] /\ store'[r] = store[r]
      BY <1>0, <1>7 DEF Evict, Types, GraphsTypeOK
    <2>2. store[q] # 0 => store[q] \in mine'[c]
      BY <2>1 DEF Cached
    <2> QED
      BY <1>7, <2>1, <2>2 DEF Standing
  <1> QED
    BY <1>1, <1>2, <1>3, <1>4, <1>5, <1>6, <1>7 DEF Move

\* What nobody touches stays in its standing.
LEMMA StandingKept ==
  ASSUME Types, HomesInv, [Next]_vars, NEW p \in Projects, NEW g, Standing(p, g)
  PROVE  Standing(p, g)'
  <1>1. CASE UNCHANGED <<pc, homes>>
    BY <1>1 DEF homes, caches, Standing
  <1> QED
    BY <1>1, EveryStepMoves, MoveKeepsStanding

\* Stores in use: by callers and by the attachment.
StandingInv ==
  /\ \A c \in Callers : Works(c) \in Projects => Standing(Works(c), got[c])
  /\ \A c \in Callers : got[c] # 0 => Works(c) \in Projects
  /\ attached \in Projects => Standing(attached, over)
  /\ attached = NoProject <=> over = 0
  /\ \A c \in Callers : pc[c] = "opened" => got[c] # 0

\* No store is in use at first.
LEMMA StandingInit == Init => StandingInv
  <1> SUFFICES ASSUME Init PROVE StandingInv
    OBVIOUS
  <1>1. /\ \A c \in Callers : pc[c] = "idle" /\ got[c] = 0 /\ want[c] \in Projects
        /\ attached = NoProject /\ over = 0
    BY DEF Init, GraphsInit
  <1> QED
    BY <1>1, NoProjectAssumption DEF StandingInv, Standing, Works

\* Nobody gets a store, and nothing is attached.
Keeps(c) ==
  /\ UNCHANGED <<want, got, attached, over>>
  /\ \A d \in Callers : Works(d)' = Works(d)
  /\ \A d \in Callers : pc'[d] = "opened" => pc[d] = "opened"

\* The steps over graphs keep what callers use.
LEMMA GraphsKeep ==
  ASSUME Types, NEW c \in Callers, UNCHANGED avars,
         \/ EnterVectors(c) \/ ConnectVectors(c) \/ LatchVectors(c) \/ FailVectors(c)
         \/ Fold(c) \/ FailBuild(c) \/ CancelOpen(c) \/ CloseStep(c)
  PROVE  Keeps(c)
  <1> SUFFICES /\ UNCHANGED <<want, got, used, attached, over>> /\ pc[c] # "turn"
               /\ \E place \in Places \ {"opened", "turn"} : Go(c, place)
    BY DEF Keeps, Works, Go, Types, TypeOK
  <1> USE DEF avars, Places, Opening, Closing
  <1>1. CASE EnterVectors(c)
    BY <1>1 DEF EnterVectors
  <1>2. CASE ConnectVectors(c)
    BY <1>2 DEF ConnectVectors
  <1>3. CASE LatchVectors(c)
    BY <1>3 DEF LatchVectors
  <1>4. CASE FailVectors(c)
    BY <1>4 DEF FailVectors
  <1>5. CASE Fold(c)
    BY <1>5 DEF Fold
  <1>6. CASE FailBuild(c)
    BY <1>6 DEF FailBuild
  <1>7. CASE CancelOpen(c)
    BY <1>7 DEF CancelOpen
  <1>8. CASE CloseStep(c)
    BY <1>8 DEF CloseStep, Close, CloseNext, Evict, Closed, TakeVectors, ClosedVectors
  <1> QED
    BY <1>1, <1>2, <1>3, <1>4, <1>5, <1>6, <1>7, <1>8

\* So do the steps of a turn.
LEMMA TurnsKeep ==
  ASSUME Types, NEW c \in Callers,
         \/ BeginTurn(c) \/ Skip(c) \/ AskToOpen(c) \/ GoWithout(c)
         \/ BeginDelete(c) \/ BeginStop(c)
  PROVE  Keeps(c)
  <1> SUFFICES /\ UNCHANGED <<want, got, attached, over>> /\ pc[c] # "turn"
               /\ \A d \in Callers \ {c} : used'[d] = used[d]
               /\ \E place \in Places \ {"opened", "turn"} : Go(c, place)
    BY DEF Keeps, Works, Go, Types, TypeOK
  <1> USE DEF graphs, avars, Places, Opening, Closing, Types, TypeOK
  <1>1. CASE BeginTurn(c)
    BY <1>1 DEF BeginTurn, BeginOp
  <1>2. CASE Skip(c)
    BY <1>2 DEF Skip
  <1>3. CASE AskToOpen(c)
    BY <1>3 DEF AskToOpen, BeginOpen
  <1>4. CASE GoWithout(c)
    BY <1>4 DEF GoWithout
  <1>5. CASE BeginDelete(c)
    BY <1>5 DEF BeginDelete, BeginOp
  <1>6. CASE BeginStop(c)
    BY <1>6 DEF BeginStop, BeginOp, BeginCloseAll
  <1> QED
    BY <1>1, <1>2, <1>3, <1>4, <1>5, <1>6

\* A step that keeps what is used keeps its standing.
LEMMA KeepsStands ==
  ASSUME Types, HomesInv, StandingInv, [Next]_vars, NEW c \in Callers, Keeps(c)
  PROVE  StandingInv'
  <1>1. \A d \in Callers : Works(d)' = Works(d) /\ got'[d] = got[d]
    BY DEF Keeps
  <1>2. \A d \in Callers : Works(d) \in Projects => Standing(Works(d), got[d])'
    BY <1>1, StandingKept DEF StandingInv, Standing
  <1>3. attached \in Projects => Standing(attached, over)'
    BY StandingKept DEF StandingInv, Keeps, Standing
  <1> QED
    BY <1>1, <1>2, <1>3 DEF StandingInv, Keeps

\* What open returns is in the cache.
LEMMA ReturnStands ==
  ASSUME Types, HomesInv, StandingInv, [Next]_vars, NEW c \in Callers, UNCHANGED avars,
         pc[c] # "turn", Go(c, "opened"), want' = want, got'[c] # 0,
         got'[c] = store'[want[c]], \A d \in Callers \ {c} : got'[d] = got[d]
  PROVE  StandingInv'
  <1>1. /\ \A d \in Callers : pc'[d] = IF d = c THEN "opened" ELSE pc[d]
        /\ \A d \in Callers : want[d] \in Projects
        /\ UNCHANGED <<used, attached, over>>
    BY DEF Go, Types, TypeOK, GraphsTypeOK, avars
  <1>2. \A d \in Callers : Works(d)' = Works(d)
    BY <1>1 DEF Works
  <1>3. Works(c) = want[c]
    BY DEF Works
  <1>4. ASSUME NEW d \in Callers, Works(d) \in Projects
        PROVE  Standing(Works(d), got[d])'
    <2>1. CASE d = c
      BY <1>2, <1>3, <2>1 DEF Standing
    <2>2. CASE d # c
      BY <1>2, <1>4, <2>2, StandingKept DEF StandingInv, Standing
    <2> QED
      BY <2>1, <2>2
  <1>5. attached \in Projects => Standing(attached, over)'
    BY <1>1, StandingKept DEF StandingInv, Standing
  <1>6. \A d \in Callers : got'[d] # 0 => Works(d)' \in Projects
    BY <1>1, <1>2, <1>3 DEF StandingInv
  <1> QED
    BY <1>1, <1>2, <1>4, <1>5, <1>6 DEF StandingInv, Standing

\* Who enters gets the cached store.
LEMMA EnterStands ==
  ASSUME Types, HomesInv, StandingInv, [Next]_vars, NEW c \in Callers, UNCHANGED avars,
         Enter(c) \/ IndexCards(c)
  PROVE  StandingInv'
  <1>1. CASE Enter(c) /\ store[want[c]] # 0
    BY <1>1, ReturnStands DEF Enter, caches, Types, GraphsTypeOK
  <1>2. CASE Enter(c) /\ store[want[c]] = 0
    <2>1. pc[c] = "lock" /\ Go(c, "building") /\ UNCHANGED <<got, want>>
      BY <1>2 DEF Enter
    <2>2. Keeps(c)
      BY <2>1 DEF Keeps, Works, Go, Types, TypeOK, avars
    <2> QED
      BY <2>2, KeepsStands
  <1>3. CASE IndexCards(c)
    <2>1. PICK g \in mine[c] : /\ store' = [store EXCEPT ![want[c]] = g]
                               /\ got' = [got EXCEPT ![c] = g]
      BY <1>3 DEF IndexCards
    <2>2. g # 0
      BY StoresAreNumbers DEF Types, GraphsTypeOK
    <2> QED
      BY <1>3, <2>1, <2>2, ReturnStands DEF IndexCards, Types, GraphsTypeOK
  <1> QED
    BY <1>1, <1>2, <1>3

\* A turn is given the tools that are attached, and gives them back.
LEMMA TurnStands ==
  ASSUME Types, HomesInv, StandingInv, [Next]_vars, NEW c \in Callers,
         Invoke(c) \/ EndTurn(c)
  PROVE  StandingInv'
  <1> USE DEF Go, Types, TypeOK, GraphsTypeOK
  <1>1. /\ \A d \in Callers \ {c} : /\ pc'[d] = pc[d] /\ used'[d] = used[d]
                                    /\ got'[d] = got[d]
        /\ pc'[c] # "opened" /\ UNCHANGED <<want, attached, over>>
    BY DEF Invoke, EndTurn
  <1>2. attached \in Projects => Standing(attached, over)'
    BY <1>1, StandingKept DEF StandingInv, Standing
  <1>3. \/ Works(c)' = attached /\ got'[c] = over
        \/ got'[c] = 0
    BY DEF Invoke, EndTurn, Works
  <1>4. attached \in Projects \union {NoProject}
    OBVIOUS
  <1>5. \A d \in Callers \ {c} : Works(d)' = Works(d)
    BY <1>1 DEF Works
  <1>6. ASSUME NEW d \in Callers, Works(d)' \in Projects
        PROVE  Standing(Works(d), got[d])'
    <2>1. CASE d = c
      BY <1>1, <1>2, <1>3, <1>6, <2>1 DEF Standing
    <2>2. CASE d # c
      BY <1>1, <1>5, <1>6, <2>2, StandingKept DEF StandingInv, Standing
    <2> QED
      BY <2>1, <2>2
  <1>7. ASSUME NEW d \in Callers, got'[d] # 0
        PROVE  Works(d)' \in Projects
    BY <1>1, <1>3, <1>4, <1>5, <1>7 DEF StandingInv
  <1> QED
    BY <1>1, <1>2, <1>6, <1>7 DEF StandingInv, Standing

\* What is attached changes, and nothing of the callers' stores.
LEMMA AttachStands ==
  ASSUME Types, HomesInv, StandingInv, [Next]_vars,
         \/ \E c \in Callers : Attach(c) \/ GoRetired(c)
         \/ Detach
  PROVE  StandingInv'
  <1> USE DEF Types, TypeOK, GraphsTypeOK
  <1>1. /\ UNCHANGED <<want, got, used>>
        /\ \A d \in Callers : /\ pc'[d] = "turn" <=> pc[d] = "turn"
                              /\ pc'[d] = "opened" => pc[d] = "opened"
    BY DEF Attach, GoRetired, Detach, Go, graphs, gvars
  <1>2. \A d \in Callers : Works(d)' = Works(d)
    BY <1>1 DEF Works
  <1>3. \A d \in Callers : Works(d) \in Projects => Standing(Works(d), got[d])'
    BY <1>1, <1>2, StandingKept DEF StandingInv, Standing
  <1>4. \/ attached' = NoProject /\ over' = 0
        \/ UNCHANGED <<attached, over>>
        \/ \E c \in Callers : pc[c] = "opened" /\ attached' = want[c] /\ over' = got[c]
    BY DEF Attach, GoRetired, Detach
  <1>5. /\ attached' \in Projects => Standing(attached, over)'
        /\ attached' = NoProject <=> over' = 0
    <2>1. CASE attached' = NoProject /\ over' = 0
      BY <2>1, NoProjectAssumption
    <2>2. CASE UNCHANGED <<attached, over>>
      BY <2>2, StandingKept DEF StandingInv, Standing
    <2>3. ASSUME NEW c \in Callers, pc[c] = "opened", attached' = want[c], over' = got[c]
          PROVE  /\ attached' \in Projects => Standing(attached, over)'
                 /\ attached' = NoProject <=> over' = 0
      <3>1. Works(c) = want[c] /\ got[c] # 0 /\ want[c] \in Projects /\ got'[c] = got[c]
        BY <1>1, <2>3 DEF Works, StandingInv
      <3>2. Standing(Works(c), got[c])'
        BY <1>3, <3>1
      <3> QED
        BY <1>2, <2>3, <3>1, <3>2, NoProjectAssumption DEF Standing
    <2> QED
      BY <1>4, <2>1, <2>2, <2>3
  <1> QED
    BY <1>1, <1>2, <1>3, <1>5 DEF StandingInv, Standing

\* StandingInv is inductive, given the homes.
LEMMA StandingStays ==
  Types /\ HomesInv /\ StandingInv /\ [Next]_vars => StandingInv'
  <1> SUFFICES ASSUME Types, HomesInv, StandingInv, [Next]_vars PROVE StandingInv'
    OBVIOUS
  <1>1. CASE UNCHANGED vars
    BY <1>1 DEF vars, gvars, avars, caches, StandingInv, Standing, Works
  <1>2. ASSUME NEW c \in Callers, OpenStep(c) \/ CancelOpen(c) \/ CloseStep(c), UNCHANGED avars
        PROVE  StandingInv'
    BY <1>2, GraphsKeep, KeepsStands, EnterStands DEF OpenStep
  <1>3. ASSUME NEW c \in Callers, Turn(c) \/ BeginDelete(c) \/ BeginStop(c)
        PROVE  StandingInv'
    BY <1>3, TurnsKeep, KeepsStands, TurnStands, AttachStands DEF Turn
  <1> QED
    BY <1>1, <1>2, <1>3, AttachStands DEF Next

(***************************************************************************)
(* The theorems.                                                           *)
(***************************************************************************)
AllInv == Types /\ HomesInv /\ VectorsInv /\ StandingInv

\* Locks, caches, vector store and attachment together: the inductive invariant.
LEMMA AllHold == Spec => []AllInv
  <1>1. Init => AllInv
    BY TypesInit, HomesInit, VectorsInit, StandingInit DEF AllInv
  <1>2. AllInv /\ [Next]_vars => AllInv'
    BY TypesStay, HomesStay, VectorsStay, StandingStays DEF AllInv
  <1> QED
    BY <1>1, <1>2, PTL DEF Spec

\* Who holds a lock is at an await under it, and what is cached as a graph or
\* as cards is open, of one build, and in nobody's hands
\* (ProjectGraphs.open, close, vectors, close_all).
THEOREM CachedIsOpen == Spec => []AttachmentInv
  <1>1. AllInv => AttachmentInv
    <2> SUFFICES ASSUME AllInv PROVE AttachmentInv
      OBVIOUS
    <2>1. \A p \in Projects : store[p] \notin closed /\ cards[p] \notin closed
      BY StoresAreNumbers DEF AllInv, HomesInv, HomesApart, CachesAgree, Types, GraphsTypeOK
    <2> QED
      BY <2>1 DEF AllInv, Types, AttachmentInv, GraphsInv, HomesInv, LocksHeld, CachesAgree,
                  Holding, VectorsInv, UnderVectors, StandingInv
  <1> QED
    BY <1>1, AllHold, PTL

\* No two live stores of a project are in use, whoever opens, closes, deletes,
\* attaches or takes a turn (ProjectGraphs.open, close; attach; _invoke).
THEOREM NoSecondLiveStore == Spec => []OneLiveStore
  <1>1. AllInv => OneLiveStore
    <2> SUFFICES ASSUME AllInv, NEW c \in Callers, NEW d \in Callers, Works(c) = Works(d),
                        {got[c], got[d]} \intersect (closed \union {0}) = {}
                 PROVE  got[c] = got[d]
      BY DEF OneLiveStore
    <2>1. /\ Works(c) \in Projects /\ got[c] \notin closed /\ got[d] \notin closed
          /\ got[c] # 0 /\ got[d] # 0
      BY DEF AllInv, StandingInv
    <2>2. Standing(Works(c), got[c]) /\ Standing(Works(c), got[d])
      BY <2>1 DEF AllInv, StandingInv
    <2>3. \A e \in Callers : lock[Works(c)] = e => store[Works(c)] = 0
      BY <2>1 DEF AllInv, HomesInv, LocksHeld
    <2>4. \A e \in Callers : \A g, h \in mine[e] : g = h
      BY DEF AllInv, HomesInv, HandsHoldOne
    <2> QED
      BY <2>1, <2>2, <2>3, <2>4 DEF Standing
  <1> QED
    BY <1>1, AllHold, PTL

(***************************************************************************)
(* No deadlock: what a caller waits for is held by one that is at work.    *)
(***************************************************************************)
AtWork == Holding \union UnderVectors

\* c is at the await of a lock that h has.
WaitsFor(c, h) ==
  \/ pc[c] = "vectorLock" /\ vlock = h
  \/ pc[c] \in {"lock", "closeLock"} /\ lock[want[c]] = h
  \/ pc[c] = "closingAll" /\ \E p \in todo : lock[p] = h
  \/ pc[c] = "closingAll" /\ todo = {} /\ vlock = h

\* The lock a caller is at is free.
FindsItFree(c) ==
  /\ pc[c] = "vectorLock" => vlock = Nobody
  /\ pc[c] \in {"lock", "closeLock"} => lock[want[c]] = Nobody
  /\ pc[c] = "closingAll" => IF todo = {} THEN vlock = Nobody ELSE \A p \in todo : lock[p] = Nobody

\* Who is waited for waits for nobody, and has in hand what it has to build;
\* and who waits for nobody finds its lock free.
NobodyWaitsForAWaiter ==
  \A c \in Callers :
    /\ \A h \in Callers : WaitsFor(c, h) =>
         /\ pc[h] \in AtWork /\ \A k \in Callers : ~WaitsFor(h, k)
         /\ pc[h] \in {"building", "indexing"} => mine[h] # {}
    /\ (\A h \in Callers : ~WaitsFor(c, h)) => FindsItFree(c)

\* The awaits a caller has before it under the lock that it holds.
HoldLeft(c) ==
  IF pc[c] \in {"vectorOpening", "building"} THEN 2
  ELSE IF pc[c] \in {"vectorSchema", "indexing", "closing", "closingVectors"} THEN 1
  ELSE 0

\* Under a lock a caller only comes nearer to giving it back, whatever raises
\* or is cancelled, and no other caller's step delays it.
HoldsAreShort ==
  [][\A c \in Callers : HoldLeft(c) # 0 =>
       \/ pc'[c] = pc[c] /\ ~OpenStep(c) /\ ~CloseStep(c)
       \/ HoldLeft(c)' < HoldLeft(c)]_vars

\* A caller that builds has something in its hands.
HandsFull == \A c \in Callers : pc[c] \in {"building", "indexing"} => mine[c] # {}

\* What it has enters them when it takes the lock, and stays to the last await.
LEMMA HandsStayFull == Types /\ HandsFull /\ [Next]_vars => HandsFull'
  <1> SUFFICES ASSUME Types, HandsFull, [Next]_vars PROVE HandsFull'
    OBVIOUS
  <1> USE DEF HandsFull, Holding
  <1>0. /\ pc \in [Callers -> Places] /\ mine \in [Callers -> SUBSET (1..MaxBuilds)]
    BY DEF Types, TypeOK, GraphsTypeOK, Places
  <1>1. CASE UNCHANGED <<pc, homes>>
    BY <1>1 DEF homes
  <1>2. ASSUME NEW c \in Callers, Move(c) PROVE HandsFull'
    <2>1. CASE Quiet(c)
      BY <1>0, <2>1 DEF Quiet, Go, homes
    <2>2. CASE Build(c)
      BY <1>0, <2>2 DEF Build, Go
    <2>3. CASE Fold(c)
      BY <1>0, <2>3 DEF Fold, Go
    <2>4. CASE IndexCards(c)
      BY <1>0, <2>4 DEF IndexCards, Go
    <2>5. CASE FailBuild(c) \/ CancelOpen(c)
      BY <1>0, <2>5 DEF FailBuild, CancelOpen, Go
    <2>6. CASE Closed(c)
      BY <1>0, <2>6 DEF Closed, Go
    <2>7. ASSUME NEW p \in Projects, Evict(c, p) PROVE HandsFull'
      BY <1>0, <2>7 DEF Evict, Go
    <2> QED
      BY <1>2, <2>1, <2>2, <2>3, <2>4, <2>5, <2>6, <2>7 DEF Move
  <1> QED
    BY <1>1, <1>2, EveryStepMoves

\* A step under a lock leads to a later await of it, or gives it back.
LEMMA HoldsGoOn ==
  ASSUME Types, NEW c \in Callers, HoldLeft(c) # 0, OpenStep(c) \/ CancelOpen(c) \/ CloseStep(c)
  PROVE  HoldLeft(c)' < HoldLeft(c)
  <1>0. pc \in [Callers -> Places]
    BY DEF Types, TypeOK, Places
  <1>1. pc[c] \in AtWork
    BY DEF HoldLeft, AtWork, Holding, UnderVectors
  <1>2. \/ pc[c] = "vectorOpening" /\ pc'[c] \in {"vectorSchema", "refused"}
        \/ pc[c] = "vectorSchema" /\ pc'[c] \in {"lock", "refused"}
        \/ pc[c] = "building" /\ pc'[c] \in {"indexing", "refused"}
        \/ pc[c] = "indexing" /\ pc'[c] \in {"opened", "refused"}
        \/ pc[c] = "closing" /\ pc'[c] \in {"closingAll", "idle"}
        \/ pc[c] = "closingVectors" /\ pc'[c] = "idle"
    <2> USE <1>0, <1>1 DEF AtWork, Holding, UnderVectors, Go
    <2>1. CASE EnterVectors(c) \/ Enter(c) \/ Close(c) \/ CloseNext(c) \/ TakeVectors(c)
      BY <2>1 DEF EnterVectors, Enter, Close, CloseNext, TakeVectors
    <2>2. CASE ConnectVectors(c) \/ LatchVectors(c) \/ FailVectors(c)
      BY <2>2 DEF ConnectVectors, LatchVectors, FailVectors
    <2>3. CASE Fold(c) \/ IndexCards(c) \/ FailBuild(c)
      BY <2>3 DEF Fold, IndexCards, FailBuild
    <2>4. CASE CancelOpen(c)
      BY <2>4 DEF CancelOpen, Opening
    <2>5. CASE Closed(c) \/ ClosedVectors(c)
      BY <2>5 DEF Closed, ClosedVectors
    <2> QED
      BY <2>1, <2>2, <2>3, <2>4, <2>5 DEF OpenStep, CloseStep
  <1> QED
    BY <1>2 DEF HoldLeft

\* A step of one caller leaves the awaits of the others.
LEMMA OthersStay ==
  ASSUME Types, [Next]_vars, NEW c \in Callers,
         ~(OpenStep(c) \/ CancelOpen(c) \/ CloseStep(c)), HoldLeft(c) # 0
  PROVE  pc'[c] = pc[c]
  <1>0. pc \in [Callers -> Places] /\ pc[c] \in AtWork
    BY DEF Types, TypeOK, Places, HoldLeft, AtWork, Holding, UnderVectors
  <1>1. ASSUME NEW d \in Callers, Turn(d) \/ BeginDelete(d) \/ BeginStop(d) PROVE pc'[c] = pc[c]
    <2>1. Quiet(d) /\ Elsewhere(d)
      BY <1>1, TurnMoves, TurnsElsewhere
    <2>2. d # c
      BY <1>0, <2>1 DEF Quiet, Elsewhere, AtWork
    <2> QED
      BY <1>0, <2>1, <2>2 DEF Quiet, Go
  <1>2. ASSUME NEW d \in Callers, OpenStep(d) \/ CancelOpen(d) \/ CloseStep(d) PROVE pc'[c] = pc[c]
    <2>1. d # c
      BY <1>2
    <2>2. Move(d)
      BY <1>2, OpenMoves, CloseMoves
    <2>3. \E place : Go(d, place)
      BY <2>2 DEF Move, Quiet, Build, Fold, IndexCards, FailBuild, CancelOpen, Closed, Evict
    <2> QED
      BY <1>0, <2>1, <2>3 DEF Go
  <1>3. CASE Detach \/ UNCHANGED vars
    BY <1>3 DEF Detach, vars, gvars
  <1> QED
    BY <1>1, <1>2, <1>3 DEF Next

\* No two callers wait for each other, and no chain of them is longer than one: what a caller
\* waits for is held by one that is at an await under it, which needs no lock and leads within
\* two steps to its release. So the two kinds of lock, whatever raises, is cancelled or closed
\* meanwhile, never stop the process (ProjectGraphs.open, vectors, close, close_all).
THEOREM NoDeadlock == Spec => []NobodyWaitsForAWaiter /\ HoldsAreShort
  <1>1. Init => HandsFull
    BY DEF Init, GraphsInit, HandsFull
  <1>2. AllInv /\ HandsFull => NobodyWaitsForAWaiter
    <2> SUFFICES ASSUME AllInv, HandsFull, NEW c \in Callers
                 PROVE  /\ \A h \in Callers : WaitsFor(c, h) =>
                             /\ pc[h] \in AtWork /\ \A k \in Callers : ~WaitsFor(h, k)
                             /\ pc[h] \in {"building", "indexing"} => mine[h] # {}
                        /\ (\A h \in Callers : ~WaitsFor(c, h)) => FindsItFree(c)
      BY DEF NobodyWaitsForAWaiter
    <2>0. /\ want \in [Callers -> Projects] /\ lock \in [Projects -> Callers \union {Nobody}]
          /\ vlock \in Callers \union {Nobody} /\ todo \subseteq Projects
      BY DEF AllInv, Types, GraphsTypeOK
    <2>1. ASSUME NEW h \in Callers, WaitsFor(c, h)
          PROVE  /\ pc[h] \in AtWork /\ \A k \in Callers : ~WaitsFor(h, k)
                 /\ pc[h] \in {"building", "indexing"} => mine[h] # {}
      <3>1. vlock = h \/ \E p \in Projects : lock[p] = h
        BY <2>0, <2>1 DEF WaitsFor
      <3>2. pc[h] \in AtWork
        BY <3>1 DEF AllInv, HomesInv, LocksHeld, VectorsInv, AtWork
      <3>3. \A k \in Callers : ~WaitsFor(h, k)
        BY <3>2 DEF WaitsFor, AtWork, Holding, UnderVectors
      <3> QED
        BY <3>2, <3>3 DEF HandsFull
    <2>2. ASSUME \A h \in Callers : ~WaitsFor(c, h) PROVE FindsItFree(c)
      BY <2>0, <2>2 DEF WaitsFor, FindsItFree
    <2> QED
      BY <2>1, <2>2
  <1>3. ASSUME Types, [Next]_vars, NEW c \in Callers, HoldLeft(c) # 0
        PROVE  \/ pc'[c] = pc[c] /\ ~OpenStep(c) /\ ~CloseStep(c)
               \/ HoldLeft(c)' < HoldLeft(c)
    BY <1>3, HoldsGoOn, OthersStay
  <1>4. Types /\ [Next]_vars
          => [\A c \in Callers : HoldLeft(c) # 0 =>
                \/ pc'[c] = pc[c] /\ ~OpenStep(c) /\ ~CloseStep(c)
                \/ HoldLeft(c)' < HoldLeft(c)]_vars
    BY <1>3
  <1>5. AllInv => Types
    BY DEF AllInv
  <1> QED
    BY AllHold, HandsStayFull, <1>1, <1>2, <1>4, <1>5, PTL DEF Spec, HoldsAreShort

=============================================================================
