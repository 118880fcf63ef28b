-------------------------- MODULE FetchGrantProofs --------------------------
(***************************************************************************)
(* FetchGrant's invariant is inductive for every budget, every number of   *)
(* calls and every bound.                                                  *)
(***************************************************************************)
EXTENDS FetchGrant, FiniteSetTheorems, TLAPS

(***************************************************************************)
(* Sets of calls are finite, and their sizes add up.                       *)
(***************************************************************************)
LEMMA CallsAreFinite ==
  ASSUME NEW S \in SUBSET Calls
  PROVE  IsFiniteSet(S) /\ Cardinality(S) \in Nat
  <1>1. IsFiniteSet(Calls)
    BY FS_Interval, BoundsAssumption DEF Calls
  <1>2. IsFiniteSet(S)
    BY <1>1, FS_Subset
  <1> QED
    BY <1>2, FS_CardinalityType

\* A subset of a finite set is no larger.
LEMMA SmallerSet ==
  ASSUME NEW T \in SUBSET Calls, NEW S \in SUBSET T
  PROVE  Cardinality(S) <= Cardinality(T)
  BY CallsAreFinite, FS_Subset

\* A union is no larger than its parts together.
LEMMA UnionSize ==
  ASSUME NEW S \in SUBSET Calls, NEW T \in SUBSET Calls
  PROVE  Cardinality(S \union T) <= Cardinality(S) + Cardinality(T)
  <1>1. IsFiniteSet(S) /\ IsFiniteSet(T)
    BY CallsAreFinite
  <1>2. Cardinality(S \union T) = Cardinality(S) + Cardinality(T) - Cardinality(S \intersect T)
    BY <1>1, FS_Union
  <1>3. /\ Cardinality(S) \in Nat /\ Cardinality(T) \in Nat
        /\ Cardinality(S \intersect T) \in Nat
    BY CallsAreFinite, S \intersect T \in SUBSET Calls
  <1> QED
    BY <1>2, <1>3

(***************************************************************************)
(* A walk of the gate over the calls b.                                    *)
(***************************************************************************)
\* What it claims fits the room there is, and at level ask only calls at a
\* granted host that hold a claim pass.
LEMMA WalkFits ==
  ASSUME level \in Levels, NEW b \in SUBSET Calls, NEW scope,
         NEW new \in Claiming(b, scope)
  PROVE  /\ new \subseteq b
         /\ new # {} => Cardinality(new) <= Room
         /\ Passing(b, scope, new) \subseteq b
         /\ level = "ask" => Passing(b, scope, new) \subseteq scope \intersect (reserved \union new)
         /\ level = "deny" => Passing(b, scope, new) = {}
  <1>1. CASE level = "ask"
    BY <1>1 DEF Claiming, Claims, Wanting, Held, Passing
  <1>2. CASE level # "ask"
    <2>1. new = {} /\ level \in {"auto", "deny"}
      BY <1>2 DEF Claiming, Levels
    <2>2. Passing(b, scope, new) = IF level = "auto" THEN b ELSE {}
      BY <2>1 DEF Passing
    <2> QED
      BY <2>1, <2>2
  <1> QED
    BY <1>1, <1>2

\* Claims that fit the room keep reads and claims within the budget.
LEMMA RoomIsEnough ==
  ASSUME TypeOK, ChargesAreJust, PaidFor, UnattendedWithinBudget,
         NEW new \in SUBSET Calls, new # {} => Cardinality(new) <= Room
  PROVE  Cardinality(Unattended \union (reserved \union new)) <= Budget
  <1>1. CASE new = {}
    BY <1>1 DEF UnattendedWithinBudget
  <1>2. CASE new # {}
    <2>1. /\ reserved \in SUBSET Calls /\ charged \in SUBSET Calls
          /\ remaining \in Nat /\ Budget \in Nat
      BY BoundsAssumption DEF TypeOK
    <2>2. /\ Cardinality(new) \in Nat /\ Cardinality(reserved) \in Nat
          /\ Cardinality(charged) \in Nat
      BY <2>1, CallsAreFinite
    <2>3. Cardinality(new) # 0
      BY <1>2, CallsAreFinite, FS_EmptySet
    <2>4. Cardinality(new) <= remaining - Cardinality(reserved) /\ remaining > 0
      BY <1>2, <2>1, <2>2, <2>3 DEF Room
    <2>5. Unattended \union (reserved \union new) \subseteq charged \union (reserved \union new)
      BY <2>4 DEF PaidFor
    <2>6. charged \union (reserved \union new) \in SUBSET Calls /\ reserved \union new \in SUBSET Calls
      BY <2>1
    <2>7. Cardinality(Unattended \union (reserved \union new))
            <= Cardinality(charged \union (reserved \union new))
      BY <2>5, <2>6, SmallerSet
    <2>8. Cardinality(charged \union (reserved \union new))
            <= Cardinality(charged) + Cardinality(reserved \union new)
      BY <2>1, <2>6, UnionSize
    <2>9. Cardinality(reserved \union new) <= Cardinality(reserved) + Cardinality(new)
      BY <2>1, UnionSize
    <2>10. Cardinality(charged) = Budget - remaining
      BY DEF ChargesAreJust
    <2>11. /\ Cardinality(Unattended \union (reserved \union new)) \in Nat
           /\ Cardinality(charged \union (reserved \union new)) \in Nat
           /\ Cardinality(reserved \union new) \in Nat
      BY <2>1, <2>5, <2>6, CallsAreFinite
    <2> QED
      BY <2>1, <2>2, <2>4, <2>7, <2>8, <2>9, <2>10, <2>11
  <1> QED
    BY <1>1, <1>2

\* What a walk claims is of its message.
LEMMA WalkClaims ==
  ASSUME level \in Levels, NEW b \in SUBSET Calls, NEW scope,
         NEW new \in Claiming(b, scope)
  PROVE  new \subseteq b
  BY WalkFits

(***************************************************************************)
(* Types.                                                                  *)
(***************************************************************************)
LEMMA TypeInit == Init => TypeOK
  BY BoundsAssumption DEF Init, TypeOK, Levels, Calls

\* The gate walks a message b of new calls.
GateOf(b, scope, new) ==
  /\ batch' = b /\ inScope' = scope /\ reserved' = reserved \union new
  /\ asks' = b \ Passing(b, scope, new)
  /\ turn' = IF Passing(b, scope, new) = b THEN "running" ELSE "asking"
  /\ \A c \in Calls : pc'[c] = IF c \notin b THEN pc[c]
                               ELSE IF Passing(b, scope, new) = b THEN "ready" ELSE "gated"

\* What it notes of how each call left.
GateNotes(b, scope, new) ==
  /\ \A c \in Calls : leave'[c] = IF c \in b /\ Passing(b, scope, new) = b
                                    THEN LetThrough ELSE leave[c]
  /\ pc' = [c \in Calls |-> pc'[c]] /\ leave' = [c \in Calls |-> leave'[c]]

\* The two, as the gate assigns them.
GateTakes(b, scope, new) ==
  /\ inScope' = scope
  /\ reserved' = reserved \union new
  /\ asks' = b \ Passing(b, scope, new)
  /\ turn' = IF Passing(b, scope, new) = b THEN "running" ELSE "asking"
  /\ pc' = [c \in Calls |->
              IF c \notin b THEN pc[c]
              ELSE IF Passing(b, scope, new) = b THEN "ready" ELSE "gated"]
  /\ leave' = [c \in Calls |->
                 IF c \in b /\ Passing(b, scope, new) = b THEN LetThrough ELSE leave[c]]

\* What the gate's first pass does, with its message named.
LEMMA GateOpens ==
  ASSUME Gate
  PROVE  \E n \in 1..MaxBatch :
           /\ used + n <= NCalls
           /\ used' = used + n
           /\ batch' = (used + 1)..(used + n)
           /\ \E urls \in SUBSET ((used + 1)..(used + n)) :
              \E new \in Claiming((used + 1)..(used + n), inScope \union urls) :
                /\ GateOf((used + 1)..(used + n), inScope \union urls, new)
                /\ GateNotes((used + 1)..(used + n), inScope \union urls, new)
  <1>1. PICK n \in 1..MaxBatch :
           /\ used + n <= NCalls
           /\ used' = used + n
           /\ batch' = (used + 1)..(used + n)
           /\ \E urls \in SUBSET ((used + 1)..(used + n)) :
              \E new \in Claiming((used + 1)..(used + n), inScope \union urls) :
                GateTakes((used + 1)..(used + n), inScope \union urls, new)
    BY DEF Gate, GateTakes
  <1>2. ASSUME NEW b, NEW scope, NEW new, batch' = b, GateTakes(b, scope, new)
        PROVE  GateOf(b, scope, new) /\ GateNotes(b, scope, new)
    <2>1. GateOf(b, scope, new)
      BY <1>2 DEF GateTakes, GateOf
    <2>2. /\ \A c \in Calls : leave'[c] = IF c \in b /\ Passing(b, scope, new) = b
                                            THEN LetThrough ELSE leave[c]
          /\ leave' = [c \in Calls |-> leave'[c]]
      BY <1>2 DEF GateTakes
    <2>3. pc' = [c \in Calls |-> pc'[c]]
      BY <1>2 DEF GateTakes
    <2> QED
      BY <2>1, <2>2, <2>3 DEF GateNotes
  <1> QED
    BY <1>1, <1>2

\* The gate keeps the types.
LEMMA TypeGate == TypeOK /\ Gate => TypeOK'
  <1> SUFFICES ASSUME TypeOK, Gate PROVE TypeOK'
    OBVIOUS
  <1>1. PICK n \in 1..MaxBatch :
          /\ used + n <= NCalls
          /\ used' = used + n
          /\ batch' = (used + 1)..(used + n)
          /\ \E urls \in SUBSET ((used + 1)..(used + n)) :
             \E new \in Claiming((used + 1)..(used + n), inScope \union urls) :
               /\ GateOf((used + 1)..(used + n), inScope \union urls, new)
               /\ GateNotes((used + 1)..(used + n), inScope \union urls, new)
    BY GateOpens
  <1> DEFINE b == (used + 1)..(used + n)
  <1>2. n \in Nat /\ used \in Nat /\ NCalls \in Nat /\ used + n \in 0..NCalls
    BY <1>1, BoundsAssumption DEF TypeOK
  <1>3. b \in SUBSET Calls /\ b \subseteq 1..(used + n) /\ 1..used \subseteq 1..(used + n)
    BY <1>1, <1>2 DEF Calls
  <1> HIDE DEF b
  <1>4. PICK urls \in SUBSET b : \E new \in Claiming(b, inScope \union urls) :
             GateOf(b, inScope \union urls, new) /\ GateNotes(b, inScope \union urls, new)
    BY <1>1 DEF b
  <1> DEFINE scope == inScope \union urls
  <1>5. PICK new \in Claiming(b, scope) : GateOf(b, scope, new) /\ GateNotes(b, scope, new)
    BY <1>4
  <1>6. scope \subseteq 1..(used + n)
    BY <1>3 DEF TypeOK
  <1> HIDE DEF scope
  <1>7. new \subseteq b
    <2>1. level \in Levels
      BY DEF TypeOK
    <2>2. new \in Claiming(b, scope)
      OBVIOUS
    <2>3. b \in SUBSET Calls
      BY <1>3
    <2> QED
      BY <2>1, <2>2, <2>3, WalkClaims
  <1>9. /\ reserved' \subseteq Calls /\ inScope' \subseteq 1..(used + n)
        /\ asks' \subseteq b /\ turn' \in {"running", "asking"}
    BY <1>3, <1>5, <1>6, <1>7 DEF GateOf, TypeOK
  <1>10. pc' \in [Calls -> {"new", "gated", "over"} \union InFlight]
    <2>1. \A c \in Calls : pc[c] \in {"new", "gated", "over"} \union InFlight
      BY DEF TypeOK
    <2> QED
      BY <1>5, <2>1 DEF GateOf, GateNotes, InFlight
  <1>11. leave' \in [Calls -> {"none", "grant", "human", "policy"}]
    <2>1. \A c \in Calls : leave[c] \in {"none", "grant", "human", "policy"}
      BY DEF TypeOK
    <2> QED
      BY <1>5, <2>1 DEF GateNotes, LetThrough
  <1>12. asks' \subseteq batch' /\ batch' \subseteq 1..used' /\ used' \in 0..NCalls
    BY <1>1, <1>2, <1>3, <1>9 DEF b
  <1>8. UNCHANGED <<remaining, charged, level, decision, read, counters>>
    BY DEF Gate
  <1> QED
    BY <1>1, <1>8, <1>9, <1>10, <1>11, <1>12 DEF TypeOK, counters

\* The calls of the message that is being resumed, and no other, get an outcome.
LEMMA BatchIsWalked ==
  ASSUME TypeOK, Resume
  PROVE  \A c \in Calls : c \notin batch => leave'[c] = leave[c]
  <1>1. batch \in SUBSET Calls /\ level \in Levels
    BY BoundsAssumption DEF TypeOK, Calls
  <1>2. PICK new \in Claiming(batch, inScope) : Proceed(new) \/ Mismatch(new)
    BY DEF Resume
  <1>3. Passing(batch, inScope, new) \subseteq batch
    BY <1>1, <1>2, WalkFits
  <1>4. CASE Proceed(new)
    BY <1>3, <1>4 DEF Proceed
  <1>5. CASE Mismatch(new)
    BY <1>5 DEF Mismatch
  <1> QED
    BY <1>2, <1>4, <1>5

\* So does a resume, whether it proceeds or fails.
LEMMA TypeResume == TypeOK /\ Resume => TypeOK'
  <1> SUFFICES ASSUME TypeOK, Resume PROVE TypeOK'
    OBVIOUS
  <1>1. batch \in SUBSET Calls /\ inScope \subseteq 1..used /\ level \in Levels
    BY BoundsAssumption DEF TypeOK, Calls
  <1>2. PICK new \in Claiming(batch, inScope) : Proceed(new) \/ Mismatch(new)
    BY DEF Resume
  <1>3. new \subseteq batch /\ Passing(batch, inScope, new) \subseteq batch
    BY <1>1, <1>2, WalkFits
  <1>4. UNCHANGED <<remaining, charged, level, used, batch, asks, decision, read, changes, raises>>
    BY DEF Resume
  <1>5. CASE Proceed(new)
    <2>1. /\ reserved' \subseteq Calls /\ turn' = "running" /\ stranded' = stranded
          /\ inScope' \subseteq inScope \union batch
      BY <1>1, <1>3, <1>5 DEF Proceed, TypeOK
    <2>2. pc' \in [Calls -> {"new", "gated", "over"} \union InFlight]
      BY <1>5 DEF Proceed, TypeOK, InFlight
    <2>3. leave' \in [Calls -> {"none", "grant", "human", "policy"}]
      BY <1>5 DEF Proceed, TypeOK, LetThrough
    <2> QED
      BY <1>1, <1>4, <2>1, <2>2, <2>3 DEF TypeOK, counters
  <1>6. CASE Mismatch(new)
    BY <1>1, <1>3, <1>4, <1>6 DEF Mismatch, TypeOK, counters
  <1> QED
    BY <1>2, <1>5, <1>6

\* So does every step of a call.
LEMMA TypeTool ==
  ASSUME TypeOK, NEW c \in Calls, ToolStep(c)
  PROVE  TypeOK'
  <1>1. CASE AnswerLocally(c)
    BY <1>1 DEF TypeOK, AnswerLocally, WithoutClaim, counters
  <1>2. CASE Send(c)
    BY <1>2 DEF TypeOK, Send, InFlight, grant, counters
  <1>3. CASE Receive(c)
    <2>1. remaining' \in 0..Budget /\ reserved' \subseteq Calls /\ charged' \subseteq Calls
      BY <1>3, BoundsAssumption DEF TypeOK, Receive, Covers, WithoutClaim, grant
    <2> QED
      BY <1>3, <2>1 DEF TypeOK, Receive, InFlight, counters
  <1>4. CASE ReceiveError(c)
    BY <1>4 DEF TypeOK, ReceiveError, InFlight, grant, counters
  <1>5. CASE Finish(c)
    BY <1>5 DEF TypeOK, Finish, WithoutClaim, counters
  <1>6. CASE Raise(c)
    BY <1>6, BoundsAssumption DEF TypeOK, Raise, WithoutClaim
  <1>7. CASE Unwind(c)
    BY <1>7 DEF TypeOK, Unwind, WithoutClaim, counters
  <1>8. CASE NeverStarts(c)
    BY <1>8 DEF TypeOK, NeverStarts, grant
  <1> QED
    BY <1>1, <1>2, <1>3, <1>4, <1>5, <1>6, <1>7, <1>8 DEF ToolStep

\* TypeOK is inductive by itself.
LEMMA TypeStep == TypeOK /\ [Next]_vars => TypeOK'
  <1> SUFFICES ASSUME TypeOK, [Next]_vars PROVE TypeOK'
    OBVIOUS
  <1>1. CASE StartTurn \/ EndTurn \/ Collect
    BY <1>1 DEF TypeOK, StartTurn, EndTurn, Collect, grant, counters
  <1>2. CASE Gate
    BY <1>2, TypeGate
  <1>3. CASE Resume
    BY <1>3, TypeResume
  <1>4. CASE SetLevel
    BY <1>4, BoundsAssumption DEF TypeOK, SetLevel, grant
  <1>5. ASSUME NEW c \in Calls, Pose(c) \/ Answer(c) PROVE TypeOK'
    BY <1>5 DEF TypeOK, Pose, Answer, Answers, grant, counters
  <1>6. ASSUME NEW c \in Calls, ToolStep(c) PROVE TypeOK'
    BY <1>6, TypeTool
  <1>7. CASE CutAtGate
    <2>1. stranded' \subseteq Calls
      BY <1>7, BoundsAssumption DEF TypeOK, Calls, CutAtGate
    <2>2. pc' \in [Calls -> {"new", "gated", "over"} \union InFlight]
      BY <1>7 DEF TypeOK, CutAtGate
    <2> QED
      BY <1>7, <2>1, <2>2 DEF TypeOK, CutAtGate, grant
  <1>8. CASE CutTools
    BY <1>8, BoundsAssumption DEF TypeOK, CutTools, grant
  <1>9. CASE UNCHANGED vars
    BY <1>9 DEF TypeOK, vars, grant, counters
  <1> QED
    BY <1>1, <1>2, <1>3, <1>4, <1>5, <1>6, <1>7, <1>8, <1>9 DEF Next

(***************************************************************************)
(* Every call goes its way once.                                           *)
(***************************************************************************)
LEMMA OrderStep == TypeOK /\ InOrder /\ [Next]_vars => InOrder'
  <1> SUFFICES ASSUME TypeOK, InOrder, [Next]_vars PROVE InOrder'
    OBVIOUS
  <1>1. CASE StartTurn \/ EndTurn \/ Collect \/ SetLevel \/ UNCHANGED vars
    BY <1>1 DEF InOrder, StartTurn, EndTurn, Collect, SetLevel, grant, counters, vars
  <1>2. ASSUME NEW c \in Calls, Pose(c) \/ Answer(c) PROVE InOrder'
    BY <1>2 DEF InOrder, Pose, Answer, grant, counters
  <1>3. ASSUME NEW c \in Calls, ToolStep(c) PROVE InOrder'
    <2>1. /\ pc[c] \in InFlight
          /\ pc'[c] \in {"sent", "closing", "over"}
          /\ pc'[c] = "sent" => pc[c] = "ready"
          /\ \A d \in Calls : d # c => pc'[d] = pc[d]
          /\ read' = read \/ (read' = read \union {c} /\ pc'[c] = "closing")
          /\ leave' = leave /\ used' = used /\ batch' = batch
          /\ turn' \in {turn, "idle"}
          /\ stranded' \subseteq stranded \union {c}
      BY <1>3 DEF TypeOK, ToolStep, AnswerLocally, Send, Receive, ReceiveError, Finish,
                  Raise, Unwind, NeverStarts, InFlight, counters
    <2>2. pc[c] \notin {"new", "gated"}
      BY <2>1 DEF InFlight
    <2>3. turn' = "asking" => turn = "asking" /\ c \notin batch
      BY <2>1, <2>2 DEF InOrder
    <2>4. \A d \in Calls : pc'[d] \in {"new", "gated", "ready", "sent"} =>
                            d \notin read' /\ (d = c => pc[c] = "ready")
      BY <2>1, <2>2 DEF InOrder, InFlight
    <2>5. \A d \in Calls : d # c => pc'[d] = pc[d] /\ leave'[d] = leave[d]
      BY <2>1
    <2>6. pc'[c] \notin {"new", "gated"} /\ ~(c > used)
      BY <2>1, <2>2 DEF InOrder
    <2>7. /\ \A d \in Calls : d > used' => pc'[d] = "new" /\ d \notin stranded'
          /\ \A d \in Calls : pc'[d] \in {"new", "gated"} => leave'[d] = "none"
      BY <2>1, <2>5, <2>6 DEF InOrder
    <2>8. turn' = "asking" => \A d \in batch' : pc'[d] = "gated"
      <3> SUFFICES ASSUME turn' = "asking", NEW d \in batch PROVE pc'[d] = "gated"
        BY <2>1
      <3>1. d \in Calls
        BY BoundsAssumption DEF TypeOK, Calls
      <3> QED
        BY <2>3, <2>5, <3>1 DEF InOrder
    <2> QED
      BY <2>4, <2>7, <2>8 DEF InOrder
  <1>4. CASE Gate
    <2>1. PICK n \in 1..MaxBatch :
            /\ used' = used + n
            /\ batch' = (used + 1)..(used + n)
            /\ turn' \in {"running", "asking"}
            /\ \A c \in Calls :
                 IF c \notin batch' THEN pc'[c] = pc[c] /\ leave'[c] = leave[c]
                 ELSE \/ pc'[c] = "ready" /\ turn' = "running"
                      \/ pc'[c] = "gated" /\ leave'[c] = leave[c]
      BY <1>4 DEF Gate
    <2>2. read' = read /\ stranded' = stranded
      BY <1>4 DEF Gate, counters
    <2>3. \A c \in Calls : c \in batch' => c > used
      BY <2>1 DEF TypeOK, Calls
    <2>4. \A c \in Calls : c > used' => c > used /\ c \notin batch'
      BY <2>1 DEF TypeOK, Calls
    <2>5. batch' \subseteq Calls
      BY <1>4, TypeGate, BoundsAssumption DEF TypeOK, Calls
    <2>6. turn' = "asking" => \A c \in batch' : pc'[c] = "gated"
      BY <2>1, <2>5
    <2>7. \A c \in Calls : c \in batch' => c \notin read /\ leave[c] = "none"
      BY <2>3 DEF InOrder
    <2> QED
      BY <2>1, <2>2, <2>4, <2>6, <2>7 DEF InOrder
  <1>5. CASE Resume
    <2>1. /\ used' = used /\ read' = read /\ turn = "asking"
          /\ stranded' \subseteq stranded \union batch
          /\ turn' \in {"running", "idle"}
          /\ \A c \in Calls : c \in batch => pc'[c] \in {"ready", "over"}
          /\ \A c \in Calls : c \notin batch => pc'[c] = pc[c]
      BY <1>5 DEF Resume, Proceed, Mismatch
    <2>2. \A c \in Calls : c \notin batch => leave'[c] = leave[c]
      BY <1>5, BatchIsWalked
    <2>3. \A c \in Calls : c \in batch => pc[c] = "gated" /\ c \notin read /\ ~(c > used)
      BY <2>1 DEF InOrder
    <2> QED
      BY <2>1, <2>2, <2>3 DEF InOrder
  <1>6. CASE CutAtGate
    <2>1. \A c \in Calls : c \in batch => ~(c > used)
      BY <1>6 DEF CutAtGate, InOrder
    <2> QED
      BY <1>6, <2>1 DEF CutAtGate, InOrder
  <1>7. CASE CutTools
    BY <1>7 DEF CutTools, InOrder
  <1> QED
    BY <1>1, <1>2, <1>3, <1>4, <1>5, <1>6, <1>7 DEF Next

(***************************************************************************)
(* A walk of the gate, on its first pass or on the second.                 *)
(***************************************************************************)
Walked(b, new) ==
  /\ new # {} => Cardinality(new) <= Room
  /\ reserved' = reserved \union new
  /\ UNCHANGED <<remaining, charged, read>>
  /\ \A c \in b : c \notin read
  /\ \A c \in b : leave'[c] = "grant" => c \in inScope' /\ c \in reserved'
  /\ \A c \in Calls \ b : /\ leave'[c] = leave[c] /\ pc'[c] = pc[c]
                          /\ c \in inScope => c \in inScope'

\* The gate's first pass is a walk: it claims for calls nobody has seen.
LEMMA GateWalks ==
  ASSUME TypeOK, InOrder, Gate
  PROVE  \E b \in SUBSET Calls : \E new \in SUBSET b : Walked(b, new)
  <1>1. PICK n \in 1..MaxBatch :
          /\ used + n <= NCalls
          /\ \E urls \in SUBSET ((used + 1)..(used + n)) :
             \E new \in Claiming((used + 1)..(used + n), inScope \union urls) :
               /\ GateOf((used + 1)..(used + n), inScope \union urls, new)
               /\ GateNotes((used + 1)..(used + n), inScope \union urls, new)
    BY GateOpens
  <1> DEFINE b == (used + 1)..(used + n)
  <1>2. b \in SUBSET Calls /\ \A c \in b : c > used
    BY <1>1, BoundsAssumption DEF TypeOK, Calls
  <1>3. \A c \in b : c \notin read /\ leave[c] = "none"
    BY <1>2 DEF InOrder
  <1> HIDE DEF b
  <1>4. PICK urls \in SUBSET b : \E new \in Claiming(b, inScope \union urls) :
               GateOf(b, inScope \union urls, new) /\ GateNotes(b, inScope \union urls, new)
    BY <1>1 DEF b
  <1> DEFINE scope == inScope \union urls
  <1>e. PICK new \in Claiming(b, scope) : GateOf(b, scope, new) /\ GateNotes(b, scope, new)
    BY <1>4
  <1>5. /\ inScope' = scope
        /\ reserved' = reserved \union new
        /\ \A c \in Calls :
             IF c \notin b THEN pc'[c] = pc[c] /\ leave'[c] = leave[c]
             ELSE \/ leave'[c] = leave[c]
                  \/ leave'[c] = LetThrough /\ Passing(b, scope, new) = b
    BY <1>e DEF GateOf, GateNotes
  <1>6. inScope \subseteq scope /\ level \in Levels
    BY DEF TypeOK
  <1> HIDE DEF scope
  <1>7. /\ new \subseteq b
        /\ new # {} => Cardinality(new) <= Room
        /\ level = "ask" => Passing(b, scope, new) \subseteq scope \intersect (reserved \union new)
        /\ level = "deny" => Passing(b, scope, new) = {}
    <2>1. level \in Levels /\ b \in SUBSET Calls /\ new \in Claiming(b, scope)
      BY <1>2, <1>6
    <2> QED
      BY <2>1, WalkFits
  <1>8. ASSUME NEW c \in b, leave'[c] = "grant" PROVE c \in inScope' /\ c \in reserved'
    <2>1. leave'[c] = LetThrough /\ Passing(b, scope, new) = b
      BY <1>2, <1>3, <1>5, <1>8
    <2>2. level \in {"ask", "deny"}
      BY <1>6, <1>8, <2>1 DEF LetThrough, Levels
    <2> QED
      BY <1>5, <1>7, <1>8, <2>1, <2>2
  <1>9. UNCHANGED <<remaining, charged, read>>
    BY DEF Gate
  <1> QED
    BY <1>2, <1>3, <1>5, <1>6, <1>7, <1>8, <1>9 DEF Walked

\* The second pass is a walk too, over calls that wait.
LEMMA ResumeWalks ==
  ASSUME TypeOK, InOrder, Resume
  PROVE  \E b \in SUBSET Calls : \E new \in SUBSET b : Walked(b, new)
  <1>1. batch \in SUBSET Calls /\ level \in Levels
    BY BoundsAssumption DEF TypeOK, Calls
  <1>2. PICK new \in Claiming(batch, inScope) : Proceed(new) \/ Mismatch(new)
    BY DEF Resume
  <1> DEFINE passing == Passing(batch, inScope, new)
  <1>3. /\ new \subseteq batch
        /\ new # {} => Cardinality(new) <= Room
        /\ passing \subseteq batch
        /\ level = "ask" => passing \subseteq inScope \intersect (reserved \union new)
        /\ level = "deny" => passing = {}
    BY <1>1, WalkFits
  <1>4. turn = "asking" /\ UNCHANGED <<remaining, charged, read>>
    BY DEF Resume
  <1>5. \A c \in batch : c \notin read /\ leave[c] = "none"
    BY <1>1, <1>4 DEF InOrder
  <1>6. reserved' = reserved \union new /\ \A c \in Calls \ batch : pc'[c] = pc[c]
    BY <1>2 DEF Proceed, Mismatch
  <1>7. \A c \in Calls \ batch : leave'[c] = leave[c]
    BY BatchIsWalked
  <1>8. /\ \A c \in Calls \ batch : c \in inScope => c \in inScope'
        /\ \A c \in batch : leave'[c] = "grant" => c \in inScope' /\ c \in passing /\ level # "auto"
    <2>1. CASE Proceed(new)
      <3>1. \A c \in inScope : c \in inScope' \/ c \in batch \ passing
        BY <2>1 DEF Proceed
      <3>2. \A c \in batch :
              \/ leave'[c] = leave[c]
              \/ leave'[c] = "human"
              \/ (leave'[c] = LetThrough /\ c \in passing)
        BY <1>1, <2>1 DEF Proceed
      <3>3. ASSUME NEW c \in batch, leave'[c] = "grant"
            PROVE  c \in inScope' /\ c \in passing /\ level # "auto"
        <4>1. c \in passing /\ level # "auto"
          BY <1>5, <3>2, <3>3 DEF LetThrough
        <4>2. level \in {"ask", "deny"}
          BY <1>1, <4>1 DEF Levels
        <4>3. c \in inScope
          BY <1>3, <4>1, <4>2
        <4> QED
          BY <3>1, <4>1, <4>3
      <3> QED
        BY <3>1, <3>3
    <2>2. CASE Mismatch(new)
      BY <1>5, <2>2 DEF Mismatch
    <2> QED
      BY <1>2, <2>1, <2>2
  <1>9. \A c \in batch : leave'[c] = "grant" => c \in inScope' /\ c \in reserved'
    <2>1. level # "auto" => level \in {"ask", "deny"}
      BY <1>1 DEF Levels
    <2> QED
      BY <1>3, <1>6, <1>8, <2>1
  <1>10. Walked(batch, new)
    BY <1>3, <1>4, <1>5, <1>6, <1>7, <1>8, <1>9 DEF Walked
  <1> QED
    BY <1>1, <1>3, <1>10

\* A walk keeps what the budget rests on.
LEMMA WalkStep ==
  ASSUME GrantInv, NEW b \in SUBSET Calls, NEW new \in SUBSET b, Walked(b, new)
  PROVE  (ChargesAreJust /\ PaidFor /\ UnattendedWithinBudget)'
  <1>1. /\ TypeOK /\ ChargesAreJust /\ PaidFor /\ UnattendedWithinBudget
        /\ read \subseteq Calls /\ charged \subseteq read
    BY DEF GrantInv, TypeOK, ChargesAreJust
  <1>2. /\ reserved' = reserved \union new
        /\ remaining' = remaining /\ charged' = charged /\ read' = read
        /\ \A c \in read : c \in Calls \ b
        /\ \A c \in read : leave'[c] = leave[c] /\ (c \in inScope => c \in inScope')
    BY <1>1 DEF Walked
  <1>3. Unattended' = Unattended
    BY <1>2 DEF Unattended
  <1>4. ChargesAreJust'
    BY <1>1, <1>2 DEF ChargesAreJust
  <1>5. PaidFor'
    <2>1. \A c \in Calls : leave'[c] = "grant" => c \in inScope'
      BY <1>1 DEF Walked, PaidFor
    <2>2. \A c \in Calls : leave'[c] = "grant" /\ pc'[c] \in {"ready", "sent"} => c \in reserved'
      BY <1>1, <1>2 DEF Walked, PaidFor
    <2>3. charged' \intersect reserved' = {}
      BY <1>1, <1>2 DEF PaidFor
    <2> QED
      BY <1>1, <1>2, <1>3, <2>1, <2>2, <2>3 DEF PaidFor
  <1>6. UnattendedWithinBudget'
    <2>1. Cardinality(Unattended \union (reserved \union new)) <= Budget
      BY <1>1, RoomIsEnough DEF Walked
    <2> QED
      BY <1>2, <1>3, <2>1 DEF UnattendedWithinBudget
  <1> QED
    BY <1>4, <1>5, <1>6

(***************************************************************************)
(* The tool.                                                               *)
(***************************************************************************)
\* Reads and claims may only shrink, but for the read of a call that held a claim.
LEMMA NoMoreThanBefore ==
  ASSUME TypeOK, UnattendedWithinBudget,
         (Unattended \union reserved)' \subseteq Unattended \union reserved
  PROVE  UnattendedWithinBudget'
  <1>1. Unattended \union reserved \in SUBSET Calls
    BY DEF TypeOK, Unattended
  <1>2. Cardinality((Unattended \union reserved)') <= Cardinality(Unattended \union reserved)
    BY <1>1, SmallerSet
  <1>3. /\ Cardinality((Unattended \union reserved)') \in Nat
        /\ Cardinality(Unattended \union reserved) \in Nat /\ Budget \in Nat
    BY <1>1, CallsAreFinite, BoundsAssumption
  <1>4. Cardinality((Unattended \union reserved)') <= Budget
    BY <1>2, <1>3 DEF UnattendedWithinBudget
  <1> QED
    BY <1>4 DEF UnattendedWithinBudget

\* So does a response, charged or not: this is where covers is read late.
LEMMA ReceiveStep ==
  ASSUME GrantInv, NEW c \in Calls, Receive(c)
  PROVE  (ChargesAreJust /\ PaidFor /\ UnattendedWithinBudget)'
  <1>1. /\ TypeOK /\ InOrder /\ ChargesAreJust /\ PaidFor /\ UnattendedWithinBudget
    BY DEF GrantInv
  <1>2. /\ pc[c] = "sent" /\ c \notin read
        /\ read' = read \union {c} /\ leave' = leave /\ inScope' = inScope
        /\ pc'[c] = "closing" /\ \A d \in Calls : d # c => pc'[d] = pc[d]
    BY <1>1 DEF Receive, InOrder, TypeOK
  <1>3. Unattended' = IF leave[c] = "grant" THEN Unattended \union {c} ELSE Unattended
    BY <1>2 DEF Unattended
  <1>4. leave[c] = "grant" => c \in reserved /\ c \in inScope
    BY <1>1, <1>2 DEF PaidFor
  <1>5. CASE Covers(c)
    <2>1. /\ remaining' = remaining - 1 /\ reserved' = reserved \ {c}
          /\ charged' = charged \union {c} /\ remaining > 0 /\ c \in inScope
      BY <1>5 DEF Receive, Covers, WithoutClaim
    <2>2. ChargesAreJust'
      <3>1. c \notin charged /\ charged \in SUBSET Calls
        BY <1>1, <1>2 DEF ChargesAreJust, TypeOK
      <3>2. Cardinality(charged \union {c}) = Cardinality(charged) + 1
        BY <3>1, CallsAreFinite, FS_AddElement
      <3>3. Cardinality(charged) = Budget - remaining /\ Budget \in Int /\ remaining \in Int
        BY <1>1, BoundsAssumption DEF ChargesAreJust, TypeOK
      <3>4. Cardinality(charged') = Budget - remaining'
        BY <2>1, <3>2, <3>3
      <3> QED
        BY <1>1, <1>2, <2>1, <3>4 DEF ChargesAreJust
    <2>3. PaidFor'
      BY <1>1, <1>2, <1>3, <2>1 DEF PaidFor
    <2>4. UnattendedWithinBudget'
      BY <1>1, <1>3, <1>4, <2>1, NoMoreThanBefore
    <2> QED
      BY <2>2, <2>3, <2>4
  <1>6. CASE ~Covers(c)
    <2>1. UNCHANGED <<remaining, reserved, charged>>
      BY <1>6 DEF Receive, grant
    <2>2. ChargesAreJust'
      BY <1>1, <1>2, <2>1 DEF ChargesAreJust
    <2>3. remaining > 0 => leave[c] # "grant"
      BY <1>4, <1>6 DEF Covers
    <2>4. PaidFor'
      BY <1>1, <1>2, <1>3, <2>1, <2>3 DEF PaidFor
    <2>5. UnattendedWithinBudget'
      BY <1>1, <1>3, <1>4, <2>1, NoMoreThanBefore
    <2> QED
      BY <2>2, <2>4, <2>5
  <1> QED
    BY <1>5, <1>6

\* Any other step of a call leaves the budget alone, and drops a claim only
\* when the call is over.
LEMMA QuietToolStep ==
  ASSUME GrantInv, NEW c \in Calls, ToolStep(c), ~Receive(c)
  PROVE  (ChargesAreJust /\ PaidFor /\ UnattendedWithinBudget)'
  <1>1. /\ TypeOK /\ ChargesAreJust /\ PaidFor /\ UnattendedWithinBudget
    BY DEF GrantInv
  <1>2. /\ UNCHANGED <<remaining, charged, read, leave, inScope>>
        /\ \/ reserved' = reserved \ {c} /\ pc'[c] = "over"
           \/ reserved' = reserved /\ pc'[c] = "closing"
           \/ reserved' = reserved /\ pc[c] = "ready"
        /\ \A d \in Calls : d # c => pc'[d] = pc[d]
    BY <1>1 DEF ToolStep, AnswerLocally, Send, ReceiveError, Finish, Raise, Unwind,
                NeverStarts, WithoutClaim, TypeOK, grant
  <1>3. Unattended' = Unattended
    BY <1>2 DEF Unattended
  <1>4. ChargesAreJust'
    BY <1>1, <1>2 DEF ChargesAreJust
  <1>5. PaidFor'
    <2>1. \A d \in Calls : leave'[d] = "grant" /\ pc'[d] \in {"ready", "sent"} => d \in reserved'
      <3> SUFFICES ASSUME NEW d \in Calls, leave[d] = "grant", pc'[d] \in {"ready", "sent"}
                   PROVE  d \in reserved'
        BY <1>2
      <3>1. pc[d] \in {"ready", "sent"} /\ (d = c => reserved' = reserved)
        BY <1>2
      <3> QED
        BY <1>1, <1>2, <3>1 DEF PaidFor
    <2>2. charged' \intersect reserved' = {}
      BY <1>1, <1>2 DEF PaidFor
    <2> QED
      BY <1>1, <1>2, <1>3, <2>1, <2>2 DEF PaidFor
  <1>6. UnattendedWithinBudget'
    BY <1>1, <1>2, <1>3, NoMoreThanBefore
  <1> QED
    BY <1>4, <1>5, <1>6

(***************************************************************************)
(* What a walk lets pass.                                                  *)
(***************************************************************************)
LEMMA WalkPasses ==
  ASSUME level \in Levels, NEW b, NEW scope, NEW new \in Claiming(b, scope)
  PROVE  /\ level = "ask" => /\ new \subseteq (b \intersect scope) \ reserved
                             /\ Passing(b, scope, new) = (b \intersect scope) \intersect (reserved \union new)
                             /\ new # (b \intersect scope) \ reserved => Cardinality(new) >= Room
         /\ level # "ask" => new = {}
         /\ level = "auto" => Passing(b, scope, new) = b
         /\ level = "deny" => Passing(b, scope, new) = {}
  <1>1. CASE level = "ask"
    BY <1>1 DEF Claiming, Claims, Wanting, Held, Passing
  <1>2. CASE level # "ask"
    <2>1. new = {} /\ level \in {"auto", "deny"}
      BY <1>2 DEF Claiming, Levels
    <2>2. Passing(b, scope, new) = IF level = "auto" THEN b ELSE {}
      BY <2>1 DEF Passing
    <2> QED
      BY <1>2, <2>1, <2>2
  <1> QED
    BY <1>1, <1>2

\* The message of the gate's first pass is of calls nobody has seen.
LEMMA GateIs ==
  ASSUME TypeOK, Gate
  PROVE  /\ turn = "thinking" /\ used' \in Nat /\ used <= used'
         /\ UNCHANGED <<remaining, level, decision, stranded, changes, raises>>
         /\ \E b \in SUBSET Calls : \E scope :
              /\ \A c \in b : c > used
              /\ \E new \in Claiming(b, scope) : GateOf(b, scope, new)
  <1>1. PICK n \in 1..MaxBatch :
          /\ used + n <= NCalls
          /\ used' = used + n
          /\ batch' = (used + 1)..(used + n)
          /\ \E urls \in SUBSET ((used + 1)..(used + n)) :
             \E new \in Claiming((used + 1)..(used + n), inScope \union urls) :
               GateOf((used + 1)..(used + n), inScope \union urls, new)
    BY GateOpens
  <1>2. /\ (used + 1)..(used + n) \in SUBSET Calls /\ used' \in Nat /\ used <= used'
        /\ \A c \in (used + 1)..(used + n) : c > used
    BY <1>1, BoundsAssumption DEF TypeOK, Calls
  <1>3. turn = "thinking" /\ UNCHANGED <<remaining, level, decision, stranded, changes, raises>>
    BY DEF Gate, counters
  <1> QED
    BY <1>1, <1>2, <1>3

(***************************************************************************)
(* Claims are live.                                                        *)
(***************************************************************************)
\* A call that waits at the gate with a claim is at a granted host and did not
\* interrupt.
ClaimsInv ==
  /\ ClaimsAreLive
  /\ turn = "asking" => reserved \intersect batch \subseteq inScope \ asks

\* While the gate has not walked a call, nothing is claimed for it.
LEMMA NewCallsClaimNothing ==
  ASSUME TypeOK, InOrder, ClaimsInv, turn = "thinking", NEW c \in Calls, c > used
  PROVE  c \notin reserved /\ pc[c] = "new"
  BY DEF TypeOK, InOrder, ClaimsInv, ClaimsAreLive, Lives, InFlight, Calls

\* The claims of the first pass are held by calls at the gate.
LEMMA GateClaims ==
  ASSUME TypeOK, InOrder, ClaimsInv, Gate
  PROVE  ClaimsInv'
  <1>1. PICK b \in SUBSET Calls : \E scope :
              /\ \A c \in b : c > used
              /\ \E new \in Claiming(b, scope) : GateOf(b, scope, new)
    BY GateIs
  <1>2. PICK scope : /\ \A c \in b : c > used
                     /\ \E new \in Claiming(b, scope) : GateOf(b, scope, new)
    BY <1>1
  <1>3. PICK new \in Claiming(b, scope) : GateOf(b, scope, new)
    BY <1>2
  <1>4. turn = "thinking" /\ stranded' = stranded /\ level \in Levels
    BY GateIs DEF TypeOK
  <1>5. \A c \in b : c \notin reserved /\ pc[c] = "new"
    BY <1>2, <1>4, NewCallsClaimNothing
  <1>6. new \subseteq b \intersect scope /\ new \subseteq Passing(b, scope, new)
    BY <1>4, WalkPasses
  <1>7. ASSUME NEW c \in reserved'
        PROVE  Lives(c)' \/ c \in stranded'
    <2>1. CASE c \in new
      <3>1. c \in Calls /\ c \in b
        BY <1>6, <2>1
      <3> QED
        BY <1>3, <3>1 DEF GateOf, Lives, InFlight
    <2>2. CASE c \in reserved
      <3>1. c \in Calls /\ c \notin b /\ (pc[c] \in InFlight \/ c \in stranded)
        BY <1>4, <1>5, <2>2 DEF ClaimsInv, ClaimsAreLive, Lives, TypeOK
      <3> QED
        BY <1>3, <1>4, <3>1 DEF GateOf, Lives
    <2> QED
      BY <1>3, <2>1, <2>2 DEF GateOf
  <1>8. reserved' \intersect batch' \subseteq inScope' \ asks'
    BY <1>3, <1>5, <1>6 DEF GateOf
  <1> QED
    BY <1>7, <1>8 DEF ClaimsInv, ClaimsAreLive

\* After the second pass the claims are in flight, or stranded.
LEMMA ResumeClaims ==
  ASSUME TypeOK, ClaimsInv, Resume
  PROVE  ClaimsInv'
  <1>1. /\ batch \in SUBSET Calls /\ reserved \in SUBSET Calls /\ asks \subseteq batch
        /\ level \in Levels /\ turn = "asking" /\ batch' = batch
        /\ reserved \intersect batch \subseteq inScope \ asks
    BY BoundsAssumption DEF TypeOK, Calls, Resume, ClaimsInv
  <1>2. PICK new \in Claiming(batch, inScope) : Proceed(new) \/ Mismatch(new)
    BY DEF Resume
  <1> DEFINE passing == Passing(batch, inScope, new)
  <1>3. /\ level = "ask" => /\ new \subseteq batch \intersect inScope
                            /\ passing = (batch \intersect inScope) \intersect (reserved \union new)
        /\ level # "ask" => new = {}
        /\ level = "auto" => passing = batch
        /\ level = "deny" => passing = {}
    BY <1>1, WalkPasses
  <1>4. new \subseteq batch /\ new \subseteq passing
    BY <1>3
  <1> HIDE DEF passing
  <1>5. turn' # "asking" /\ reserved' = reserved \union new
    BY <1>2 DEF Proceed, Mismatch
  <1>6. ASSUME NEW c \in reserved', c \notin batch
        PROVE  Lives(c)' \/ c \in stranded'
    <2>1. c \in reserved /\ c \in Calls /\ (pc[c] \in InFlight \/ c \in stranded)
      BY <1>1, <1>4, <1>5, <1>6 DEF ClaimsInv, ClaimsAreLive, Lives
    <2>2. pc'[c] = pc[c] /\ (c \in stranded => c \in stranded')
      BY <1>2, <1>6, <2>1 DEF Proceed, Mismatch
    <2> QED
      BY <2>1, <2>2 DEF Lives
  <1>7. ASSUME NEW c \in reserved', c \in batch
        PROVE  Lives(c)' \/ c \in stranded'
    <2>1. CASE Mismatch(new)
      BY <1>7, <2>1 DEF Mismatch
    <2>2. CASE Proceed(new)
      <3>1. c \in passing
        <4>1. CASE level = "auto"
          BY <1>3, <1>7, <4>1
        <4>2. CASE level = "ask"
          BY <1>1, <1>3, <1>5, <1>7, <4>2
        <4>3. CASE level = "deny"
          <5>1. new = {} /\ passing = {}
            BY <1>3, <4>3
          <5>2. Cardinality(batch) = Cardinality(asks)
            BY <1>7, <2>2, <5>1 DEF Proceed, passing
          <5>3. asks = batch
            BY <1>1, <5>2, CallsAreFinite, FS_Subset
          <5> QED
            BY <1>1, <1>5, <1>7, <5>1, <5>3
        <4> QED
          BY <1>1, <4>1, <4>2, <4>3 DEF Levels
      <3>2. pc'[c] = "ready"
        BY <1>1, <1>7, <2>2, <3>1 DEF Proceed, passing
      <3> QED
        BY <3>2 DEF Lives, InFlight
    <2> QED
      BY <1>2, <2>1, <2>2
  <1> QED
    BY <1>5, <1>6, <1>7 DEF ClaimsInv, ClaimsAreLive

\* A call that is over has given its claim back, or never began.
LEMMA ToolClaims ==
  ASSUME TypeOK, ClaimsInv, NEW c \in Calls, ToolStep(c)
  PROVE  ClaimsInv'
  <1>1. /\ pc[c] \in InFlight /\ reserved \subseteq Calls
        /\ \/ pc'[c] \in InFlight /\ reserved' \subseteq reserved
           \/ reserved' = reserved \ {c}
           \/ reserved' = reserved /\ c \in stranded'
        /\ \A d \in Calls : d # c => pc'[d] = pc[d]
        /\ UNCHANGED <<batch, asks, inScope>> /\ stranded \subseteq stranded'
        /\ turn' = turn \/ (turn = "running" /\ turn' = "idle")
    BY DEF TypeOK, ToolStep, AnswerLocally, Send, Receive, ReceiveError, Finish, Raise, Unwind,
           NeverStarts, InFlight, WithoutClaim, grant, counters
  <1>2. ASSUME NEW d \in reserved'
        PROVE  Lives(d)' \/ d \in stranded'
    BY <1>1, <1>2 DEF ClaimsInv, ClaimsAreLive, Lives
  <1> QED
    BY <1>1, <1>2 DEF ClaimsInv, ClaimsAreLive

\* ClaimsInv is inductive, given the order of the calls.
LEMMA ClaimsStep == TypeOK /\ InOrder /\ ClaimsInv /\ [Next]_vars => ClaimsInv'
  <1> SUFFICES ASSUME TypeOK, InOrder, ClaimsInv, [Next]_vars PROVE ClaimsInv'
    OBVIOUS
  <1> USE DEF ClaimsInv, ClaimsAreLive, Lives
  <1>1. CASE StartTurn \/ EndTurn \/ SetLevel \/ UNCHANGED vars
    BY <1>1 DEF StartTurn, EndTurn, SetLevel, vars, grant, counters
  <1>2. CASE Collect
    BY <1>2 DEF Collect, grant, counters
  <1>3. ASSUME NEW c \in Calls, Pose(c) \/ Answer(c) PROVE ClaimsInv'
    BY <1>3 DEF Pose, Answer, grant, counters
  <1>4. CASE CutAtGate
    BY <1>4 DEF CutAtGate, grant, InOrder, InFlight, TypeOK
  <1>5. CASE CutTools
    BY <1>5 DEF CutTools, grant
  <1> HIDE DEF ClaimsInv, ClaimsAreLive, Lives
  <1> QED
    BY <1>1, <1>2, <1>3, <1>4, <1>5, GateClaims, ResumeClaims, ToolClaims DEF Next

(***************************************************************************)
(* While nothing disturbs the turn, the second walk of a message agrees    *)
(* with the first.                                                         *)
(***************************************************************************)
\* Ranks tell the members of a set apart, so that decisions paired with the
\* calls they were made for are found again.
LEMMA PairedIsOwn ==
  ASSUME asks \in SUBSET Calls, NEW c \in asks
  PROVE  Paired(asks, c) = decision[c]
  <1>1. ASSUME NEW d \in asks, NEW e \in asks, d < e
        PROVE  Rank(asks, d) # Rank(asks, e)
    <2> DEFINE D == {x \in asks : x <= d}
               E == {x \in asks : x <= e}
    <2>1. asks \subseteq Int
      BY DEF Calls
    <2>2. D \subseteq E /\ E \in SUBSET Calls
      <3>1. E \in SUBSET Calls /\ d \in Int /\ e \in Int
        BY <2>1
      <3>2. ASSUME NEW x \in D PROVE x \in E
        <4>1. x \in asks /\ x \in Int /\ x <= d
          BY <2>1
        <4>2. x <= e
          BY <1>1, <3>1, <4>1
        <4> QED
          BY <4>1, <4>2
      <3> QED
        BY <3>1, <3>2
    <2>3. e \in E /\ e \notin D
      BY <1>1, <2>1
    <2>4. IsFiniteSet(E)
      BY <2>2, CallsAreFinite
    <2> HIDE DEF D, E
    <2>5. Cardinality(D) # Cardinality(E)
      BY <2>2, <2>3, <2>4, FS_Subset
    <2> QED
      BY <2>5 DEF Rank, D, E
  <1>2. \A d \in asks : Rank(asks, d) = Rank(asks, c) => d = c
    <2> SUFFICES ASSUME NEW d \in asks, d # c PROVE Rank(asks, d) # Rank(asks, c)
      OBVIOUS
    <2>1. d < c \/ c < d
      BY DEF Calls
    <2> QED
      BY <1>1, <2>1
  <1> QED
    BY <1>2 DEF Paired

\* Nothing runs while the gate asks; a call has a decision if it interrupted;
\* those that did not interrupt are those with a claim, and whoever wanted one
\* and has none finds no room.
SteadyInv ==
  Steady =>
    /\ \A c \in Calls : pc[c] \in InFlight => turn = "running" /\ c \in batch
    /\ \A c \in Calls : decision[c] # "none" => c <= used /\ (c \in batch => c \in asks)
    /\ \A c \in Calls : decision[c] \in {"posed", "reject"} => pc[c] \notin InFlight
    /\ turn = "asking" =>
         /\ level # "auto"
         /\ asks = batch \ reserved
         /\ level = "deny" => reserved \intersect batch = {}
         /\ level = "ask" => batch \intersect inScope \subseteq reserved \/ Room <= 0

\* The second walk claims nothing and passes what the first passed.
LEMMA SecondWalkAgrees ==
  ASSUME TypeOK, ClaimsInv, SteadyInv, Steady, turn = "asking",
         NEW new \in Claiming(batch, inScope)
  PROVE  new = {} /\ Passing(batch, inScope, new) = batch \ asks
  <1>1. /\ asks = batch \ reserved /\ level \in {"ask", "deny"}
        /\ level = "deny" => reserved \intersect batch = {}
        /\ level = "ask" => batch \intersect inScope \subseteq reserved \/ Room <= 0
        /\ reserved \intersect batch \subseteq inScope
        /\ batch \in SUBSET Calls /\ reserved \in SUBSET Calls /\ level \in Levels
        /\ remaining \in Nat
    BY BoundsAssumption DEF SteadyInv, ClaimsInv, TypeOK, Levels, Calls
  <1>2. CASE level = "deny"
    BY <1>1, <1>2, WalkPasses
  <1>3. CASE level = "ask"
    <2>1. /\ new \subseteq (batch \intersect inScope) \ reserved
          /\ Passing(batch, inScope, new) = (batch \intersect inScope) \intersect (reserved \union new)
      BY <1>1, <1>3, WalkPasses
    <2>2. new # {} => Cardinality(new) <= Room
      BY <1>1, WalkFits
    <2>3. new = {}
      <3>1. CASE batch \intersect inScope \subseteq reserved
        BY <2>1, <3>1
      <3>2. CASE Room <= 0
        <4>1. new \in SUBSET Calls /\ Cardinality(reserved) \in Nat /\ Room \in Int
          BY <1>1, <2>1, CallsAreFinite DEF Room
        <4>2. Cardinality(new) \in Nat /\ IsFiniteSet(new)
          BY <4>1, CallsAreFinite
        <4>3. ASSUME new # {} PROVE FALSE
          <5>1. Cardinality(new) = 0
            BY <2>2, <3>2, <4>1, <4>2, <4>3
          <5> QED
            BY <4>2, <4>3, <5>1, FS_EmptySet
        <4> QED
          BY <4>3
      <3> QED
        BY <1>1, <1>3, <3>1, <3>2
    <2> QED
      BY <1>1, <2>1, <2>3
  <1> QED
    BY <1>1, <1>2, <1>3

\* Claims that stop short of what was wanted use up the room.
LEMMA WalkFillsRoom ==
  ASSUME TypeOK, NEW new \in SUBSET Calls, new \intersect reserved = {},
         Cardinality(new) >= Room
  PROVE  remaining - Cardinality(reserved \union new) <= 0
  <1>1. /\ reserved \in SUBSET Calls /\ reserved \union new \in SUBSET Calls
        /\ remaining \in Nat
    BY DEF TypeOK
  <1>2. /\ IsFiniteSet(reserved) /\ IsFiniteSet(new) /\ Cardinality(reserved) \in Nat
        /\ Cardinality(new) \in Nat
    BY <1>1, CallsAreFinite
  <1>3. Cardinality(reserved \intersect new) = 0
    <2>1. reserved \intersect new = {}
      OBVIOUS
    <2> QED
      BY <2>1, FS_EmptySet
  <1>4. Cardinality(reserved \union new) = Cardinality(reserved) + Cardinality(new)
    <2>1. Cardinality(reserved \union new)
            = Cardinality(reserved) + Cardinality(new) - Cardinality(reserved \intersect new)
      BY <1>2, FS_Union
    <2> QED
      BY <1>2, <1>3, <2>1
  <1> QED
    BY <1>1, <1>2, <1>4 DEF Room

\* The first pass establishes what the second relies on.
LEMMA GateSteady ==
  ASSUME TypeOK, InOrder, ClaimsInv, SteadyInv, Gate
  PROVE  SteadyInv'
  <1> SUFFICES ASSUME Steady' PROVE SteadyInv'
    BY DEF SteadyInv
  <1>0. /\ turn = "thinking" /\ used' \in Nat /\ used <= used' /\ used \in Nat
        /\ UNCHANGED <<remaining, level, decision, stranded>> /\ Steady /\ level \in Levels
    BY GateIs DEF Steady, TypeOK
  <1>1. PICK b \in SUBSET Calls : \E scope :
              /\ \A c \in b : c > used
              /\ \E new \in Claiming(b, scope) : GateOf(b, scope, new)
    BY GateIs
  <1>2. PICK scope : /\ \A c \in b : c > used
                     /\ \E new \in Claiming(b, scope) : GateOf(b, scope, new)
    BY <1>1
  <1>3. PICK new \in Claiming(b, scope) : GateOf(b, scope, new)
    BY <1>2
  <1>4. \A c \in b : c \in Calls /\ c \notin reserved /\ c > used
    BY <1>0, <1>2, NewCallsClaimNothing
  <1>5. \A c \in Calls : pc[c] \notin InFlight
    BY <1>0 DEF SteadyInv
  <1>6. \A c \in b : decision[c] = "none"
    BY <1>0, <1>4 DEF SteadyInv, Calls
  <1>7. \A c \in Calls : pc'[c] \in InFlight => turn' = "running" /\ c \in batch'
    BY <1>3, <1>5 DEF GateOf, InFlight
  <1>8. \A c \in Calls : decision'[c] # "none" => c <= used' /\ (c \in batch' => c \in asks')
    <2> SUFFICES ASSUME NEW c \in Calls, decision[c] # "none"
                 PROVE  c <= used' /\ c \notin batch'
      BY <1>0
    <2>1. c <= used /\ c \notin b
      BY <1>0, <1>6 DEF SteadyInv
    <2> QED
      BY <1>0, <1>3, <2>1 DEF GateOf, Calls
  <1>9. \A c \in Calls : decision'[c] \in {"posed", "reject"} => pc'[c] \notin InFlight
    BY <1>0, <1>3, <1>6, <1>7 DEF GateOf
  <1>10. ASSUME turn' = "asking"
         PROVE  /\ level # "auto"
                /\ asks' = batch' \ reserved'
                /\ level = "deny" => reserved' \intersect batch' = {}
                /\ level = "ask" => batch' \intersect inScope' \subseteq reserved' \/ Room' <= 0
    <2>1. Passing(b, scope, new) # b
      BY <1>3, <1>10 DEF GateOf
    <2>2. level \in {"ask", "deny"}
      BY <1>0, <2>1, WalkPasses DEF Levels
    <2>3. CASE level = "deny"
      BY <1>0, <1>3, <1>4, <2>3, WalkPasses DEF GateOf
    <2>4. CASE level = "ask"
      <3>1. /\ new \subseteq (b \intersect scope) \ reserved
            /\ Passing(b, scope, new) = (b \intersect scope) \intersect (reserved \union new)
            /\ new # (b \intersect scope) \ reserved => Cardinality(new) >= Room
        BY <1>0, <2>4, WalkPasses
      <3>2. asks' = batch' \ reserved'
        BY <1>3, <1>4, <3>1 DEF GateOf
      <3>3. CASE new = (b \intersect scope) \ reserved
        BY <1>3, <2>4, <3>2, <3>3 DEF GateOf
      <3>4. CASE new # (b \intersect scope) \ reserved
        <4>1. new \in SUBSET Calls /\ new \intersect reserved = {}
          BY <3>1
        <4>2. remaining - Cardinality(reserved \union new) <= 0
          BY <3>1, <3>4, <4>1, WalkFillsRoom
        <4>3. Room' <= 0
          BY <1>0, <1>3, <4>2 DEF GateOf, Room
        <4> QED
          BY <2>4, <3>2, <4>3
      <3> QED
        BY <3>3, <3>4
    <2> QED
      BY <2>2, <2>3, <2>4
  <1> QED
    BY <1>0, <1>7, <1>8, <1>9, <1>10 DEF SteadyInv

\* Of the decided calls only the approved ones run.
LEMMA ResumeSteady ==
  ASSUME TypeOK, ClaimsInv, SteadyInv, Resume
  PROVE  SteadyInv'
  <1> SUFFICES ASSUME Steady' PROVE SteadyInv'
    BY DEF SteadyInv
  <1>1. /\ turn = "asking" /\ Undecided = {} /\ Steady
        /\ UNCHANGED <<used, batch, asks, decision>>
        /\ asks \subseteq batch /\ batch \in SUBSET Calls
    BY BoundsAssumption DEF Resume, Steady, TypeOK, Calls
  <1>2. PICK new \in Claiming(batch, inScope) : Proceed(new) \/ Mismatch(new)
    BY DEF Resume
  <1>3. Passing(batch, inScope, new) = batch \ asks
    BY <1>1, SecondWalkAgrees
  <1>4. batch \ (batch \ asks) = asks
    BY <1>1
  <1>5. /\ turn' = "running"
        /\ \A c \in Calls : pc'[c] =
             IF c \notin batch THEN pc[c]
             ELSE IF c \in (batch \ asks) \union {d \in asks : Approves(Paired(asks, d))}
                  THEN "ready" ELSE "over"
    BY <1>1, <1>2, <1>3, <1>4 DEF Proceed, Mismatch
  <1>6. \A c \in Calls : pc[c] \notin InFlight
    BY <1>1 DEF SteadyInv
  <1>7. ASSUME NEW c \in Calls, pc'[c] \in InFlight
        PROVE  c \in batch /\ decision[c] \notin {"posed", "reject"}
    <2>1. c \in batch
      BY <1>5, <1>6, <1>7
    <2>2. CASE c \in asks
      <3>1. Approves(Paired(asks, c))
        BY <1>5, <1>7, <2>1, <2>2 DEF InFlight
      <3>2. Paired(asks, c) = decision[c]
        BY <1>1, <2>2, PairedIsOwn
      <3> QED
        BY <2>1, <3>1, <3>2 DEF Approves, Answers
    <2>3. CASE c \notin asks
      BY <1>1, <2>1, <2>3 DEF SteadyInv
    <2> QED
      BY <2>2, <2>3
  <1> QED
    BY <1>1, <1>5, <1>7 DEF SteadyInv

\* Decisions are made for interrupted calls, none of which is in flight.
LEMMA DecideSteady ==
  ASSUME TypeOK, SteadyInv, NEW c \in Calls, Pose(c) \/ Answer(c)
  PROVE  SteadyInv'
  <1> SUFFICES ASSUME Steady' PROVE SteadyInv'
    BY DEF SteadyInv
  <1>1. /\ turn = "asking" /\ Steady
        /\ UNCHANGED <<remaining, reserved, level, turn, used, batch, asks, inScope, pc>>
        /\ \A d \in Calls : d # c => decision'[d] = decision[d]
    BY DEF Pose, Answer, Steady, grant, counters, TypeOK
  <1>2. \A d \in Calls : pc[d] \notin InFlight
    BY <1>1 DEF SteadyInv
  <1>3. c <= used /\ (c \in batch => c \in asks)
    <2>1. CASE Pose(c)
      BY <2>1 DEF Pose, Next1, Undecided, TypeOK, Calls
    <2>2. CASE Answer(c)
      BY <1>1, <2>2 DEF Answer, SteadyInv
    <2> QED
      BY <2>1, <2>2
  <1>4. Room' = Room
    BY <1>1 DEF Room
  <1> QED
    BY <1>1, <1>2, <1>3, <1>4 DEF SteadyInv

\* A call in flight has no decision against it.
LEMMA ToolSteady ==
  ASSUME TypeOK, SteadyInv, NEW c \in Calls, ToolStep(c)
  PROVE  SteadyInv'
  <1> SUFFICES ASSUME Steady' PROVE SteadyInv'
    BY DEF SteadyInv
  <1>1. ~Raise(c) /\ ~NeverStarts(c)
    <2>1. ~Raise(c)
      BY DEF Raise, Steady, TypeOK
    <2>2. ASSUME NeverStarts(c) PROVE FALSE
      <3>1. Steady /\ pc[c] \in InFlight /\ (turn # "running" \/ c \notin batch)
        BY <2>2 DEF NeverStarts, Steady, InFlight
      <3> QED
        BY <3>1 DEF SteadyInv
    <2> QED
      BY <2>1, <2>2
  <1>2. /\ pc[c] \in InFlight /\ Steady
        /\ \A d \in Calls : d # c => pc'[d] = pc[d]
        /\ UNCHANGED <<turn, used, batch, asks, decision>>
    BY <1>1 DEF TypeOK, ToolStep, AnswerLocally, Send, Receive, ReceiveError, Finish, Unwind,
           InFlight, Steady, grant, counters
  <1>3. turn = "running" /\ c \in batch /\ decision[c] \notin {"posed", "reject"}
    BY <1>2 DEF SteadyInv
  <1> QED
    BY <1>2, <1>3 DEF SteadyInv

\* SteadyInv is inductive, given the claims.
LEMMA SteadyStep ==
  TypeOK /\ InOrder /\ ClaimsInv /\ SteadyInv /\ [Next]_vars => SteadyInv'
  <1> SUFFICES ASSUME TypeOK, InOrder, ClaimsInv, SteadyInv, [Next]_vars PROVE SteadyInv'
    OBVIOUS
  <1>1. CASE StartTurn \/ EndTurn \/ UNCHANGED vars
    BY <1>1 DEF SteadyInv, Steady, StartTurn, EndTurn, vars, grant, counters, Room
  <1>2. CASE SetLevel
    BY <1>2 DEF SteadyInv, Steady, SetLevel, TypeOK
  <1>3. CASE Collect
    BY <1>3, BoundsAssumption DEF SteadyInv, Steady, Collect, grant, counters, InFlight
  <1>4. CASE CutTools
    BY <1>4 DEF SteadyInv, Steady, CutTools, TypeOK
  <1>5. CASE CutAtGate
    <2>1. /\ turn' = "idle" /\ UNCHANGED <<used, batch, asks, decision>> /\ turn = "asking"
          /\ \A c \in Calls : pc'[c] \in {pc[c], "over"}
          /\ Steady' = Steady
      BY <1>5 DEF CutAtGate, Steady
    <2> SUFFICES ASSUME Steady PROVE SteadyInv'
      BY <2>1 DEF SteadyInv
    <2>2. \A c \in Calls : pc[c] \notin InFlight
      BY <2>1 DEF SteadyInv
    <2>3. \A c \in Calls : pc'[c] \notin InFlight
      BY <2>1, <2>2 DEF InFlight
    <2> QED
      BY <2>1, <2>3 DEF SteadyInv
  <1> QED
    BY <1>1, <1>2, <1>3, <1>4, <1>5, GateSteady, ResumeSteady, DecideSteady, ToolSteady DEF Next

(***************************************************************************)
(* The theorems.                                                           *)
(***************************************************************************)
LEMMA BudgetStep ==
  GrantInv /\ [Next]_vars => (ChargesAreJust /\ PaidFor /\ UnattendedWithinBudget)'
  <1> SUFFICES ASSUME GrantInv, [Next]_vars
               PROVE  (ChargesAreJust /\ PaidFor /\ UnattendedWithinBudget)'
    OBVIOUS
  <1>1. CASE UNCHANGED <<remaining, reserved, charged, read, leave, inScope, pc>>
    BY <1>1 DEF GrantInv, ChargesAreJust, PaidFor, UnattendedWithinBudget, Unattended
  <1>2. CASE StartTurn \/ EndTurn \/ Collect \/ SetLevel \/ UNCHANGED vars
    BY <1>1, <1>2 DEF StartTurn, EndTurn, Collect, SetLevel, vars, grant
  <1>3. ASSUME NEW c \in Calls, Pose(c) \/ Answer(c)
        PROVE  (ChargesAreJust /\ PaidFor /\ UnattendedWithinBudget)'
    BY <1>1, <1>3 DEF Pose, Answer, grant
  <1>4. CASE Gate
    BY <1>4, GateWalks, WalkStep DEF GrantInv
  <1>5. CASE Resume
    BY <1>5, ResumeWalks, WalkStep DEF GrantInv
  <1>6. ASSUME NEW c \in Calls, ToolStep(c)
        PROVE  (ChargesAreJust /\ PaidFor /\ UnattendedWithinBudget)'
    BY <1>6, ReceiveStep, QuietToolStep
  <1>7. CASE CutAtGate
    <2>1. /\ UNCHANGED <<remaining, reserved, charged, read, leave, inScope>>
          /\ \A c \in Calls : pc'[c] \in {pc[c], "over"}
      BY <1>7 DEF CutAtGate, grant
    <2>2. PaidFor'
      BY <2>1 DEF GrantInv, PaidFor, Unattended
    <2> QED
      BY <2>1, <2>2 DEF GrantInv, ChargesAreJust, UnattendedWithinBudget, Unattended
  <1>8. CASE CutTools
    BY <1>1, <1>8 DEF CutTools, grant
  <1> QED
    BY <1>2, <1>3, <1>4, <1>5, <1>6, <1>7, <1>8 DEF Next

\* The parts of GrantInv hold before the first message.
LEMMA GrantInit == Init => GrantInv
  <1> SUFFICES ASSUME Init PROVE GrantInv
    OBVIOUS
  <1>1. TypeOK
    BY TypeInit
  <1>2. InOrder
    BY DEF Init, InOrder
  <1>3. ChargesAreJust /\ PaidFor
    BY FS_EmptySet, BoundsAssumption DEF Init, ChargesAreJust, PaidFor, Unattended
  <1>4. UnattendedWithinBudget
    BY FS_EmptySet, BoundsAssumption DEF Init, UnattendedWithinBudget, Unattended
  <1> QED
    BY <1>1, <1>2, <1>3, <1>4 DEF GrantInv

\* The parts of GrantInv hold in every reachable state, for any budget, any
\* number of calls and whatever people and responses do.
THEOREM GrantInvariant == Spec => []GrantInv
  <1>1. Init => GrantInv
    BY GrantInit
  <1>2. GrantInv /\ [Next]_vars => GrantInv'
    BY TypeStep, OrderStep, BudgetStep DEF GrantInv
  <1> QED
    BY <1>1, <1>2, PTL DEF Spec

\* Reads that nobody was asked about never exceed the budget of the grant.
THEOREM BudgetHolds == Spec => []UnattendedWithinBudget
  BY GrantInvariant, PTL DEF GrantInv

\* Every unit gone from the budget paid for one read at a granted host.
THEOREM ChargesHold == Spec => []ChargesAreJust
  BY GrantInvariant, PTL DEF GrantInv

\* Every variable keeps its type; in particular no response overdraws the budget.
THEOREM GrantTypes == Spec => []TypeOK
  BY GrantInvariant, PTL DEF GrantInv

\* The strengthening of the next three.
LEMMA SteadyInvariant == Spec => [](GrantInv /\ ClaimsInv /\ SteadyInv)
  <1>1. Init => GrantInv /\ ClaimsInv /\ SteadyInv
    <2> SUFFICES ASSUME Init PROVE ClaimsInv /\ SteadyInv
      BY GrantInit
    <2> QED
      BY DEF Init, ClaimsInv, ClaimsAreLive, SteadyInv, InFlight
  <1>2. GrantInv /\ ClaimsInv /\ SteadyInv /\ [Next]_vars => (GrantInv /\ ClaimsInv /\ SteadyInv)'
    BY TypeStep, OrderStep, BudgetStep, ClaimsStep, SteadyStep DEF GrantInv
  <1> QED
    BY <1>1, <1>2, PTL DEF Spec

\* However a call that began ends, its claim does not outlive it; the claims
\* left are those of calls whose turn ended before they began (fetch's outer
\* finally).
THEOREM ClaimsStayLive == Spec => []ClaimsAreLive
  BY SteadyInvariant, PTL DEF ClaimsInv

\* The second walk of a message agrees with the first while nobody changes the
\* level and no turn ends with its calls running (FetchGrant.reserve, called twice).
THEOREM WalksAgree == Spec => []ReplayAgrees
  <1>1. GrantInv /\ ClaimsInv /\ SteadyInv => ReplayAgrees
    BY SecondWalkAgrees DEF GrantInv, ReplayAgrees
  <1> QED
    BY <1>1, SteadyInvariant, PTL

\* Each decision then meets the call it was made for, so that none runs that
\* was rejected or not yet answered (_settle, _decide).
THEOREM DecisionsObeyed == Spec => []DecisionsAreObeyed
  <1>1. SteadyInv => DecisionsAreObeyed
    BY DEF SteadyInv, DecisionsAreObeyed
  <1> QED
    BY <1>1, SteadyInvariant, PTL

=============================================================================
