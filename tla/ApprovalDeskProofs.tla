------------------------- MODULE ApprovalDeskProofs -------------------------
(***************************************************************************)
(* Proofs about ApprovalDesk: a wait that is over is over for good         *)
(* (WaitsEnd), and whoever was told that an answer counts is the only one  *)
(* who was, and is obeyed (AnswersAreObeyed).  Both are about the wait of  *)
(* a turn and the POSTs that answer it, whatever the tabs show.  Then that *)
(* every wait runs out (WaitsRunOut), and the cards of a tab that has read *)
(* what is under way to it (DeskInvariant).                                *)
(*                                                                         *)
(* Then about SocraticDialogue: the stream, the entry and the histories    *)
(* agree (DialogueInvariant), and every reply runs out (RepliesRunOut).    *)
(***************************************************************************)
EXTENDS ApprovalDesk, SocraticDialogue, FiniteSetTheorems, SequenceTheorems, TLAPS

(***************************************************************************)
(* The strengthening.                                                      *)
(***************************************************************************)
Futures == {"waiting", "cancelled"} \union Tabs

Outcomes == {Nothing, "cancelled", "refused", "lost"} \union Tabs

WaitTypes ==
  /\ gate \in [Calls -> {"new", "parked", "over"}]
  /\ future \in [Calls -> Futures]
  /\ timer \in [Calls -> {"none", "asleep", "rung"}]
  /\ outcome \in [Calls -> Outcomes]
  /\ taken \in [Calls -> SUBSET Tabs]

\* Those who were told that their answer counts are whoever set the future.
TakenIsTheAnswer ==
  \A c \in Calls : taken[c] = IF future[c] \in Tabs THEN {future[c]} ELSE {}

\* What a wait went on with is its answer, its end or the restart.
OutcomeIsTheAnswer ==
  \A c \in Calls : gate[c] = "over" =>
    \/ future[c] \in Tabs /\ (outcome[c] = future[c] \/ outcome[c] = "lost" \/ c \in stopped)
    \/ future[c] \notin Tabs

\* An outcome that is a person's is what the future says.
OutcomeOfATab ==
  \A c \in Calls : outcome[c] \in Tabs => outcome[c] = future[c]

AnswersInv ==
  WaitTypes /\ WaitsEnd /\ TakenIsTheAnswer /\ OutcomeIsTheAnswer /\ OutcomeOfATab

\* The verdict is a tab's only when the future is that tab's answer, and an
\* answer is passed over only by the end of the turn.
LEMMA VerdictOfTheFuture ==
  ASSUME WaitTypes, NEW c \in Calls
  PROVE  /\ Verdict(c) \in Outcomes \ {Nothing}
         /\ Verdict(c) \in Tabs => Verdict(c) = future[c]
         /\ c \in stopped \/ future[c] \notin Tabs \/ Verdict(c) = future[c]
         /\ Verdict(c) = "refused" => future[c] = "waiting"
  <1>0. future[c] \in Futures
    BY DEF WaitTypes
  <1>1. CASE c \in stopped
    BY <1>1, NamesAssumption DEF Verdict, Outcomes
  <1>2. CASE c \notin stopped /\ future[c] # "waiting"
    BY <1>0, <1>2, NamesAssumption DEF Verdict, Outcomes, Futures
  <1>3. CASE c \notin stopped /\ future[c] = "waiting"
    <2>1. Verdict(c) = "refused"
      BY <1>3 DEF Verdict
    <2> QED
      BY <1>3, <2>1, NamesAssumption DEF Outcomes
  <1> QED
    BY <1>1, <1>2, <1>3

\* Nothing is answered before the first call is posed.
LEMMA AnswersInit == Init => AnswersInv
  BY NamesAssumption DEF Init, AnswersInv, WaitTypes, Futures, Outcomes, WaitsEnd,
     TakenIsTheAnswer, OutcomeIsTheAnswer, OutcomeOfATab

\* No step takes an answer back: a future is set once, by one tab, and read
\* once, by the turn.
LEMMA AnswersStay == AnswersInv /\ [Next]_vars => AnswersInv'
  <1> SUFFICES ASSUME AnswersInv, [Next]_vars PROVE AnswersInv'
    OBVIOUS
  <1> USE NamesAssumption
      DEF AnswersInv, WaitTypes, Futures, Outcomes, WaitsEnd, TakenIsTheAnswer,
          OutcomeIsTheAnswer, OutcomeOfATab
  <1>1. ASSUME NEW c \in Calls, Gate(c) PROVE AnswersInv'
    BY <1>1 DEF Gate
  <1>2. ASSUME NEW c \in Calls, Ring(c) PROVE AnswersInv'
    BY <1>2 DEF Ring
  <1>3. ASSUME NEW c \in Calls, CancelTurn(c) PROVE AnswersInv'
    BY <1>3 DEF CancelTurn
  <1>4. ASSUME NEW c \in Calls, CancelSession(c) PROVE AnswersInv'
    BY <1>4 DEF CancelSession
  <1>5. ASSUME NEW c \in Calls, Wake(c) PROVE AnswersInv'
    <2>1. /\ Verdict(c) \in Outcomes \ {Nothing}
          /\ Verdict(c) \in Tabs => Verdict(c) = future[c]
          /\ c \in stopped \/ future[c] \notin Tabs \/ Verdict(c) = future[c]
          /\ Verdict(c) = "refused" => future[c] = "waiting"
      BY VerdictOfTheFuture
    <2>2. future' = [future EXCEPT ![c] = IF Verdict(c) = "refused" THEN "cancelled" ELSE @]
      BY <1>5 DEF Wake
    <2>3. /\ \A d \in Calls : future'[d] \in Tabs \/ future[d] \in Tabs => future'[d] = future[d]
          /\ future' \in [Calls -> Futures]
      BY <2>1, <2>2
    <2>4. /\ gate[c] = "parked" /\ gate' = [gate EXCEPT ![c] = "over"]
          /\ outcome' = [outcome EXCEPT ![c] = Verdict(c)]
          /\ timer' = [timer EXCEPT ![c] = "none"]
          /\ stopped' = stopped /\ taken' = taken
      BY <1>5 DEF Wake
    <2> HIDE DEF Outcomes, Futures
    <2>5. WaitTypes'
      BY <2>1, <2>3, <2>4
    <2>6. \A d \in Calls : d # c => future'[d] = future[d]
      BY <2>2
    <2>7. WaitsEnd'
      BY <2>1, <2>4, <2>6
    <2>8. TakenIsTheAnswer'
      BY <2>3, <2>4
    <2>9. OutcomeIsTheAnswer'
      BY <2>1, <2>3, <2>4, <2>6
    <2>10. OutcomeOfATab'
      BY <2>1, <2>3, <2>4, <2>6
    <2> QED
      BY <2>5, <2>7, <2>8, <2>9, <2>10
  <1>6. ASSUME NEW t \in Tabs, NEW c \in Calls, Resolve(t, c) PROVE AnswersInv'
    <2>1. /\ gate[c] = "parked" /\ future[c] = "waiting"
          /\ future' = [future EXCEPT ![c] = t]
          /\ taken' = [taken EXCEPT ![c] = @ \union {t}]
          /\ UNCHANGED <<gate, timer, stopped, outcome>>
      BY <1>6 DEF Resolve
    <2> HIDE DEF Outcomes
    <2>2. WaitTypes'
      BY <2>1
    <2>3. WaitsEnd'
      BY <2>1
    <2>4. taken[c] = {} /\ outcome[c] = Nothing
      BY <2>1
    <2>5. /\ taken'[c] = {t} /\ future'[c] = t
          /\ \A d \in Calls : d # c => taken'[d] = taken[d] /\ future'[d] = future[d]
      BY <2>1, <2>4
    <2>6. TakenIsTheAnswer'
      <3> SUFFICES ASSUME NEW d \in Calls
                   PROVE  taken'[d] = IF future'[d] \in Tabs THEN {future'[d]} ELSE {}
        OBVIOUS
      <3>1. CASE d = c
        BY <2>5, <3>1
      <3>2. CASE d # c
        BY <2>5, <3>2
      <3> QED
        BY <3>1, <3>2
    <2>7. OutcomeIsTheAnswer' /\ OutcomeOfATab'
      BY <2>1, <2>4, <2>5
    <2> QED
      BY <2>2, <2>3, <2>6, <2>7
  <1>7. CASE Crash
    BY <1>7 DEF Crash
  <1>8. ASSUME UNCHANGED <<waitVars, taken>> PROVE AnswersInv'
    BY <1>8 DEF waitVars
  <1>9. ASSUME NEW t \in Tabs, Tab(t) PROVE AnswersInv'
    <2>1. CASE \E c \in Calls : Resolve(t, c)
      BY <1>6, <2>1
    <2>2. CASE Open(t) \/ Listen(t) \/ Read(t) \/ Disconnect(t) \/ Unresolved(t)
               \/ \E c \in Calls : Decide(t, c)
      BY <1>8, <2>2 DEF Open, Listen, Read, Disconnect, Unresolved, Decide
    <2> QED
      BY <1>9, <2>1, <2>2 DEF Tab
  <1>10. CASE UNCHANGED vars
    BY <1>8, <1>10 DEF vars
  <1> QED
    BY <1>1, <1>2, <1>3, <1>4, <1>5, <1>7, <1>9, <1>10 DEF Next, Turn

\* The strengthening is an invariant: the answer, the outcome and the tabs that
\* were told agree at every step of the wait (WebApprovals.decide, resolve).
THEOREM AnswersInvariant == Spec => []AnswersInv
  BY AnswersInit, AnswersStay, PTL DEF Spec

\* A call that is over has an outcome and no timer, and one that is new has no
\* answer (WebApprovals.decide and its finally).
THEOREM WaitsAreOver == Spec => []WaitsEnd
  <1>1. AnswersInv => WaitsEnd
    BY DEF AnswersInv
  <1> QED
    BY <1>1, AnswersInvariant, PTL

\* One person is told that the answer counts, and the turn goes on with it
\* (WebApprovals.resolve and _bounded).
THEOREM OneAnswerIsObeyed == Spec => []AnswersAreObeyed
  <1>1. AnswersInv => AnswersAreObeyed
    <2> SUFFICES ASSUME AnswersInv, NEW c \in Calls
                 PROVE  /\ Cardinality(taken[c]) <= 1
                        /\ outcome[c] \in Tabs => taken[c] = {outcome[c]}
                        /\ taken[c] # {} /\ gate[c] = "over" =>
                             outcome[c] \in taken[c] \/ outcome[c] = "lost" \/ c \in stopped
      BY DEF AnswersAreObeyed
    <2>1. taken[c] = {} \/ taken[c] = {future[c]}
      BY DEF AnswersInv, TakenIsTheAnswer
    <2>2. Cardinality({}) = 0 /\ Cardinality({future[c]}) = 1
      BY FS_EmptySet, FS_Singleton
    <2>3. Cardinality(taken[c]) <= 1
      BY <2>1, <2>2
    <2> QED
      BY <2>3 DEF AnswersInv, TakenIsTheAnswer, OutcomeIsTheAnswer, OutcomeOfATab
  <1> QED
    BY <1>1, AnswersInvariant, PTL


(***************************************************************************)
(* What a tab shows.                                                       *)
(***************************************************************************)
\* A frame that is announced changes what the tab will show as it changes what
\* it shows (useApprovalFeed).
LEMMA AnnouncedIsShown ==
  ASSUME NEW tabs \in SUBSET Calls, NEW read \in Seq(Frame), NEW f \in Frame
  PROVE  AfterReading(tabs, Append(read, f)) = Shown(AfterReading(tabs, read), f)
  <1> DEFINE n == Len(read)  more == Append(read, f)
             About(c) == {i \in DOMAIN read : read[i].call = c}
             AboutMore(c) == {i \in DOMAIN more : more[i].call = c}
  <1>1. /\ n \in Nat /\ DOMAIN read = 1..n /\ DOMAIN more = 1..(n + 1)
        /\ \A i \in 1..n : more[i] = read[i]
        /\ more[n + 1] = f
    BY AppendProperties, LenProperties
  <1>2. f.call \in Calls /\ f.type \in {"requested", "settled"}
    BY DEF Frame
  <1>3. \A c \in Calls : AboutMore(c) = About(c) \union (IF f.call = c THEN {n + 1} ELSE {})
    BY <1>1
  <1>4. \A c \in Calls :
          /\ c \in AfterReading(tabs, read) <=>
               \/ \E i \in About(c) : read[i].type = "requested" /\ \A j \in About(c) : j <= i
               \/ About(c) = {} /\ c \in tabs
          /\ c \in AfterReading(tabs, more) <=>
               \/ \E i \in AboutMore(c) : more[i].type = "requested" /\ \A j \in AboutMore(c) : j <= i
               \/ AboutMore(c) = {} /\ c \in tabs
    BY DEF AfterReading
  <1>5. \A c \in Calls : About(c) \subseteq 1..n
    BY <1>1
  <1> HIDE DEF n, more, About, AboutMore
  <1>6. ASSUME NEW c \in Calls, c # f.call
        PROVE  c \in AfterReading(tabs, more) <=> c \in AfterReading(tabs, read)
    <2>1. AboutMore(c) = About(c)
      BY <1>3, <1>6
    <2>2. \A i \in About(c) : more[i] = read[i]
      BY <1>1, <1>5
    <2> QED
      BY <1>4, <2>1, <2>2
  <1>7. f.call \in AfterReading(tabs, more) <=> f.type = "requested"
    <2>1. AboutMore(f.call) = About(f.call) \union {n + 1}
      BY <1>2, <1>3
    <2>2. \A j \in AboutMore(f.call) : j <= n + 1 /\ j \in Nat
      BY <1>1, <1>2, <1>5, <2>1
    <2>4. AboutMore(f.call) # {} /\ n + 1 \in AboutMore(f.call)
      BY <2>1
    <2>3. ASSUME NEW i \in AboutMore(f.call)
          PROVE  (\A j \in AboutMore(f.call) : j <= i) <=> i = n + 1
      <3>1. n + 1 <= i => i = n + 1
        BY <1>1, <2>2
      <3> QED
        BY <2>2, <2>4, <3>1
    <2>5. f.call \in AfterReading(tabs, more) <=>
            \E i \in AboutMore(f.call) :
              more[i].type = "requested" /\ \A j \in AboutMore(f.call) : j <= i
      BY <1>2, <1>4, <2>4
    <2>6. f.call \in AfterReading(tabs, more) <=> more[n + 1].type = "requested"
      BY <2>3, <2>4, <2>5
    <2> QED
      BY <1>1, <2>6
  <1>8. AfterReading(tabs, more) \subseteq Calls /\ AfterReading(tabs, read) \subseteq Calls
    BY DEF AfterReading
  <1>9. AfterReading(tabs, more) = Shown(AfterReading(tabs, read), f)
    <2>1. \A c \in Calls : c \in Shown(AfterReading(tabs, read), f) <=>
                           IF c = f.call THEN f.type = "requested" ELSE c \in AfterReading(tabs, read)
      BY <1>2 DEF Shown
    <2>2. Shown(AfterReading(tabs, read), f) \subseteq Calls
      BY <1>2, <1>8 DEF Shown
    <2> QED
      BY <1>6, <1>7, <1>8, <2>1, <2>2
  <1> QED
    BY <1>9 DEF more

\* Reading the first frame changes nothing of what the tab will show.
LEMMA ReadIsShown ==
  ASSUME NEW tabs \in SUBSET Calls, NEW read \in Seq(Frame), read # <<>>
  PROVE  /\ Shown(tabs, Head(read)) \in SUBSET Calls
         /\ Tail(read) \in Seq(Frame)
         /\ AfterReading(Shown(tabs, Head(read)), Tail(read)) = AfterReading(tabs, read)
  <1> DEFINE n == Len(read)  rest == Tail(read)  first == Head(read)  now == Shown(tabs, first)
             About(c) == {i \in DOMAIN read : read[i].call = c}
             AboutRest(c) == {i \in DOMAIN rest : rest[i].call = c}
  <1>1. /\ n \in Nat /\ n >= 1 /\ DOMAIN read = 1..n
        /\ rest \in Seq(Frame) /\ DOMAIN rest = 1..(n - 1)
        /\ \A i \in 1..(n - 1) : rest[i] = read[i + 1]
        /\ first = read[1] /\ first \in Frame
    BY HeadTailProperties, LenProperties, EmptySeq
  <1>2. first.call \in Calls /\ first.type \in {"requested", "settled"}
    BY <1>1 DEF Frame
  <1>3. now \in SUBSET Calls /\ \A c \in Calls :
          c \in now <=> IF c = first.call THEN first.type = "requested" ELSE c \in tabs
    BY <1>2 DEF Shown
  <1>4. \A c \in Calls :
          /\ c \in AfterReading(tabs, read) <=>
               \/ \E i \in About(c) : read[i].type = "requested" /\ \A j \in About(c) : j <= i
               \/ About(c) = {} /\ c \in tabs
          /\ c \in AfterReading(now, rest) <=>
               \/ \E i \in AboutRest(c) : rest[i].type = "requested" /\ \A j \in AboutRest(c) : j <= i
               \/ AboutRest(c) = {} /\ c \in now
    BY DEF AfterReading
  <1>5. \A c \in Calls :
          /\ \A i \in 1..(n - 1) : i \in AboutRest(c) <=> i + 1 \in About(c)
          /\ 1 \in About(c) <=> c = first.call
          /\ About(c) \subseteq 1..n /\ AboutRest(c) \subseteq 1..(n - 1)
    BY <1>1
  <1> HIDE DEF n, rest, first, now, About, AboutRest
  <1>6. ASSUME NEW c \in Calls
        PROVE  c \in AfterReading(now, rest) <=> c \in AfterReading(tabs, read)
    <2>1. CASE AboutRest(c) = {}
      <3>1. About(c) = IF c = first.call THEN {1} ELSE {}
        <4>1. \A i \in About(c) : i = 1
          <5> SUFFICES ASSUME NEW i \in About(c), i # 1 PROVE FALSE
            OBVIOUS
          <5>1. i - 1 \in 1..(n - 1) /\ (i - 1) + 1 = i
            BY <1>1, <1>5
          <5> QED
            BY <1>5, <2>1, <5>1
        <4> QED
          BY <1>5, <4>1
      <3>2. c \in AfterReading(now, rest) <=> c \in now
        BY <1>4, <2>1
      <3>3. CASE c = first.call
        <4>1. About(c) = {1} /\ read[1] = first /\ 1 <= 1
          BY <1>1, <3>1, <3>3
        <4>2. c \in AfterReading(tabs, read) <=> first.type = "requested"
          BY <1>4, <4>1
        <4> QED
          BY <1>3, <3>2, <3>3, <4>2
      <3>4. CASE c # first.call
        BY <1>3, <1>4, <3>1, <3>2, <3>4
      <3> QED
        BY <3>3, <3>4
    <2>2. CASE AboutRest(c) # {}
      <3>1. PICK k \in AboutRest(c) : TRUE
        BY <2>2
      <3>2. k \in 1..(n - 1) /\ k + 1 \in About(c)
        BY <1>5, <3>1
      <3>3. ASSUME c \in AfterReading(now, rest) PROVE c \in AfterReading(tabs, read)
        <4>1. PICK i \in AboutRest(c) : rest[i].type = "requested" /\ \A j \in AboutRest(c) : j <= i
          BY <1>4, <2>2, <3>3
        <4>2. i \in 1..(n - 1) /\ i + 1 \in About(c) /\ read[i + 1] = rest[i]
          BY <1>1, <1>5, <4>1
        <4>3. ASSUME NEW j \in About(c) PROVE j <= i + 1
          <5>1. CASE j = 1
            BY <1>1, <4>2, <5>1
          <5>2. CASE j # 1
            <6>1. j - 1 \in 1..(n - 1) /\ (j - 1) + 1 = j
              BY <1>1, <1>5, <5>2
            <6>2. j - 1 \in AboutRest(c)
              BY <1>5, <6>1
            <6> QED
              BY <4>1, <4>2, <6>1, <6>2
          <5> QED
            BY <5>1, <5>2
        <4> QED
          BY <1>4, <4>1, <4>2, <4>3
      <3>4. ASSUME c \in AfterReading(tabs, read) PROVE c \in AfterReading(now, rest)
        <4>1. PICK i \in About(c) : read[i].type = "requested" /\ \A j \in About(c) : j <= i
          BY <1>4, <3>2, <3>4
        <4>2. i \in 1..n /\ k + 1 <= i
          BY <1>5, <3>2, <4>1
        <4>3. i - 1 \in 1..(n - 1) /\ (i - 1) + 1 = i
          BY <1>1, <3>2, <4>2
        <4>4. i - 1 \in AboutRest(c) /\ rest[i - 1] = read[i]
          BY <1>1, <1>5, <4>3
        <4>5. ASSUME NEW j \in AboutRest(c) PROVE j <= i - 1
          <5>1. j \in 1..(n - 1) /\ j + 1 \in About(c)
            BY <1>5
          <5>2. j + 1 <= i
            BY <4>1, <5>1
          <5> QED
            BY <1>1, <4>2, <5>1, <5>2
        <4> QED
          BY <1>4, <4>1, <4>4, <4>5
      <3> QED
        BY <3>3, <3>4
    <2> QED
      BY <2>1, <2>2
  <1>7. AfterReading(now, rest) = AfterReading(tabs, read)
    BY <1>6 DEF AfterReading
  <1> QED
    BY <1>1, <1>3, <1>7 DEF now, first, rest

\* A tab that starts from no cards and a frame for each call of a set will show
\* that set (WebApprovals.listen).
LEMMA SeedIsShown ==
  ASSUME NEW S \in SUBSET Calls, NEW seed \in SetToSeqs(S)
  PROVE  LET read == [i \in DOMAIN seed |-> [type |-> "requested", call |-> seed[i]]] IN
         read \in Seq(Frame) /\ AfterReading({}, read) = S
  <1> DEFINE n == Cardinality(S)
             read == [i \in DOMAIN seed |-> [type |-> "requested", call |-> seed[i]]]
             About(c) == {i \in DOMAIN read : read[i].call = c}
  <1>1. IsFiniteSet(S) /\ n \in Nat
    BY CallsAssumption, FS_Subset, FS_CardinalityType
  <1>2. /\ seed \in [1..n -> S]
        /\ \A i, j \in 1..n : i # j => seed[i] # seed[j]
    BY DEF SetToSeqs
  <1>3. \A c \in S : \E i \in 1..n : seed[i] = c
    <2>1. seed \in Injection(1..n, S)
      BY <1>2 DEF Injection, IsInjective
    <2>2. Cardinality(1..n) = n
      BY <1>1, FS_Interval
    <2>3. seed \in Surjection(1..n, S)
      BY <1>1, <2>1, <2>2, FS_Injection
    <2> QED
      BY <2>3 DEF Surjection
  <1>4. /\ DOMAIN read = 1..n
        /\ \A i \in 1..n : read[i] = [type |-> "requested", call |-> seed[i]]
    BY <1>2
  <1>5. read \in Seq(Frame)
    <2>1. read \in [1..n -> Frame]
      BY <1>2, <1>4 DEF Frame
    <2> QED
      BY <1>1, <2>1
  <1>6. ASSUME NEW c \in Calls PROVE c \in AfterReading({}, read) <=> c \in S
    <2>1. c \in AfterReading({}, read) <=>
            \E i \in About(c) : read[i].type = "requested" /\ \A j \in About(c) : j <= i
      BY DEF AfterReading
    <2>2. About(c) = {i \in 1..n : seed[i] = c}
      BY <1>4
    <2>3. CASE c \in S
      <3>1. PICK i \in 1..n : seed[i] = c
        BY <1>3, <2>3
      <3>2. About(c) = {i}
        BY <1>2, <2>2, <3>1
      <3>3. read[i].type = "requested" /\ i <= i
        BY <1>4, <3>1
      <3>4. i \in About(c) /\ \A j \in About(c) : j <= i
        BY <3>2, <3>3
      <3> HIDE DEF About
      <3> QED
        BY <2>1, <2>3, <3>3, <3>4
    <2>4. CASE c \notin S
      <3>1. About(c) = {}
        BY <1>2, <2>2, <2>4
      <3> QED
        BY <2>1, <2>4, <3>1
    <2> QED
      BY <2>3, <2>4
  <1>7. AfterReading({}, read) = S
    BY <1>6 DEF AfterReading
  <1> QED
    BY <1>5, <1>7


(***************************************************************************)
(* The tabs follow.                                                        *)
(***************************************************************************)
\* A tab whose connection is opening shows nothing.
OpeningShowsNothing == \A t \in Tabs : link[t] = "opening" => cards[t] = {}

DeskIInv == TypeOK /\ AnswersInv /\ TabsFollow /\ OpeningShowsNothing

\* At the start no tab is connected.
LEMMA DeskInit == Init => DeskIInv
  <1> SUFFICES ASSUME Init PROVE DeskIInv
    OBVIOUS
  <1>1. AnswersInv
    BY AnswersInit
  <1>2. TypeOK
    <2>1. <<>> \in Seq(Frame)
      BY EmptySeq
    <2> QED
      BY <2>1, BoundsAssumption DEF Init, TypeOK
  <1>3. TabsFollow /\ OpeningShowsNothing
    BY DEF Init, TabsFollow, OpeningShowsNothing
  <1> QED
    BY <1>1, <1>2, <1>3 DEF DeskIInv

\* The variables have their types after every step.
LEMMA DeskTypes == DeskIInv /\ [Next]_vars => TypeOK'
  <1> SUFFICES ASSUME DeskIInv, [Next]_vars PROVE TypeOK'
    OBVIOUS
  <1>1. TypeOK /\ WaitTypes /\ WaitTypes'
    BY AnswersStay DEF DeskIInv, AnswersInv
  <1>2. ASSUME /\ stopped' \subseteq Calls
               /\ link' \in [Tabs -> {"down", "opening", "up"}]
               /\ frames' \in [Tabs -> Seq(Frame)]
               /\ cards' \in [Tabs -> SUBSET Calls]
               /\ deciding' \in [Tabs -> Calls \union {Nothing}]
               /\ drops' \in 0..MaxDrops /\ crashes' \in 0..MaxCrashes
        PROVE  TypeOK'
    BY <1>1, <1>2 DEF TypeOK, WaitTypes, Futures, Outcomes
  <1>3. ASSUME NEW type \in {"requested", "settled"}, NEW c \in Calls, Announce(type, c)
        PROVE  frames' \in [Tabs -> Seq(Frame)]
    <2>1. [type |-> type, call |-> c] \in Frame
      BY DEF Frame
    <2>2. \A t \in Tabs : Append(frames[t], [type |-> type, call |-> c]) \in Seq(Frame)
      BY <1>1, <2>1, AppendProperties DEF TypeOK
    <2> QED
      BY <1>1, <1>3, <2>2 DEF Announce, TypeOK
  <1> USE DEF boundVars, tabVars, waitVars
  <1>4. ASSUME NEW c \in Calls, Turn(c) PROVE TypeOK'
    <2>1. CASE Gate(c)
      BY <1>1, <1>2, <1>3, <2>1 DEF Gate, TypeOK
    <2>2. CASE Wake(c)
      BY <1>1, <1>2, <1>3, <2>2 DEF Wake, TypeOK
    <2>3. CASE Ring(c) \/ CancelTurn(c) \/ CancelSession(c)
      <3>1. stopped' \subseteq Calls /\ UNCHANGED <<tabVars, boundVars>>
        BY <1>1, <2>3 DEF Ring, CancelTurn, CancelSession, TypeOK
      <3> QED
        BY <1>1, <1>2, <3>1 DEF TypeOK
    <2> QED
      BY <1>4, <2>1, <2>2, <2>3 DEF Turn
  <1>5. ASSUME NEW t \in Tabs, Tab(t) PROVE TypeOK'
    <2>1. CASE Open(t) \/ Unresolved(t) \/ \E c \in Calls : Decide(t, c) \/ Resolve(t, c)
      <3>1. /\ UNCHANGED <<stopped, frames, boundVars>>
            /\ link' \in [Tabs -> {"down", "opening", "up"}]
            /\ cards' \in [Tabs -> SUBSET Calls]
            /\ deciding' \in [Tabs -> Calls \union {Nothing}]
        <4>1. CASE Open(t)
          BY <1>1, <4>1 DEF Open, TypeOK
        <4>2. CASE Unresolved(t)
          BY <1>1, <4>2 DEF Unresolved, TypeOK
        <4>3. ASSUME NEW c \in Calls, Decide(t, c) \/ Resolve(t, c)
              PROVE  /\ UNCHANGED <<stopped, frames, boundVars>>
                     /\ link' \in [Tabs -> {"down", "opening", "up"}]
                     /\ cards' \in [Tabs -> SUBSET Calls]
                     /\ deciding' \in [Tabs -> Calls \union {Nothing}]
          <5>1. CASE Decide(t, c)
            BY <1>1, <5>1 DEF Decide, TypeOK
          <5>2. CASE Resolve(t, c)
            BY <1>1, <5>2 DEF Resolve, TypeOK
          <5> QED
            BY <4>3, <5>1, <5>2
        <4> QED
          BY <2>1, <4>1, <4>2, <4>3
      <3> QED
        BY <1>1, <1>2, <3>1 DEF TypeOK
    <2>2. CASE Listen(t)
      <3>1. PICK seed \in SetToSeqs(Parked) :
              frames' = [frames EXCEPT ![t] = [i \in DOMAIN seed |-> [type |-> "requested", call |-> seed[i]]]]
        BY <2>2 DEF Listen
      <3>2. [i \in DOMAIN seed |-> [type |-> "requested", call |-> seed[i]]] \in Seq(Frame)
        BY SeedIsShown DEF Parked
      <3>3. frames' \in [Tabs -> Seq(Frame)]
        BY <1>1, <3>1, <3>2 DEF TypeOK
      <3> QED
        BY <1>1, <1>2, <2>2, <3>3 DEF Listen, TypeOK
    <2>3. CASE Read(t)
      <3>1. frames[t] \in Seq(Frame) /\ frames[t] # <<>> /\ cards[t] \in SUBSET Calls
        BY <1>1, <2>3 DEF Read, TypeOK
      <3>2. Shown(cards[t], Head(frames[t])) \in SUBSET Calls /\ Tail(frames[t]) \in Seq(Frame)
        BY <3>1, ReadIsShown
      <3>4. /\ cards' = [cards EXCEPT ![t] = Shown(cards[t], Head(frames[t]))]
            /\ frames' = [frames EXCEPT ![t] = Tail(frames[t])]
            /\ deciding' = [deciding EXCEPT ![t] = deciding'[t]]
            /\ deciding'[t] \in {deciding[t], Nothing}
            /\ UNCHANGED <<stopped, link, boundVars>>
        BY <1>1, <2>3 DEF Read, TypeOK
      <3>3. /\ cards' \in [Tabs -> SUBSET Calls]
            /\ frames' \in [Tabs -> Seq(Frame)]
            /\ deciding' \in [Tabs -> Calls \union {Nothing}]
        BY <1>1, <3>2, <3>4 DEF TypeOK
      <3> QED
        BY <1>1, <1>2, <3>3, <3>4 DEF TypeOK
    <2>4. CASE Disconnect(t)
      <3>1. <<>> \in Seq(Frame)
        BY EmptySeq
      <3>2. /\ drops' \in 0..MaxDrops
            /\ link' \in [Tabs -> {"down", "opening", "up"}]
            /\ frames' \in [Tabs -> Seq(Frame)]
            /\ UNCHANGED <<stopped, cards, deciding, crashes>>
        BY <1>1, <2>4, <3>1, BoundsAssumption DEF Disconnect, TypeOK
      <3> QED
        BY <1>1, <1>2, <3>2 DEF TypeOK
    <2> QED
      BY <1>5, <2>1, <2>2, <2>3, <2>4 DEF Tab
  <1>6. CASE Crash
    <2>1. <<>> \in Seq(Frame)
      BY EmptySeq
    <2>2. /\ crashes' \in 0..MaxCrashes
          /\ link' \in [Tabs -> {"down", "opening", "up"}]
          /\ frames' \in [Tabs -> Seq(Frame)]
          /\ UNCHANGED <<stopped, cards, deciding, drops>>
      BY <1>1, <1>6, <2>1, BoundsAssumption DEF Crash, TypeOK
    <2> QED
      BY <1>1, <1>2, <2>2 DEF TypeOK
  <1>7. CASE UNCHANGED vars
    BY <1>1, <1>2, <1>7 DEF vars, TypeOK
  <1> QED
    BY <1>4, <1>5, <1>6, <1>7 DEF Next

\* Each frame, and each new connection, keeps the tabs in step with what is
\* parked; what else a tab, a turn or a restart does takes neither from them.
LEMMA DeskFollows == DeskIInv /\ [Next]_vars => TabsFollow' /\ OpeningShowsNothing'
  <1> SUFFICES ASSUME DeskIInv, [Next]_vars PROVE TabsFollow' /\ OpeningShowsNothing'
    OBVIOUS
  <1>0. /\ gate \in [Calls -> {"new", "parked", "over"}]
        /\ link \in [Tabs -> {"down", "opening", "up"}]
        /\ frames \in [Tabs -> Seq(Frame)] /\ cards \in [Tabs -> SUBSET Calls]
        /\ \A t \in Tabs : link[t] = "up" => AfterReading(cards[t], frames[t]) = Parked
        /\ \A t \in Tabs : link[t] = "opening" => cards[t] = {}
    BY DEF DeskIInv, TypeOK, TabsFollow, OpeningShowsNothing
  <1> USE DEF TabsFollow, OpeningShowsNothing
  <1>1. ASSUME NEW type \in {"requested", "settled"}, NEW c \in Calls, Announce(type, c),
               UNCHANGED <<link, cards>>,
               Parked' = Shown(Parked, [type |-> type, call |-> c])
        PROVE  TabsFollow' /\ OpeningShowsNothing'
    <2> DEFINE f == [type |-> type, call |-> c]
    <2>1. f \in Frame
      BY DEF Frame
    <2>2. ASSUME NEW t \in Tabs, link'[t] = "up"
          PROVE  AfterReading(cards'[t], frames'[t]) = Parked'
      <3>1. link[t] = "up" /\ cards'[t] = cards[t] /\ frames'[t] = Append(frames[t], f)
        BY <1>0, <1>1, <2>2 DEF Announce
      <3>2. AfterReading(cards[t], Append(frames[t], f))
              = Shown(AfterReading(cards[t], frames[t]), f)
        BY <1>0, <2>1, AnnouncedIsShown
      <3> QED
        BY <1>0, <1>1, <3>1, <3>2
    <2> QED
      BY <1>0, <1>1, <2>2
  <1>2. ASSUME UNCHANGED <<link, cards, frames>>, Parked' = Parked
        PROVE  TabsFollow' /\ OpeningShowsNothing'
    BY <1>0, <1>2
  <1>3. ASSUME NEW c \in Calls, Turn(c) PROVE TabsFollow' /\ OpeningShowsNothing'
    <2>1. CASE Gate(c)
      <3>1. Parked' = Shown(Parked, [type |-> "requested", call |-> c])
        BY <1>0, <2>1 DEF Gate, Parked, Shown
      <3> QED
        BY <1>1, <2>1, <3>1 DEF Gate
    <2>2. CASE Wake(c)
      <3>1. Parked' = Shown(Parked, [type |-> "settled", call |-> c])
        BY <1>0, <2>2 DEF Wake, Parked, Shown
      <3> QED
        BY <1>1, <2>2, <3>1 DEF Wake
    <2>3. CASE Ring(c) \/ CancelTurn(c) \/ CancelSession(c)
      BY <1>2, <2>3 DEF Ring, CancelTurn, CancelSession, Parked, tabVars
    <2> QED
      BY <1>3, <2>1, <2>2, <2>3 DEF Turn
  <1>4. ASSUME NEW t \in Tabs, Tab(t) PROVE TabsFollow' /\ OpeningShowsNothing'
    <2>0. Parked' = Parked
      BY <1>4 DEF Tab, Open, Listen, Read, Disconnect, Unresolved, Decide, Resolve, waitVars, Parked
    <2>1. CASE Unresolved(t) \/ \E c \in Calls : Decide(t, c) \/ Resolve(t, c)
      BY <1>2, <2>0, <2>1 DEF Unresolved, Decide, Resolve
    <2>2. CASE Open(t)
      BY <1>0, <2>0, <2>2 DEF Open
    <2>3. CASE Listen(t)
      <3>1. PICK seed \in SetToSeqs(Parked) :
              frames' = [frames EXCEPT ![t] = [i \in DOMAIN seed |-> [type |-> "requested", call |-> seed[i]]]]
        BY <2>3 DEF Listen
      <3>2. AfterReading({}, [i \in DOMAIN seed |-> [type |-> "requested", call |-> seed[i]]]) = Parked
        BY SeedIsShown DEF Parked
      <3>3. link[t] = "opening" /\ link' = [link EXCEPT ![t] = "up"] /\ cards' = cards
        BY <2>3 DEF Listen
      <3>4. AfterReading(cards'[t], frames'[t]) = Parked'
        BY <1>0, <2>0, <3>1, <3>2, <3>3
      <3> QED
        BY <1>0, <2>0, <3>1, <3>3, <3>4
    <2>4. CASE Read(t)
      <3>1. /\ frames[t] \in Seq(Frame) /\ frames[t] # <<>> /\ cards[t] \in SUBSET Calls
            /\ cards' = [cards EXCEPT ![t] = Shown(cards[t], Head(frames[t]))]
            /\ frames' = [frames EXCEPT ![t] = Tail(frames[t])]
            /\ link' = link /\ link[t] = "up"
        BY <1>0, <2>4 DEF Read
      <3>2. AfterReading(cards'[t], frames'[t]) = Parked'
        BY <1>0, <2>0, <3>1, ReadIsShown
      <3> QED
        BY <1>0, <2>0, <3>1, <3>2
    <2>5. CASE Disconnect(t)
      BY <1>0, <2>0, <2>5 DEF Disconnect
    <2> QED
      BY <1>4, <2>1, <2>2, <2>3, <2>4, <2>5 DEF Tab
  <1>5. CASE Crash
    BY <1>0, <1>5 DEF Crash
  <1>6. CASE UNCHANGED vars
    BY <1>2, <1>6 DEF vars, tabVars, waitVars, Parked
  <1> QED
    BY <1>3, <1>4, <1>5, <1>6 DEF Next

\* A tab that has read what is under way to it shows what is parked and nothing
\* else, and a call that is over is over for good (WebApprovals.listen and
\* _announce, useApprovalFeed).
THEOREM DeskInvariant == Spec => []DeskInv
  <1>1. Init => DeskIInv
    BY DeskInit
  <1>2. DeskIInv /\ [Next]_vars => DeskIInv'
    <2>1. DeskIInv => AnswersInv
      BY DEF DeskIInv
    <2> QED
      BY <2>1, DeskTypes, AnswersStay, DeskFollows DEF DeskIInv
  <1>3. DeskIInv => DeskInv
    BY DEF DeskIInv, DeskInv, AnswersInv
  <1> QED
    BY <1>1, <1>2, <1>3, PTL DEF Spec

(***************************************************************************)
(* What is left of a wait.                                                 *)
(***************************************************************************)
\* A wait that has something to go on with.
Due(c) == c \in stopped \/ future[c] # "waiting" \/ timer[c] = "rung"

\* A parked call that nobody may have to answer is due, or its timer runs.
WaitsHaveAnEnd ==
  \A c \in Calls :
    gate[c] = "parked" /\ (c \in Unattended \union stopped \/ future[c] # "waiting")
      => Due(c) \/ timer[c] = "asleep"

\* What is before the end of a wait: to be due, its timer, and to wake.
WaitLeft(c) ==
  IF gate[c] = "new" THEN 5
  ELSE IF gate[c] = "over" THEN 0
  ELSE 1 + (IF timer[c] = "asleep" THEN 1 ELSE 0) + (IF Due(c) THEN 0 ELSE 2)

\* A timer that rings and a turn that wakes bring the wait nearer to its end,
\* and no tab, no cancel and no restart sets it back.
WaitsComeCloser ==
  [][\A c \in Calls :
       /\ Ring(c) \/ Wake(c) => WaitLeft(c)' < WaitLeft(c)
       /\ WaitLeft(c)' <= WaitLeft(c)]_vars

\* An unattended call has its timer for as long as it is parked.
TimersRun == \A c \in Unattended : gate[c] = "parked" => timer[c] # "none"

\* One step of the desk, as the wait of one call sees it.
LEMMA WaitSteps ==
  ASSUME AnswersInv, [Next]_vars, NEW c \in Calls
  PROVE  \/ Gate(c) \/ Ring(c) \/ Wake(c)
         \/ /\ gate'[c] = gate[c] /\ timer'[c] = timer[c] /\ (c \in stopped => c \in stopped')
            /\ future[c] # "waiting" => future'[c] # "waiting"
         \/ gate'[c] = (IF gate[c] = "parked" THEN "over" ELSE gate[c]) /\ timer'[c] = "none"
  <1>0. /\ gate \in [Calls -> {"new", "parked", "over"}] /\ future \in [Calls -> Futures]
        /\ timer \in [Calls -> {"none", "asleep", "rung"}]
    BY DEF AnswersInv, WaitTypes
  <1>1. ASSUME NEW d \in Calls, Turn(d), d # c
        PROVE  /\ gate'[c] = gate[c] /\ timer'[c] = timer[c] /\ (c \in stopped => c \in stopped')
               /\ future[c] # "waiting" => future'[c] # "waiting"
    BY <1>0, <1>1 DEF Turn, Gate, Ring, CancelTurn, CancelSession, Wake
  <1>2. ASSUME CancelTurn(c) \/ CancelSession(c)
        PROVE  /\ gate'[c] = gate[c] /\ timer'[c] = timer[c] /\ (c \in stopped => c \in stopped')
               /\ future[c] # "waiting" => future'[c] # "waiting"
    BY <1>0, <1>2 DEF CancelTurn, CancelSession
  <1>3. ASSUME NEW t \in Tabs, Tab(t)
        PROVE  /\ gate'[c] = gate[c] /\ timer'[c] = timer[c] /\ (c \in stopped => c \in stopped')
               /\ future[c] # "waiting" => future'[c] # "waiting"
    <2>1. CASE \E d \in Calls : Resolve(t, d)
      <3>1. "waiting" \notin Tabs
        BY NamesAssumption
      <3> QED
        BY <1>0, <2>1, <3>1 DEF Resolve
    <2>2. CASE Open(t) \/ Listen(t) \/ Read(t) \/ Disconnect(t) \/ Unresolved(t) \/ \E d \in Calls : Decide(t, d)
      BY <2>2 DEF Open, Listen, Read, Disconnect, Unresolved, Decide, waitVars
    <2> QED
      BY <1>3, <2>1, <2>2 DEF Tab
  <1>4. CASE Crash
    BY <1>4 DEF Crash
  <1>5. CASE UNCHANGED vars
    BY <1>5 DEF vars, waitVars
  <1> QED
    BY <1>1, <1>2, <1>3, <1>4, <1>5 DEF Next, Turn

\* A call that somebody or something is to free is due or has its timer, and
\* every wait runs out, in at most a ring and a waking once nobody is needed for
\* it (WebApprovals.decide, _bounded): what can go on for ever is the wait for a
\* person, of a call that is attended.
THEOREM WaitsRunOut == Spec => []WaitsHaveAnEnd /\ WaitsComeCloser
  <1>0. ASSUME AnswersInv, NEW c \in Calls
        PROVE  /\ gate[c] \in {"new", "parked", "over"} /\ timer[c] \in {"none", "asleep", "rung"}
               /\ gate[c] = "new" => future[c] = "waiting"
               /\ timer[c] # "none" => gate[c] = "parked"
    BY <1>0 DEF AnswersInv, WaitTypes, WaitsEnd
  <1>1. Init => TimersRun
    BY CallsAssumption DEF Init, TimersRun
  <1>2. AnswersInv /\ TimersRun /\ [Next]_vars => TimersRun'
    <2> SUFFICES ASSUME AnswersInv, TimersRun, [Next]_vars, NEW c \in Unattended, gate'[c] = "parked"
                 PROVE  timer'[c] # "none"
      BY DEF TimersRun
    <2>0. /\ c \in Calls /\ gate \in [Calls -> {"new", "parked", "over"}]
          /\ timer \in [Calls -> {"none", "asleep", "rung"}]
          /\ gate[c] = "parked" => timer[c] # "none"
      BY CallsAssumption DEF AnswersInv, WaitTypes, TimersRun
    <2>1. CASE Gate(c)
      BY <2>0, <2>1 DEF Gate
    <2>2. CASE Ring(c)
      BY <2>0, <2>2 DEF Ring
    <2>3. CASE Wake(c)
      BY <2>0, <2>3 DEF Wake
    <2> QED
      BY <2>0, <2>1, <2>2, <2>3, WaitSteps
  <1>3. AnswersInv /\ TimersRun => WaitsHaveAnEnd
    BY <1>0 DEF WaitsHaveAnEnd, TimersRun, Due
  <1>4. AnswersInv /\ [Next]_vars
          => [\A c \in Calls :
                /\ Ring(c) \/ Wake(c) => WaitLeft(c)' < WaitLeft(c)
                /\ WaitLeft(c)' <= WaitLeft(c)]_vars
    <2> SUFFICES ASSUME AnswersInv, [Next]_vars, NEW c \in Calls
                 PROVE  /\ Ring(c) \/ Wake(c) => WaitLeft(c)' < WaitLeft(c)
                        /\ WaitLeft(c)' <= WaitLeft(c)
      OBVIOUS
    <2>0. /\ gate \in [Calls -> {"new", "parked", "over"}]
          /\ timer \in [Calls -> {"none", "asleep", "rung"}]
      BY DEF AnswersInv, WaitTypes
    <2>1. WaitLeft(c) \in 0..5 /\ (gate[c] = "parked" => WaitLeft(c) \in 1..4)
      BY <1>0 DEF WaitLeft
    <2>2. CASE Gate(c)
      <3>1. gate[c] = "new" /\ gate'[c] = "parked"
        BY <2>0, <2>2 DEF Gate
      <3>2. WaitLeft(c) = 5 /\ WaitLeft(c)' \in 1..4
        BY <3>1 DEF WaitLeft
      <3> QED
        BY <3>1, <3>2 DEF Ring, Wake
    <2>3. CASE Ring(c)
      <3>1. /\ gate[c] = "parked" /\ gate'[c] = "parked" /\ timer[c] = "asleep" /\ timer'[c] = "rung"
        BY <2>0, <2>3 DEF Ring
      <3>2. WaitLeft(c)' = 1 /\ WaitLeft(c) >= 2
        BY <3>1 DEF WaitLeft, Due
      <3> QED
        BY <2>1, <3>2
    <2>4. CASE Wake(c)
      <3>1. gate[c] = "parked" /\ gate'[c] = "over"
        BY <2>0, <2>4 DEF Wake
      <3>2. WaitLeft(c)' = 0
        BY <3>1 DEF WaitLeft
      <3> QED
        BY <2>1, <3>1, <3>2
    <2>5. CASE ~Gate(c) /\ ~Ring(c) /\ ~Wake(c)
      <3>1. CASE /\ gate'[c] = gate[c] /\ timer'[c] = timer[c] /\ (c \in stopped => c \in stopped')
                 /\ future[c] # "waiting" => future'[c] # "waiting"
        <4>1. Due(c) => Due(c)'
          BY <3>1 DEF Due
        <4> QED
          BY <2>5, <3>1, <4>1 DEF WaitLeft
      <3>2. CASE gate'[c] = (IF gate[c] = "parked" THEN "over" ELSE gate[c]) /\ timer'[c] = "none"
        BY <1>0, <2>1, <2>5, <3>2 DEF WaitLeft
      <3> QED
        BY <2>5, <3>1, <3>2, WaitSteps
    <2> QED
      BY <2>2, <2>3, <2>4, <2>5
  <1> QED
    BY <1>1, <1>2, <1>3, <1>4, AnswersInvariant, PTL DEF Spec, WaitsComeCloser

(***************************************************************************)
(* The turns of a stream, and of what is before them.                      *)
(***************************************************************************)
TurnsAt(events) == {i \in DOMAIN events : events[i].kind = "turn"}

UpTo(events, i) == {j \in TurnsAt(events) : j <= i}

Nth(events, n) == {i \in TurnsAt(events) : Cardinality(UpTo(events, i)) = n}

\* The turns of a stream are as many as its events that are turns.
LEMMA TurnsByPlace ==
  ASSUME NEW events
  PROVE  /\ TurnsIn(events) = [n \in 1..Cardinality(TurnsAt(events)) |->
                                 Only({events[i].by : i \in Nth(events, n)})]
         /\ DOMAIN TurnsIn(events) = 1..Cardinality(TurnsAt(events))
         /\ \A n \in 1..Cardinality(TurnsAt(events)) :
              TurnsIn(events)[n] = Only({events[i].by : i \in Nth(events, n)})
  <1>1. TurnsIn(events) = [n \in 1..Cardinality(TurnsAt(events)) |->
                             Only({events[i].by : i \in Nth(events, n)})]
    BY DEF TurnsIn, Nth, UpTo, TurnsAt
  <1> QED
    BY <1>1

\* They are finite sets of places.
LEMMA TurnsAreFinite ==
  ASSUME NEW events \in Seq(Event), NEW i \in Nat
  PROVE  /\ TurnsAt(events) \subseteq 1..Len(events)
         /\ IsFiniteSet(TurnsAt(events)) /\ Cardinality(TurnsAt(events)) \in Nat
         /\ IsFiniteSet(UpTo(events, i)) /\ Cardinality(UpTo(events, i)) \in Nat
         /\ Cardinality(UpTo(events, i)) <= Cardinality(TurnsAt(events))
  <1>1. TurnsAt(events) \subseteq 1..Len(events) /\ UpTo(events, i) \subseteq TurnsAt(events)
    BY DEF TurnsAt, UpTo
  <1>2. IsFiniteSet(1..Len(events))
    BY FS_Interval
  <1>3. IsFiniteSet(TurnsAt(events)) /\ IsFiniteSet(UpTo(events, i))
    BY <1>1, <1>2, FS_Subset
  <1> QED
    BY <1>1, <1>3, FS_Subset, FS_CardinalityType

\* The turns of a prefix of the stream are the first turns of the stream.
LEMMA TurnsOfAPrefix ==
  ASSUME NEW events \in Seq(Event), NEW n \in 0..Len(events)
  PROVE  LET prefix == SubSeq(events, 1, n) IN
         /\ prefix \in Seq(Event)
         /\ TurnsAt(prefix) = UpTo(events, n)
         /\ Cardinality(TurnsAt(prefix)) <= Cardinality(TurnsAt(events))
         /\ \A k \in 1..Cardinality(TurnsAt(prefix)) : TurnsIn(prefix)[k] = TurnsIn(events)[k]
  <1> DEFINE prefix == SubSeq(events, 1, n)
  <1>1. prefix \in Seq(Event) /\ Len(prefix) = n /\ n \in Nat /\ \A i \in 1..n : prefix[i] = events[i]
    OBVIOUS
  <1>2. TurnsAt(prefix) = UpTo(events, n)
    BY <1>1 DEF TurnsAt, UpTo
  <1>3. /\ IsFiniteSet(TurnsAt(events)) /\ IsFiniteSet(UpTo(events, n))
        /\ Cardinality(TurnsAt(prefix)) <= Cardinality(TurnsAt(events))
        /\ Cardinality(TurnsAt(prefix)) \in Nat /\ Cardinality(TurnsAt(events)) \in Nat
    BY <1>1, <1>2, TurnsAreFinite
  <1>4. ASSUME NEW k \in 1..Cardinality(TurnsAt(prefix))
        PROVE  Nth(prefix, k) = Nth(events, k)
    <2>1. ASSUME NEW i \in TurnsAt(prefix) PROVE i \in TurnsAt(events) /\ UpTo(prefix, i) = UpTo(events, i)
      BY <1>1, <2>1 DEF TurnsAt, UpTo
    <2>2. ASSUME NEW i \in TurnsAt(events) \ TurnsAt(prefix)
          PROVE  Cardinality(UpTo(events, i)) # k
      <3>0. i \in Nat /\ i \in 1..Len(events) /\ n \in Nat
        BY <1>1 DEF TurnsAt
      <3>1. i > n
        BY <1>2, <3>0 DEF UpTo
      <3>2. UpTo(events, n) \union {i} \subseteq UpTo(events, i) /\ i \notin UpTo(events, n)
        BY <3>0, <3>1 DEF UpTo, TurnsAt
      <3>3. IsFiniteSet(UpTo(events, i)) /\ Cardinality(UpTo(events, i)) \in Nat
        BY <3>0, TurnsAreFinite
      <3>4. Cardinality(UpTo(events, n) \union {i}) = Cardinality(UpTo(events, n)) + 1
        BY <1>3, <3>2, FS_AddElement
      <3>5. Cardinality(UpTo(events, n) \union {i}) <= Cardinality(UpTo(events, i))
        BY <3>2, <3>3, FS_Subset
      <3> QED
        BY <1>2, <1>3, <3>3, <3>4, <3>5
    <2> QED
      BY <2>1, <2>2 DEF Nth
  <1>5. ASSUME NEW k \in 1..Cardinality(TurnsAt(prefix))
        PROVE  TurnsIn(prefix)[k] = TurnsIn(events)[k]
    <2>1. \A i \in Nth(prefix, k) : prefix[i].by = events[i].by
      BY <1>1 DEF Nth, TurnsAt
    <2>2. {prefix[i].by : i \in Nth(prefix, k)} = {events[i].by : i \in Nth(events, k)}
      BY <1>4, <2>1
    <2>3. k \in 1..Cardinality(TurnsAt(events))
      BY <1>3
    <2>4. TurnsIn(prefix)[k] = Only({prefix[i].by : i \in Nth(prefix, k)})
      BY TurnsByPlace
    <2>5. TurnsIn(events)[k] = Only({events[i].by : i \in Nth(events, k)})
      BY <2>3, TurnsByPlace
    <2> QED
      BY <2>2, <2>4, <2>5
  <1> QED
    BY <1>1, <1>2, <1>3, <1>5

\* An event that is no turn adds none; a turn is the last one.
LEMMA TurnsOfAnAppend ==
  ASSUME NEW events \in Seq(Event), NEW e \in Event, TurnsIn(events) \in Seq(Replies),
         e.kind = "turn" => e.by \in Replies
  PROVE  /\ Append(events, e) \in Seq(Event)
         /\ TurnsIn(Append(events, e)) = IF e.kind = "turn" THEN Append(TurnsIn(events), e.by)
                                                            ELSE TurnsIn(events)
  <1> DEFINE all == Append(events, e)
             last == Len(events) + 1
             c == Cardinality(TurnsAt(events))
  <1>1. /\ all \in Seq(Event) /\ Len(all) = last /\ last \in Nat /\ Len(events) \in 0..Len(all)
        /\ all[last] = e /\ \A i \in 1..Len(events) : all[i] = events[i]
        /\ SubSeq(all, 1, Len(events)) = events
    OBVIOUS
  <1>2. /\ TurnsAt(events) = UpTo(all, Len(events)) /\ c <= Cardinality(TurnsAt(all))
        /\ \A k \in 1..c : TurnsIn(events)[k] = TurnsIn(all)[k]
    BY <1>1, TurnsOfAPrefix
  <1>3. c \in Nat /\ IsFiniteSet(TurnsAt(events)) /\ Cardinality(TurnsAt(all)) \in Nat
        /\ TurnsAt(events) \subseteq 1..Len(events)
    BY <1>1, TurnsAreFinite
  <1>4. TurnsAt(all) = IF e.kind = "turn" THEN TurnsAt(events) \union {last} ELSE TurnsAt(events)
    BY <1>1 DEF TurnsAt
  <1>5. DOMAIN TurnsIn(events) = 1..c /\ Len(TurnsIn(events)) = c
    <2>1. DOMAIN TurnsIn(events) = 1..c
      BY TurnsByPlace
    <2> QED
      BY <1>3, <2>1
  <1>6. CASE e.kind # "turn"
    <2>1. DOMAIN TurnsIn(all) = 1..c
      BY <1>4, <1>6, TurnsByPlace
    <2>2. \A k \in 1..c : TurnsIn(all)[k] = TurnsIn(events)[k]
      BY <1>2
    <2>3. TurnsIn(all) = [k \in 1..c |-> TurnsIn(all)[k]]
      <3>1. Cardinality(TurnsAt(all)) = c
        BY <1>4, <1>6
      <3> QED
        BY <2>1, <3>1, TurnsByPlace
    <2>4. TurnsIn(events) = [k \in 1..c |-> TurnsIn(events)[k]]
      BY <1>5
    <2> QED
      BY <1>1, <1>6, <2>2, <2>3, <2>4
  <1>7. CASE e.kind = "turn"
    <2>1. Cardinality(TurnsAt(all)) = c + 1
      <3>1. last \notin TurnsAt(events)
        BY <1>1, <1>3
      <3> QED
        BY <1>3, <1>4, <1>7, <3>1, FS_AddElement
    <2>2. Nth(all, c + 1) = {last}
      <3>1. last \in TurnsAt(all) /\ UpTo(all, last) = TurnsAt(all)
        BY <1>1, <1>3, <1>4, <1>7 DEF UpTo
      <3>2. ASSUME NEW i \in TurnsAt(events) PROVE Cardinality(UpTo(all, i)) # c + 1
        <4>1. i \in Nat /\ i <= Len(events)
          BY <1>3
        <4>2. UpTo(all, i) \subseteq TurnsAt(events)
          BY <1>1, <1>3, <1>4, <1>7, <4>1 DEF UpTo
        <4>3. Cardinality(UpTo(all, i)) <= c /\ Cardinality(UpTo(all, i)) \in Nat
          BY <1>1, <1>3, <4>1, <4>2, FS_Subset, TurnsAreFinite
        <4> QED
          BY <1>3, <4>3
      <3> QED
        BY <1>4, <1>7, <2>1, <3>1, <3>2 DEF Nth
    <2>3. TurnsIn(all)[c + 1] = e.by
      <3>1. {all[i].by : i \in Nth(all, c + 1)} = {e.by}
        BY <1>1, <2>2
      <3>2. Only({e.by}) = e.by
        BY DEF Only
      <3>3. c + 1 \in 1..Cardinality(TurnsAt(all))
        BY <1>3, <2>1
      <3> QED
        BY <3>1, <3>2, <3>3, TurnsByPlace
    <2>4. DOMAIN TurnsIn(all) = 1..(c + 1)
      BY <2>1, TurnsByPlace
    <2>5. TurnsIn(all) = [k \in 1..(c + 1) |-> TurnsIn(all)[k]]
      BY <2>1, <2>4, TurnsByPlace
    <2>6. Append(TurnsIn(events), e.by) = [k \in 1..(c + 1) |-> IF k = c + 1 THEN e.by ELSE TurnsIn(events)[k]]
      <3>1. Len(Append(TurnsIn(events), e.by)) = c + 1
            /\ \A k \in 1..(c + 1) : Append(TurnsIn(events), e.by)[k] =
                 IF k = c + 1 THEN e.by ELSE TurnsIn(events)[k]
        BY <1>3, <1>5, <1>7
      <3>2. Append(TurnsIn(events), e.by) = [k \in 1..(c + 1) |-> Append(TurnsIn(events), e.by)[k]]
        BY <1>3, <1>5, <1>7, <3>1
      <3> QED
        BY <3>1, <3>2
    <2>7. \A k \in 1..(c + 1) : TurnsIn(all)[k] = IF k = c + 1 THEN e.by ELSE TurnsIn(events)[k]
      BY <1>2, <1>3, <2>3
    <2> QED
      BY <1>1, <1>7, <2>5, <2>6, <2>7
  <1> QED
    BY <1>6, <1>7

\* What is in the order of some turns, and has none of them twice but those in again.
OrderIn(h, turns, again) ==
  /\ \A i \in DOMAIN h : \E k \in DOMAIN turns : turns[k] = h[i]
  /\ \A i, j \in DOMAIN h : \A k, l \in DOMAIN turns :
       i < j /\ turns[k] = h[i] /\ turns[l] = h[j] => k < l \/ (k = l /\ h[i] \in again)

Once(turns) == \A k, l \in DOMAIN turns : turns[k] = turns[l] => k = l

\* What was in order is, with one more turn.
LEMMA OrderGrows ==
  ASSUME NEW h \in Seq(Replies), NEW turns \in Seq(Replies), NEW again, OrderIn(h, turns, again), NEW r \in Replies,
         \A k \in DOMAIN turns : turns[k] # r
  PROVE  OrderIn(h, Append(turns, r), again)
  <1>1. /\ DOMAIN Append(turns, r) = 1..(Len(turns) + 1) /\ DOMAIN turns = 1..Len(turns)
        /\ \A k \in DOMAIN turns : Append(turns, r)[k] = turns[k]
        /\ Append(turns, r)[Len(turns) + 1] = r /\ Len(turns) \in Nat /\ DOMAIN h \subseteq Nat
    OBVIOUS
  <1>2. \A i \in DOMAIN h : h[i] # r
    BY DEF OrderIn
  <1>3. \A i \in DOMAIN h : \A k \in DOMAIN Append(turns, r) :
          Append(turns, r)[k] = h[i] => k \in DOMAIN turns /\ turns[k] = h[i]
    BY <1>1, <1>2
  <1>4. \A i \in DOMAIN h : \E k \in DOMAIN Append(turns, r) : Append(turns, r)[k] = h[i]
    BY <1>1 DEF OrderIn
  <1>5. \A i, j \in DOMAIN h : \A k, l \in DOMAIN Append(turns, r) :
          i < j /\ Append(turns, r)[k] = h[i] /\ Append(turns, r)[l] = h[j]
            => k < l \/ (k = l /\ h[i] \in again)
    BY <1>3 DEF OrderIn
  <1> QED
    BY <1>4, <1>5 DEF OrderIn

\* A turn may follow what comes before it, or what it comes again after.
LEMMA OrderExtends ==
  ASSUME NEW h \in Seq(Replies), NEW turns \in Seq(Replies), NEW again, OrderIn(h, turns, again),
         NEW n \in 0..Len(h), NEW r \in Replies, NEW m \in DOMAIN turns, turns[m] = r, Once(turns),
         \A i \in 1..n : \A k \in DOMAIN turns : turns[k] = h[i] => k < m \/ (k = m /\ r \in again)
  PROVE  OrderIn(Append(SubSeq(h, 1, n), r), turns, again)
  <1> DEFINE all == Append(SubSeq(h, 1, n), r)
  <1>1. /\ DOMAIN all = 1..(n + 1) /\ DOMAIN h = 1..Len(h) /\ n \in Nat /\ 1..n \subseteq DOMAIN h
        /\ \A i \in 1..n : all[i] = h[i]
        /\ all[n + 1] = r
    OBVIOUS
  <1> HIDE DEF all
  <1>2. \A i \in DOMAIN all : \E k \in DOMAIN turns : turns[k] = all[i]
    BY <1>1 DEF OrderIn
  <1>3. ASSUME NEW i \in DOMAIN all, NEW j \in DOMAIN all, NEW k \in DOMAIN turns, NEW l \in DOMAIN turns,
               i < j, turns[k] = all[i], turns[l] = all[j]
        PROVE  k < l \/ (k = l /\ all[i] \in again)
    <2>1. i \in 1..n /\ all[i] = h[i]
      BY <1>1, <1>3
    <2>2. CASE j \in 1..n
      BY <1>1, <1>3, <2>1, <2>2 DEF OrderIn
    <2>3. CASE j = n + 1
      <3>1. l = m
        BY <1>1, <1>3, <2>3 DEF Once
      <3> QED
        BY <1>3, <2>1, <3>1
    <2> QED
      BY <1>1, <2>2, <2>3
  <1> QED
    BY <1>2, <1>3 DEF OrderIn, all

\* The last turn may follow what was in order.
LEMMA OrderEndsWithTheLast ==
  ASSUME NEW h \in Seq(Replies), NEW turns \in Seq(Replies), NEW again, OrderIn(h, turns, again), Once(turns),
         NEW r \in Replies, turns # <<>>, turns[Len(turns)] = r, \A i \in DOMAIN h : h[i] # r
  PROVE  OrderIn(Append(h, r), turns, again)
  <1>1. /\ DOMAIN h = 1..Len(h) /\ DOMAIN turns = 1..Len(turns) /\ Len(turns) \in DOMAIN turns
        /\ Len(h) \in 0..Len(h) /\ Len(turns) \in Nat
    OBVIOUS
  <1>2. \A i \in 1..Len(h) : \A k \in DOMAIN turns : turns[k] = h[i] => k < Len(turns)
    BY <1>1
  <1>3. OrderIn(Append(SubSeq(h, 1, Len(h)), r), turns, again)
    BY <1>1, <1>2, OrderExtends
  <1>4. SubSeq(h, 1, Len(h)) = h
    BY SubSeqFull
  <1> QED
    BY <1>3, <1>4

(***************************************************************************)
(* SocraticDialogue: the strengthening.                                    *)
(***************************************************************************)
BeforeSave == {"new", "row", "turns", "opened", "asking", "loading", "saving"}

\* The stream: what a worker writes is new to it, and nothing follows a conclusion.
StreamIsOne ==
  /\ log # <<>>
  /\ \A i \in DOMAIN log :
       /\ log[i].kind = "started" <=> i = 1
       /\ log[i].kind = "concluded" => i = Len(log)
       /\ log[i].kind = "turn" => log[i].by \in Replies
       /\ \A w \in Workers : pc[w] \in BeforeSave => log[i].by # w
       /\ \A w \in Workers : pc[w] = "saving" /\ i <= base[w] => log[i].kind # "concluded"
       /\ \A j \in DOMAIN log : log[i] = log[j] => i = j
  /\ \A a \in Attempts : pc[a] = "scoring" \/ a \in progress =>
       \E i \in DOMAIN log : log[i] = [kind |-> "observed", by |-> a]

\* Its turns: each reply once, the one that holds the slot and has saved being the last.
TurnsAreOne ==
  /\ TurnsIn(log) \in Seq(Replies)
  /\ Once(TurnsIn(log))
  /\ \A r \in Replies :
       /\ pc[r] \in BeforeSave => \A k \in DOMAIN TurnsIn(log) : TurnsIn(log)[k] # r
       /\ pc[r] \in {"saved", "told"} =>
            TurnsIn(log) # <<>> /\ TurnsIn(log)[Len(TurnsIn(log))] = r
       /\ r \in answered => pc[r] \in {"told", "over"} /\ \E k \in DOMAIN TurnsIn(log) : TurnsIn(log)[k] = r
       /\ pc[r] \in Busy <=> slot = r

\* What is cached, and what a reply is asked with, is on the stream and in its order.
HistoriesInOrder ==
  /\ cache # None => OrderIn(cache, TurnsIn(log), twice)
  /\ \A r \in Replies : OrderIn(history[r], TurnsIn(log), twice) /\ \A i \in DOMAIN history[r] : history[r][i] # r

\* The entry is the turns of the stream, less the one that is being told, unless a
\* reader left it behind; and so is what a reply is asked with, which is not excused.
EntryFollows ==
  /\ cache # None /\ ~stale =>
       IF \E r \in Replies : pc[r] = "saved"
         THEN \A r \in Replies : pc[r] = "saved" => TurnsIn(log) = Append(cache, r)
         ELSE TurnsIn(log) = cache
  /\ \A r \in Replies \ excused :
       /\ pc[r] \in {"opened", "asking", "loading", "saving"} => TurnsIn(log) = history[r]
       /\ pc[r] = "saved" => TurnsIn(log) = Append(history[r], r)
       /\ r \in answered => /\ Len(history[r]) + 1 \in DOMAIN TurnsIn(log)
                            /\ TurnsIn(log)[Len(history[r]) + 1] = r

\* The first n of the turns the table was given were neither missed nor given twice.
Spared(had, n, again, lost) == \A k \in 1..n : had[k] \notin again \union lost

\* The rows, n of them counted, follow the turns the table was given: each is of one of
\* them or of the one that comes, a turn that was not missed is counted, and up to the
\* first that was missed or given twice the rows are those turns, in their places.
Follows(rows, n, had, coming, again, lost) ==
  /\ \A i \in DOMAIN rows : \/ \E k \in DOMAIN had : had[k] = rows[i]
                            \/ rows[i] \in coming /\ (i <= n => rows[i] \in again)
  /\ Spared(had, Len(had), again, lost) /\ again \intersect coming = {} => n = Len(had)
  /\ \A k \in DOMAIN had : Spared(had, k, again, lost) => k <= n /\ rows[k] = had[k]
  /\ \A k \in DOMAIN had : had[k] \in lost \/ \E i \in 1..n : rows[i] = had[k]

\* The turns the table was given, and the one it is to be given next.
Given == IF handling = "handled" THEN seen + 1 ELSE seen

Had == TurnsIn(SubSeq(log, 1, Given))

Coming ==
  IF handling # "handled" /\ seen < Len(log) /\ log[seen + 1].kind = "turn" THEN {log[seen + 1].by} ELSE {}

\* The table follows the stream, between any two saves of the projection.
RowsFollow ==
  /\ handling # "due" => seen < Len(log)
  /\ handling = "stored" => Len(stored) = count + 1 /\ Coming = {stored[count + 1]}
  /\ OrderIn(stored, TurnsIn(log), twice)
  /\ Follows(stored, count, Had, Coming, twice, missed)

DialogueIInv ==
  DialogueTypes /\ StreamIsOne /\ TurnsAreOne /\ HistoriesInOrder /\ EntryFollows /\ RowsFollow

(***************************************************************************)
(* What the steps do to the stream.                                        *)
(***************************************************************************)
\* The types that the steps are read with.
LEMMA DialogueTyped ==
  ASSUME DialogueTypes
  PROVE  /\ log \in Seq(Event) /\ seen \in 0..Len(log) /\ (cache = None \/ cache \in Seq(Replies))
         /\ slot \in Replies \union {None} /\ history \in [Replies -> Seq(Replies)]
         /\ pc \in [Workers -> {"new", "over", "scoring", "forgetting"} \union Busy]
         /\ base \in [Workers -> 0..Len(log)] /\ None \notin Workers
         /\ Replies \subseteq Workers /\ Attempts \subseteq Workers /\ Enders \subseteq Workers
         /\ \A w \in Attempts \union Enders : w \notin Replies
         /\ progress \subseteq Attempts /\ answered \subseteq Replies /\ excused \subseteq Replies
         /\ stale \in BOOLEAN
         /\ handling \in {"due", "stored", "handled"} /\ stored \in Seq(Replies) /\ count \in Nat
         /\ Len(stored) \in {count, count + 1} /\ twice \subseteq Replies /\ missed \subseteq Replies
  BY WorkersAssumption DEF DialogueTypes, Workers

\* A step of a reply that writes nothing: it is turned away, let in, goes on or leaves.
LEMMA QuietReply ==
  ASSUME DialogueTypes, NEW r \in Replies, Reply(r) \/ Abandon(r), ~SaveReply(r), ~Remember(r)
  PROVE  /\ UNCHANGED <<log, cache, answered, progress>>
         /\ \A w \in Workers \ {r} : pc'[w] = pc[w] /\ base'[w] = base[w]
         /\ \/ pc[r] = "new" /\ slot # None /\ pc'[r] = "over" /\ slot' = slot
            \/ pc[r] = "new" /\ slot = None /\ pc'[r] \in {"row", "opened"} /\ slot' = r
            \/ pc[r] \in Busy /\ pc'[r] = "over" /\ slot' = None
            \/ /\ pc[r] \in Busy \intersect BeforeSave /\ pc'[r] \in Busy \intersect BeforeSave
               /\ slot' = slot
               /\ pc'[r] = "saving" => pc[r] = "loading" /\ ~Concluded(log)
  <1>a. /\ pc \in [Workers -> {"new", "over", "scoring", "forgetting"} \union Busy]
        /\ base \in [Workers -> 0..Len(log)] /\ r \in Workers
    BY DialogueTyped
  <1>1. CASE Respond(r)
    BY <1>a, <1>1 DEF Respond, Go, shown
  <1>2. CASE ReadRow(r) \/ ReadTurns(r) \/ Ask(r) \/ ModelAnswers(r) \/ LoseReply(r) \/ Finish(r)
    BY <1>a, <1>2 DEF ReadRow, ReadTurns, Ask, ModelAnswers, LoseReply, Finish, Leave, Go, shown, Busy, BeforeSave
  <1>3. CASE LoadReply(r)
    BY <1>a, <1>3 DEF LoadReply, Leave, Go, shown, Busy, BeforeSave
  <1>4. CASE Fail(r) \/ Abandon(r)
    BY <1>a, <1>4 DEF Fail, Abandon, Leave, Go, shown, Busy
  <1> QED
    BY <1>1, <1>2, <1>3, <1>4 DEF Reply

\* A step of an attempt or of an end that writes nothing to the stream.
LEMMA QuietOther ==
  ASSUME DialogueTypes, NEW w \in Attempts \union Enders,
         (w \in Attempts /\ Attempt(w) /\ ~Observe(w)) \/ (w \in Enders /\ End(w) /\ ~Conclude(w))
  PROVE  /\ UNCHANGED <<log, slot, history, answered, excused>>
         /\ \A v \in Workers \ {w} : pc'[v] = pc[v] /\ base'[v] = base[v]
         /\ pc'[w] \in {"loading", "saving", "over"}
         /\ pc'[w] \in BeforeSave => pc[w] \in BeforeSave
         /\ pc'[w] = "saving" => ~Concluded(log)
         /\ progress' = progress \/ (progress' = progress \union {w} /\ pc[w] = "scoring")
         /\ (cache' = cache /\ stale' = stale) \/ cache' = None
  <1>a. /\ pc \in [Workers -> {"new", "over", "scoring", "forgetting"} \union Busy]
        /\ base \in [Workers -> 0..Len(log)] /\ w \in Workers
    BY DialogueTyped
  <1>1. CASE w \in Attempts /\ Attempt(w) /\ ~Observe(w)
    BY <1>a, <1>1 DEF Attempt, BeginAttempt, LoadAttempt, Score, FailAttempt, Load, Lose, Go, shown, why, BeforeSave
  <1>2. CASE w \in Enders /\ End(w) /\ ~Conclude(w)
    BY <1>a, <1>2 DEF End, BeginEnd, LoadEnd, FailEnd, Forget, Load, Lose, Go, shown, why, BeforeSave
  <1> QED
    BY <1>1, <1>2

\* A save: the one who writes knows the whole stream.
Writes(w, events) ==
  /\ pc[w] = "saving" /\ base[w] = Len(log) /\ UNCHANGED <<base, progress, answered, slot, cache, history, why>>
  /\ log' = log \o events /\ pc'[w] \notin BeforeSave
  /\ \A v \in Workers \ {w} : pc'[v] = pc[v]

\* A turn, and the conclusion it may come with.
Told(r, met) == <<[kind |-> "turn", by |-> r]>> \o (IF met THEN <<[kind |-> "concluded", by |-> r]>> ELSE <<>>)

\* Each save writes what it is for.
LEMMA Saves ==
  ASSUME DialogueTypes
  PROVE  /\ \A r \in Replies : SaveReply(r) =>
              pc'[r] = "saved" /\ \E met \in BOOLEAN : Writes(r, Told(r, met))
         /\ \A a \in Attempts : Observe(a) =>
              pc'[a] = "scoring" /\ Writes(a, <<[kind |-> "observed", by |-> a]>>)
         /\ \A e \in Enders : Conclude(e) =>
              pc'[e] = "forgetting" /\ Writes(e, <<[kind |-> "concluded", by |-> e]>>)
  <1>a. /\ pc \in [Workers -> {"new", "over", "scoring", "forgetting"} \union Busy] /\ log \in Seq(Event)
        /\ Replies \subseteq Workers /\ Attempts \subseteq Workers /\ Enders \subseteq Workers
    BY DialogueTyped
  <1>1. ASSUME NEW r \in Replies, SaveReply(r)
        PROVE  pc'[r] = "saved" /\ \E met \in BOOLEAN : Writes(r, Told(r, met))
    <2>1. PICK met \in BOOLEAN :
            log' = log \o <<[kind |-> "turn", by |-> r]>>
                       \o (IF met THEN <<[kind |-> "concluded", by |-> r]>> ELSE <<>>)
      BY <1>1 DEF SaveReply
    <2>2. log' = log \o Told(r, met)
      <3>1. [kind |-> "turn", by |-> r] \in Event /\ [kind |-> "concluded", by |-> r] \in Event
        BY <1>a DEF Event
      <3>2. CASE met
        BY <1>a, <2>1, <3>1, <3>2 DEF Told
      <3>3. CASE ~met
        BY <1>a, <2>1, <3>1, <3>3 DEF Told
      <3> QED
        BY <3>2, <3>3
    <2>3. pc'[r] = "saved" /\ pc[r] = "saving" /\ base[r] = Len(log)
          /\ UNCHANGED <<base, progress, answered, slot, cache, history, why>>
          /\ \A v \in Workers \ {r} : pc'[v] = pc[v]
      BY <1>a, <1>1 DEF SaveReply, Current, Go, shown
    <2> QED
      BY <2>2, <2>3 DEF Writes, BeforeSave
  <1>2. ASSUME NEW a \in Attempts, Observe(a)
        PROVE  pc'[a] = "scoring" /\ Writes(a, <<[kind |-> "observed", by |-> a]>>)
    <2>1. log' = log \o <<[kind |-> "observed", by |-> a]>>
      <3>1. [kind |-> "observed", by |-> a] \in Event
        BY <1>a DEF Event
      <3> QED
        BY <1>a, <1>2, <3>1 DEF Observe
    <2> QED
      BY <1>a, <1>2, <2>1 DEF Observe, Current, Go, shown, Writes, BeforeSave
  <1>3. ASSUME NEW e \in Enders, Conclude(e)
        PROVE  pc'[e] = "forgetting" /\ Writes(e, <<[kind |-> "concluded", by |-> e]>>)
    <2>1. log' = log \o <<[kind |-> "concluded", by |-> e]>>
      <3>1. [kind |-> "concluded", by |-> e] \in Event
        BY <1>a DEF Event
      <3> QED
        BY <1>a, <1>3, <3>1 DEF Conclude
    <2> QED
      BY <1>a, <1>3, <2>1 DEF Conclude, Current, Go, shown, Writes, BeforeSave
  <1> QED
    BY <1>1, <1>2, <1>3

\* A step writes to the stream or leaves it; and the workers go on from where they are.
LEMMA DialogueSteps ==
  ASSUME DialogueTypes, [DialogueNext]_dialogueVars
  PROVE  \/ \E r \in Replies : Reply(r) \/ Abandon(r)
         \/ \E a \in Attempts : Attempt(a)
         \/ \E e \in Enders : End(e)
         \/ /\ UNCHANGED <<log, slot, pc, history, base, shown, excused>>
            /\ (cache' = cache /\ stale' = stale) \/ cache' = None
         \/ /\ UNCHANGED <<log, history, base, shown, excused>> /\ cache' = None /\ slot' = None
            /\ \A w \in Workers : pc'[w] = IF pc[w] = "new" THEN "new" ELSE "over"
  BY DEF DialogueNext, dialogueVars, Evict, Restart, why, Project, StartRow, DropTurn, StoreTurn, CountTurn, HandleNote,
         FileEvent, SaveCheckpoint, ServiceStays

(***************************************************************************)
(* The strengthening is inductive.                                         *)
(***************************************************************************)
\* A step that writes nothing leaves the stream what it was.
LEMMA StreamUnwritten ==
  ASSUME DialogueTypes, StreamIsOne, log' = log,
         \A w \in Workers :
           /\ pc'[w] \in BeforeSave => pc[w] \in BeforeSave
           /\ pc'[w] = "saving" => (pc[w] = "saving" /\ base'[w] = base[w]) \/ ~Concluded(log),
         \A a \in Attempts : pc'[a] = "scoring" \/ a \in progress' => pc[a] = "scoring" \/ a \in progress
  PROVE  StreamIsOne'
  <1>1. \A i \in DOMAIN log : \A w \in Workers :
          /\ pc'[w] \in BeforeSave => log[i].by # w
          /\ pc'[w] = "saving" /\ i <= base'[w] => log[i].kind # "concluded"
    BY DEF StreamIsOne, Concluded
  <1> QED
    BY <1>1 DEF StreamIsOne

\* What is a worker's own, each of them once, a conclusion being the last of them.
OwnEvents(w, events) ==
  /\ events \in Seq(Event)
  /\ \A i \in DOMAIN events :
       /\ events[i].by = w /\ events[i].kind # "started"
       /\ events[i].kind = "turn" => w \in Replies
       /\ events[i].kind = "concluded" => i = Len(events)
       /\ \A j \in DOMAIN events : events[i] = events[j] => i = j

\* A step that writes adds what is new, to a stream that is open.
LEMMA StreamWritten ==
  ASSUME DialogueTypes, StreamIsOne, NEW w \in Workers, NEW events, OwnEvents(w, events), Writes(w, events),
         pc'[w] = "scoring" => \E i \in DOMAIN events : events[i] = [kind |-> "observed", by |-> w]
  PROVE  StreamIsOne'
  <1> DEFINE n == Len(log)
  <1> USE DEF OwnEvents
  <1>1. /\ log \in Seq(Event) /\ n \in Nat \ {0} /\ Len(log') = n + Len(events) /\ Len(events) \in Nat
        /\ DOMAIN log = 1..n /\ DOMAIN events = 1..Len(events) /\ DOMAIN log' = 1..(n + Len(events))
        /\ \A i \in 1..n : log'[i] = log[i]
        /\ \A i \in 1..Len(events) : log'[n + i] = events[i]
        /\ log' # <<>>
    BY DialogueTyped DEF Writes, StreamIsOne
  <1>2. \A i \in DOMAIN log' \ DOMAIN log : i - n \in DOMAIN events /\ log'[i] = events[i - n] /\ i = n + (i - n)
    BY <1>1
  <1>3. \A i \in DOMAIN log : log[i].kind # "concluded" /\ log[i].by # w
    BY <1>1 DEF StreamIsOne, Writes, BeforeSave
  <1>4. \A i \in DOMAIN log' \ DOMAIN log : /\ log'[i].by = w /\ log'[i].kind # "started" /\ i # 1
                                            /\ log'[i].kind = "concluded" => i = Len(log')
                                            /\ log'[i].kind = "turn" => w \in Replies
    <2> SUFFICES ASSUME NEW i \in DOMAIN log' \ DOMAIN log
                 PROVE  /\ log'[i].by = w /\ log'[i].kind # "started" /\ i # 1
                        /\ log'[i].kind = "concluded" => i = Len(log')
                        /\ log'[i].kind = "turn" => w \in Replies
      OBVIOUS
    <2>1. i - n \in DOMAIN events /\ log'[i] = events[i - n] /\ i = n + (i - n)
      BY <1>2
    <2>2. log'[i].kind = "concluded" => i - n = Len(events)
      BY <2>1
    <2>3. log'[i].by = w /\ log'[i].kind # "started" /\ (log'[i].kind = "turn" => w \in Replies)
      BY <2>1
    <2>4. i # 1 /\ (i - n = Len(events) => i = Len(log'))
      <3>1. n \in Nat \ {0} /\ i - n \in 1..Len(events) /\ i \in Int /\ Len(log') = n + Len(events)
        BY <1>1, <2>1
      <3> HIDE DEF n
      <3> QED
        BY <3>1
    <2> QED
      BY <2>2, <2>3, <2>4
  <1>5. ASSUME NEW i \in DOMAIN log'
        PROVE  /\ log'[i].kind = "started" <=> i = 1
               /\ log'[i].kind = "concluded" => i = Len(log')
               /\ log'[i].kind = "turn" => log'[i].by \in Replies
    BY <1>1, <1>3, <1>4 DEF StreamIsOne
  <1>6. ASSUME NEW i \in DOMAIN log', NEW j \in DOMAIN log', log'[i] = log'[j]
        PROVE  i = j
    <2>1. CASE i \in DOMAIN log /\ j \in DOMAIN log
      BY <1>1, <1>6, <2>1 DEF StreamIsOne
    <2>2. CASE i \notin DOMAIN log /\ j \notin DOMAIN log
      <3>1. i - n = j - n
        BY <1>2, <1>6, <2>2
      <3> QED
        BY <1>1, <1>2, <2>2, <3>1
    <2>3. CASE i \in DOMAIN log <=> j \notin DOMAIN log
      BY <1>1, <1>3, <1>4, <1>6, <2>3
    <2> QED
      BY <2>1, <2>2, <2>3
  <1>7. ASSUME NEW i \in DOMAIN log', NEW v \in Workers, pc'[v] \in BeforeSave
        PROVE  /\ log'[i].by # v
               /\ pc'[v] = "saving" /\ i <= base'[v] => log'[i].kind # "concluded"
    <2>1. v # w /\ pc[v] = pc'[v] /\ base'[v] = base[v] /\ base[v] \in 0..n
      BY <1>7, DialogueTyped DEF Writes
    <2>2. CASE i \in DOMAIN log
      BY <1>1, <1>7, <2>1, <2>2 DEF StreamIsOne
    <2>3. CASE i \notin DOMAIN log
      BY <1>1, <1>4, <1>7, <2>1, <2>3
    <2> QED
      BY <2>2, <2>3
  <1>8. ASSUME NEW a \in Attempts, pc'[a] = "scoring" \/ a \in progress'
        PROVE  \E i \in DOMAIN log' : log'[i] = [kind |-> "observed", by |-> a]
    <2>0. a \in Workers /\ progress' = progress
      BY DialogueTyped DEF Writes
    <2>1. CASE a = w /\ pc'[a] = "scoring"
      <3>1. PICK i \in DOMAIN events : events[i] = [kind |-> "observed", by |-> w]
        BY <2>1
      <3>2. i \in 1..Len(events) /\ n + i \in DOMAIN log'
        BY <1>1, <3>1
      <3>3. log'[n + i] = [kind |-> "observed", by |-> a]
        BY <1>1, <2>1, <3>1, <3>2
      <3> QED
        BY <3>2, <3>3
    <2>2. CASE pc[a] = "scoring" \/ a \in progress
      BY <1>1, <2>2 DEF StreamIsOne
    <2>3. a # w => pc'[a] = pc[a]
      BY <2>0, DialogueTyped DEF Writes
    <2> QED
      BY <1>8, <2>0, <2>1, <2>2, <2>3
  <1> QED
    BY <1>1, <1>5, <1>6, <1>7, <1>8 DEF StreamIsOne, BeforeSave

\* What a reply writes is its own.
LEMMA ToldIsOwn ==
  ASSUME NEW w \in Replies, NEW met \in BOOLEAN
  PROVE  OwnEvents(w, Told(w, met))
  <1> DEFINE a == [kind |-> "turn", by |-> w]
             events == Told(w, met)
             c == [kind |-> "concluded", by |-> w]
  <1>1. a \in Event /\ c \in Event
    BY DEF Event, Workers
  <1>2. a.kind = "turn" /\ a.by = w /\ c.kind = "concluded" /\ c.by = w /\ a.kind # "started" /\ c.kind # "started"
        /\ (met => a # c /\ a.kind # "concluded")
    OBVIOUS
  <1>3. events = <<a>> \o (IF met THEN <<c>> ELSE <<>>)
    BY DEF Told
  <1> HIDE DEF a, c, events
  <1> SUFFICES OwnEvents(w, events)
    BY DEF events
  <1> USE DEF OwnEvents
  <1>4. CASE met
    <2>1. events = <<a>> \o <<c>>
      BY <1>3, <1>4
    <2>2. /\ events \in Seq(Event) /\ Len(events) = 2
          /\ events[1] = a /\ events[2] = c
      BY <1>1, <2>1
    <2>3. DOMAIN events = 1..Len(events) /\ 1..2 = {1, 2}
      BY <2>2
    <2> QED
      BY <1>2, <1>4, <2>2, <2>3 DEF a, c
  <1>5. CASE ~met
    <2>1. events = <<a>>
      <3>1. events = <<a>> \o <<>>
        BY <1>3, <1>5
      <3>2. <<a>> \in Seq(Event)
        BY <1>1
      <3> QED
        BY <3>1, <3>2, ConcatEmptySeq
    <2>2. events \in Seq(Event) /\ Len(events) = 1 /\ events[1] = a
      <3>1. \A e \in Event : <<e>> \in Seq(Event) /\ Len(<<e>>) = 1 /\ <<e>>[1] = e
        OBVIOUS
      <3> QED
        BY <1>1, <2>1, <3>1
    <2>3. DOMAIN events = 1..Len(events) /\ 1..1 = {1}
      BY <2>2
    <2> QED
      BY <1>2, <1>5, <2>2, <2>3 DEF a
  <1> QED
    BY <1>4, <1>5

\* The stream starts once, and each worker's events are on it once.
LEMMA DialogueStreamStays == DialogueIInv /\ [DialogueNext]_dialogueVars => StreamIsOne'
  <1> SUFFICES ASSUME DialogueIInv, [DialogueNext]_dialogueVars PROVE StreamIsOne'
    OBVIOUS
  <1>0. DialogueTypes /\ StreamIsOne
    BY DEF DialogueIInv
  <1>a. Replies \subseteq Workers /\ Attempts \subseteq Workers /\ Enders \subseteq Workers
        /\ \A w \in Attempts \union Enders : w \notin Replies
    BY <1>0, DialogueTyped
  <1>1. ASSUME NEW r \in Replies, Reply(r) \/ Abandon(r) PROVE StreamIsOne'
    <2>1. CASE SaveReply(r)
      <3>1. PICK met \in BOOLEAN : Writes(r, Told(r, met))
        BY <1>0, <2>1, Saves
      <3>2. pc'[r] # "scoring"
        BY <1>0, <2>1, Saves
      <3>3. OwnEvents(r, Told(r, met))
        BY <1>a, ToldIsOwn
      <3> QED
        BY <1>0, <1>a, <3>1, <3>2, <3>3, StreamWritten
    <2>2. CASE Remember(r)
      BY <1>0, <1>a, <2>2, DialogueTyped, StreamUnwritten DEF Remember, Go, BeforeSave
    <2>3. CASE ~SaveReply(r) /\ ~Remember(r)
      <3>1. /\ log' = log /\ progress' = progress
            /\ \A w \in Workers \ {r} : pc'[w] = pc[w] /\ base'[w] = base[w]
            /\ pc'[r] \in BeforeSave => pc[r] \in BeforeSave
            /\ pc'[r] = "saving" => ~Concluded(log)
        BY <1>0, <1>1, <2>3, QuietReply DEF BeforeSave
      <3> QED
        BY <1>0, <1>a, <3>1, StreamUnwritten
    <2> QED
      BY <2>1, <2>2, <2>3
  <1>2. ASSUME NEW w \in Attempts \union Enders, (Observe(w) /\ w \in Attempts) \/ (Conclude(w) /\ w \in Enders)
        PROVE  StreamIsOne'
    <2>1. PICK k \in {"observed", "concluded"} :
            Writes(w, <<[kind |-> k, by |-> w]>>) /\ (pc'[w] = "scoring" => k = "observed")
      BY <1>0, <1>2, Saves
    <2> DEFINE events == <<[kind |-> k, by |-> w]>>
    <2>2. OwnEvents(w, events) /\ 1 \in DOMAIN events /\ events[1] = [kind |-> k, by |-> w]
      BY <1>a DEF Event, OwnEvents
    <2>3. Writes(w, events)
      BY <2>1
    <2> HIDE DEF events
    <2> QED
      BY <1>0, <1>a, <2>1, <2>2, <2>3, StreamWritten
  <1>3. ASSUME NEW w \in Attempts \union Enders,
               (w \in Attempts /\ Attempt(w) /\ ~Observe(w)) \/ (w \in Enders /\ End(w) /\ ~Conclude(w))
        PROVE  StreamIsOne'
    <2>1. /\ log' = log
          /\ \A v \in Workers \ {w} : pc'[v] = pc[v] /\ base'[v] = base[v]
          /\ pc'[w] \in {"loading", "saving", "over"}
          /\ pc'[w] \in BeforeSave => pc[w] \in BeforeSave
          /\ pc'[w] = "saving" => ~Concluded(log)
          /\ progress' = progress \/ (progress' = progress \union {w} /\ pc[w] = "scoring")
      BY <1>0, <1>3, QuietOther
    <2> QED
      BY <1>0, <1>a, <2>1, StreamUnwritten
  <1>4. CASE UNCHANGED <<log, slot, pc, history, base, shown, excused>>
    BY <1>0, <1>a, <1>4, StreamUnwritten DEF shown
  <1>5. CASE /\ UNCHANGED <<log, history, base, shown, excused>>
             /\ \A w \in Workers : pc'[w] = IF pc[w] = "new" THEN "new" ELSE "over"
    BY <1>0, <1>a, <1>5, StreamUnwritten DEF shown, BeforeSave
  <1>6. \A a \in Attempts : Attempt(a) => StreamIsOne'
    BY <1>2, <1>3
  <1>7. \A e \in Enders : End(e) => StreamIsOne'
    BY <1>2, <1>3
  <1> QED
    BY <1>0, <1>1, <1>4, <1>5, <1>6, <1>7, DialogueSteps

\* The turns of what the table was given are the first turns of the stream.
LEMMA TurnsOfTheFirst ==
  ASSUME DialogueTypes, TurnsAreOne, NEW n \in 0..Len(log)
  PROVE  LET p == TurnsIn(SubSeq(log, 1, n)) IN
         /\ p \in Seq(Replies) /\ Len(p) <= Len(TurnsIn(log))
         /\ \A k \in 1..Len(p) : p[k] = TurnsIn(log)[k]
  <1> DEFINE first == SubSeq(log, 1, n)
             p == TurnsIn(first)
             turns == TurnsIn(log)
             c == Cardinality(TurnsAt(first))
             d == Cardinality(TurnsAt(log))
  <1>1. /\ turns \in Seq(Replies)
        /\ c \in Nat /\ d \in Nat /\ c <= d /\ \A k \in 1..c : p[k] = turns[k]
    <2>1. log \in Seq(Event) /\ turns \in Seq(Replies)
      BY DialogueTyped DEF TurnsAreOne
    <2>2. first \in Seq(Event) /\ c <= d /\ \A k \in 1..c : p[k] = turns[k]
      BY <2>1, TurnsOfAPrefix
    <2> QED
      BY <2>1, <2>2, TurnsAreFinite
  <1>2. DOMAIN p = 1..c /\ DOMAIN turns = 1..d /\ p = [k \in 1..c |-> p[k]]
    BY TurnsByPlace
  <1>3. Len(turns) = d
    BY <1>1, <1>2
  <1>4. \A k \in 1..c : p[k] \in Replies
    BY <1>1, <1>2, <1>3
  <1>5. p \in Seq(Replies) /\ Len(p) = c
    <2>1. p \in [1..c -> Replies]
      BY <1>2, <1>4
    <2> HIDE DEF p, c
    <2> QED
      BY <1>1, <2>1
  <1> QED
    BY <1>1, <1>3, <1>5

\* One event more adds its turn to them, or none.
LEMMA TurnsOfTheNext ==
  ASSUME DialogueTypes, StreamIsOne, TurnsAreOne, NEW n \in Nat, n < Len(log)
  PROVE  TurnsIn(SubSeq(log, 1, n + 1)) =
           IF log[n + 1].kind = "turn" THEN Append(TurnsIn(SubSeq(log, 1, n)), log[n + 1].by)
                                       ELSE TurnsIn(SubSeq(log, 1, n))
  <1> DEFINE first == SubSeq(log, 1, n)
  <1>1. /\ log \in Seq(Event) /\ n \in 0..Len(log) /\ n + 1 \in DOMAIN log /\ log[n + 1] \in Event
        /\ first \in Seq(Event) /\ SubSeq(log, 1, n + 1) = Append(first, log[n + 1])
    BY DialogueTyped
  <1>2. log[n + 1].kind = "turn" => log[n + 1].by \in Replies
    BY <1>1 DEF StreamIsOne
  <1>3. TurnsIn(first) \in Seq(Replies)
    BY <1>1, TurnsOfTheFirst
  <1> HIDE DEF first
  <1>4. TurnsIn(Append(first, log[n + 1])) =
          IF log[n + 1].kind = "turn" THEN Append(TurnsIn(first), log[n + 1].by) ELSE TurnsIn(first)
    BY <1>1, <1>2, <1>3, TurnsOfAnAppend
  <1> QED
    BY <1>1, <1>4 DEF first

\* A save of a reply adds its turn.
LEMMA TurnsOfASave ==
  ASSUME DialogueTypes, TurnsAreOne, NEW r \in Replies, SaveReply(r)
  PROVE  log' \in Seq(Event) /\ TurnsIn(log') = Append(TurnsIn(log), r) /\ Len(log') >= Len(log)
  <1> DEFINE t == [kind |-> "turn", by |-> r]
             c == [kind |-> "concluded", by |-> r]
  <1>1. /\ t \in Event /\ c \in Event /\ t.kind = "turn" /\ t.by = r /\ c.kind # "turn"
        /\ log \in Seq(Event) /\ TurnsIn(log) \in Seq(Replies)
    BY DialogueTyped DEF Event, TurnsAreOne
  <1>2. PICK met \in BOOLEAN :
          log' = log \o <<t>> \o (IF met THEN <<c>> ELSE <<>>)
    BY DEF SaveReply
  <1> HIDE DEF t, c
  <1>3. log \o <<t>> = Append(log, t) /\ Append(log, t) \in Seq(Event)
    BY <1>1
  <1>4. Append(log, t) \o <<c>> = Append(Append(log, t), c) /\ Append(Append(log, t), c) \in Seq(Event)
    BY <1>1, <1>3
  <1>5. log' = IF met THEN Append(Append(log, t), c) ELSE Append(log, t)
    <2>1. CASE met
      BY <1>2, <1>3, <1>4, <2>1
    <2>2. CASE ~met
      <3>1. log' = Append(log, t) \o <<>>
        BY <1>2, <1>3, <2>2
      <3> QED
        BY <1>3, <2>2, <3>1, ConcatEmptySeq
    <2> QED
      BY <2>1, <2>2
  <1>6. TurnsIn(Append(log, t)) = Append(TurnsIn(log), r) /\ Append(TurnsIn(log), r) \in Seq(Replies)
    BY <1>1, TurnsOfAnAppend
  <1>7. TurnsIn(Append(Append(log, t), c)) = Append(TurnsIn(log), r)
    BY <1>1, <1>3, <1>6, TurnsOfAnAppend
  <1>8. Len(Append(log, t)) >= Len(log) /\ Len(Append(Append(log, t), c)) >= Len(log)
    BY <1>1, <1>3
  <1> QED
    BY <1>3, <1>4, <1>5, <1>6, <1>7, <1>8

\* An attempt or an end disturbs no turn, no reply and no history.
LEMMA OtherSteps ==
  ASSUME DialogueTypes, TurnsAreOne, NEW w \in Attempts \union Enders,
         (w \in Attempts /\ Attempt(w)) \/ (w \in Enders /\ End(w))
  PROVE  /\ TurnsIn(log') = TurnsIn(log) /\ UNCHANGED <<slot, history, answered, excused>>
         /\ \A r \in Replies : pc'[r] = pc[r]
         /\ (cache' = cache /\ stale' = stale) \/ cache' = None
         /\ log' \in Seq(Event) /\ Len(log') >= Len(log)
         /\ progress' \subseteq Attempts
  <1>a. log \in Seq(Event) /\ TurnsIn(log) \in Seq(Replies) /\ w \in Workers /\ progress \subseteq Attempts
        /\ Replies \subseteq Workers /\ Attempts \subseteq Workers /\ w \notin Replies
        /\ pc \in [Workers -> {"new", "over", "scoring", "forgetting"} \union Busy]
    BY DialogueTyped DEF TurnsAreOne
  <1>1. CASE (w \in Attempts /\ Observe(w)) \/ (w \in Enders /\ Conclude(w))
    <2>1. PICK k \in {"observed", "concluded"} : log' = Append(log, [kind |-> k, by |-> w])
      BY <1>1 DEF Observe, Conclude
    <2>2. [kind |-> k, by |-> w] \in Event /\ [kind |-> k, by |-> w].kind # "turn"
      BY <1>a DEF Event
    <2>3. TurnsIn(log') = TurnsIn(log) /\ log' \in Seq(Event)
      BY <1>a, <2>1, <2>2, TurnsOfAnAppend
    <2>4. Len(log') >= Len(log)
      BY <1>a, <2>1, <2>2
    <2>5. /\ UNCHANGED <<slot, history, answered, excused, cache, stale, progress>>
          /\ \A r \in Replies : pc'[r] = pc[r]
      BY <1>a, <1>1 DEF Observe, Conclude, Go, shown, why
    <2> QED
      BY <1>a, <2>3, <2>4, <2>5
  <1>2. CASE ~((w \in Attempts /\ Observe(w)) \/ (w \in Enders /\ Conclude(w)))
    <2>1. (w \in Attempts /\ Attempt(w) /\ ~Observe(w)) \/ (w \in Enders /\ End(w) /\ ~Conclude(w))
      BY <1>2
    <2>2. /\ UNCHANGED <<log, slot, history, answered, excused>>
          /\ \A v \in Workers \ {w} : pc'[v] = pc[v]
          /\ (cache' = cache /\ stale' = stale) \/ cache' = None
      BY <2>1, QuietOther
    <2>3. progress' \subseteq Attempts
      BY <1>a, <2>1 DEF Attempt, End, BeginAttempt, LoadAttempt, Score, FailAttempt, BeginEnd, LoadEnd,
         FailEnd, Forget, shown
    <2>4. Len(log) >= Len(log)
      BY <1>a
    <2> QED
      BY <1>a, <2>2, <2>3, <2>4
  <1> QED
    BY <1>1, <1>2

\* A reply is on the stream once, after its save, and at its end while it has the slot.
LEMMA TurnsStay == DialogueIInv /\ [DialogueNext]_dialogueVars => TurnsAreOne'
  <1> SUFFICES ASSUME DialogueIInv, [DialogueNext]_dialogueVars PROVE TurnsAreOne'
    OBVIOUS
  <1> DEFINE turns == TurnsIn(log)
  <1>0. DialogueTypes /\ TurnsAreOne
    BY DEF DialogueIInv
  <1>a. /\ slot \in Replies \union {None} /\ None \notin Replies /\ Replies \subseteq Workers
        /\ pc \in [Workers -> {"new", "over", "scoring", "forgetting"} \union Busy]
        /\ answered \subseteq Replies
    BY <1>0, DialogueTyped
  <1>b. /\ turns \in Seq(Replies) /\ Once(turns)
        /\ \A r \in Replies :
             /\ pc[r] \in BeforeSave => \A k \in DOMAIN turns : turns[k] # r
             /\ pc[r] \in {"saved", "told"} => turns # <<>> /\ turns[Len(turns)] = r
             /\ r \in answered => pc[r] \in {"told", "over"} /\ \E k \in DOMAIN turns : turns[k] = r
             /\ pc[r] \in Busy <=> slot = r
    BY <1>0 DEF TurnsAreOne
  <1>c. ASSUME TurnsIn(log') = turns,
               \A r \in Replies :
                 /\ pc'[r] \in BeforeSave => pc[r] \in BeforeSave
                 /\ pc'[r] \in {"saved", "told"} => pc[r] \in {"saved", "told"}
                 /\ r \in answered' => \/ r \in answered /\ pc'[r] \in {"told", "over"}
                                       \/ pc[r] = "saved" /\ pc'[r] = "told"
                 /\ pc'[r] \in Busy <=> slot' = r
        PROVE  TurnsAreOne'
    <2>1. ASSUME NEW r \in Replies, r \in answered'
          PROVE  pc'[r] \in {"told", "over"} /\ \E k \in DOMAIN turns : turns[k] = r
      <3>1. CASE r \in answered /\ pc'[r] \in {"told", "over"}
        BY <1>b, <3>1
      <3>2. CASE pc[r] = "saved" /\ pc'[r] = "told"
        <4>1. turns # <<>> /\ turns[Len(turns)] = r /\ turns \in Seq(Replies)
          BY <1>b, <3>2
        <4>2. Len(turns) \in DOMAIN turns
          BY <4>1
        <4> QED
          BY <3>2, <4>1, <4>2
      <3> QED
        BY <1>c, <2>1, <3>1, <3>2
    <2> QED
      BY <1>b, <1>c, <2>1 DEF TurnsAreOne
  <1>1. ASSUME NEW r \in Replies, Reply(r) \/ Abandon(r) PROVE TurnsAreOne'
    <2>1. CASE SaveReply(r)
      <3>1. TurnsIn(log') = Append(turns, r)
        BY <1>0, <2>1, TurnsOfASave
      <3>2. /\ pc[r] = "saving" /\ pc'[r] = "saved" /\ slot' = slot /\ answered' = answered
            /\ \A q \in Replies \ {r} : pc'[q] = pc[q]
        BY <1>a, <2>1 DEF SaveReply, Go, shown
      <3>3. slot = r /\ \A q \in Replies \ {r} : pc[q] \notin Busy
        BY <1>b, <3>2 DEF Busy
      <3>4. \A k \in DOMAIN turns : turns[k] # r
        BY <1>b, <3>2 DEF BeforeSave
      <3>5. /\ Append(turns, r) \in Seq(Replies) /\ Append(turns, r) # <<>>
            /\ Len(Append(turns, r)) = Len(turns) + 1 /\ Append(turns, r)[Len(turns) + 1] = r
            /\ DOMAIN turns = 1..Len(turns) /\ DOMAIN Append(turns, r) = 1..(Len(turns) + 1)
            /\ \A k \in DOMAIN turns : Append(turns, r)[k] = turns[k] /\ k \in DOMAIN Append(turns, r)
            /\ \A k \in DOMAIN Append(turns, r) : k \in DOMAIN turns \/ k = Len(turns) + 1
        BY <1>b
      <3> HIDE DEF turns
      <3>6. Once(Append(turns, r))
        BY <1>b, <3>4, <3>5 DEF Once
      <3>7. ASSUME NEW q \in Replies
            PROVE  /\ pc'[q] \in BeforeSave => \A k \in DOMAIN Append(turns, r) : Append(turns, r)[k] # q
                   /\ pc'[q] \in {"saved", "told"} =>
                        Append(turns, r) # <<>> /\ Append(turns, r)[Len(Append(turns, r))] = q
                   /\ q \in answered => /\ pc'[q] \in {"told", "over"}
                                        /\ \E k \in DOMAIN Append(turns, r) : Append(turns, r)[k] = q
                   /\ pc'[q] \in Busy <=> slot = q
        <4>1. CASE q = r
          BY <1>b, <3>2, <3>3, <3>5, <4>1 DEF Busy, BeforeSave
        <4>2. CASE q # r
          BY <1>b, <3>2, <3>3, <3>5, <4>2 DEF Busy
        <4> QED
          BY <4>1, <4>2
      <3> QED
        BY <3>1, <3>2, <3>5, <3>6, <3>7 DEF TurnsAreOne
    <2>2. CASE Remember(r)
      <3>1. /\ log' = log /\ pc[r] = "saved" /\ pc'[r] = "told" /\ slot' = slot /\ answered' = answered \union {r}
            /\ \A q \in Replies \ {r} : pc'[q] = pc[q]
        BY <1>a, <2>2 DEF Remember, Go
      <3>2. \A q \in Replies :
              /\ pc'[q] \in BeforeSave => pc[q] \in BeforeSave
              /\ pc'[q] \in {"saved", "told"} => pc[q] \in {"saved", "told"}
              /\ q \in answered' => \/ q \in answered /\ pc'[q] \in {"told", "over"}
                                    \/ pc[q] = "saved" /\ pc'[q] = "told"
              /\ pc'[q] \in Busy <=> slot' = q
        BY <1>b, <3>1 DEF Busy, BeforeSave
      <3> QED
        BY <1>c, <3>1, <3>2
    <2>3. CASE ~SaveReply(r) /\ ~Remember(r)
      <3>1. /\ UNCHANGED <<log, answered>>
            /\ \A w \in Workers \ {r} : pc'[w] = pc[w]
            /\ \/ pc[r] = "new" /\ slot # None /\ pc'[r] = "over" /\ slot' = slot
               \/ pc[r] = "new" /\ slot = None /\ pc'[r] \in {"row", "opened"} /\ slot' = r
               \/ pc[r] \in Busy /\ pc'[r] = "over" /\ slot' = None
               \/ /\ pc[r] \in Busy \intersect BeforeSave /\ pc'[r] \in Busy \intersect BeforeSave
                  /\ slot' = slot
        BY <1>0, <1>1, <2>3, QuietReply
      <3>2. \A q \in Replies \ {r} : /\ pc'[q] = pc[q] /\ (pc[q] \in Busy <=> slot = q)
                                     /\ (q \in answered => pc[q] \in {"told", "over"})
        BY <1>a, <1>b, <3>1
      <3>3. /\ pc'[r] \in BeforeSave => pc[r] \in BeforeSave
            /\ pc'[r] \notin {"saved", "told"}
            /\ r \in answered => pc'[r] \in {"told", "over"}
        BY <1>b, <3>1 DEF BeforeSave, Busy
      <3>4. \A q \in Replies : pc'[q] \in Busy <=> slot' = q
        BY <1>a, <1>b, <3>1, <3>2 DEF Busy
      <3> QED
        BY <1>c, <3>1, <3>2, <3>3, <3>4
    <2> QED
      BY <2>1, <2>2, <2>3
  <1>2. ASSUME NEW w \in Attempts \union Enders, (w \in Attempts /\ Attempt(w)) \/ (w \in Enders /\ End(w))
        PROVE  TurnsAreOne'
    <2>1. TurnsIn(log') = turns /\ slot' = slot /\ answered' = answered /\ \A r \in Replies : pc'[r] = pc[r]
      BY <1>0, <1>2, OtherSteps
    <2> QED
      BY <1>b, <1>c, <2>1
  <1>3. CASE UNCHANGED <<log, slot, pc, history, base, shown, excused>>
    BY <1>0, <1>3 DEF TurnsAreOne, shown
  <1>4. CASE /\ UNCHANGED <<log, history, base, shown, excused>> /\ slot' = None
             /\ \A w \in Workers : pc'[w] = IF pc[w] = "new" THEN "new" ELSE "over"
    <2>1. \A r \in Replies :
            /\ pc'[r] \in BeforeSave => pc[r] \in BeforeSave
            /\ pc'[r] \notin {"saved", "told"} \union Busy
            /\ r \in answered => pc'[r] = "over"
      BY <1>a, <1>b, <1>4 DEF Busy, BeforeSave
    <2> QED
      BY <1>a, <1>c, <1>4, <2>1 DEF shown
  <1> QED
    BY <1>0, <1>1, <1>2, <1>3, <1>4, DialogueSteps

\* Only its own steps, and a restart, move the projection; they leave the service alone.
LEMMA ProjectionMoves ==
  ASSUME [DialogueNext]_dialogueVars
  PROVE  \/ UNCHANGED projection
         \/ Project /\ ServiceStays /\ twice' = twice
         \/ Restart /\ twice \subseteq twice' /\ log' = log
  <1>1. ASSUME NEW r \in Replies, Reply(r) \/ Abandon(r) PROVE UNCHANGED projection
    BY <1>1 DEF Reply, Respond, ReadRow, ReadTurns, Ask, ModelAnswers, Fail, LoadReply, SaveReply, LoseReply,
       Remember, Finish, Abandon
  <1>2. ASSUME NEW a \in Attempts, Attempt(a) PROVE UNCHANGED projection
    BY <1>2 DEF Attempt, BeginAttempt, LoadAttempt, Observe, Score, FailAttempt
  <1>3. ASSUME NEW e \in Enders, End(e) PROVE UNCHANGED projection
    BY <1>3 DEF End, BeginEnd, LoadEnd, Conclude, FailEnd, Forget
  <1>4. CASE Project
    BY <1>4 DEF Project, StartRow, DropTurn, StoreTurn, CountTurn, HandleNote, FileEvent, SaveCheckpoint, ServiceStays
  <1>5. CASE Restart
    BY <1>5 DEF Restart
  <1>6. CASE Evict \/ UNCHANGED dialogueVars
    BY <1>6 DEF Evict, dialogueVars
  <1> QED
    BY <1>1, <1>2, <1>3, <1>4, <1>5, <1>6 DEF DialogueNext

\* What may come again is never fewer.
LEMMA AgainGrows == [DialogueNext]_dialogueVars => twice \subseteq twice'
  BY ProjectionMoves DEF projection

\* What each step does to the entry and the histories, when it writes no turn.
LEMMA HistoriesMove ==
  ASSUME DialogueTypes, TurnsAreOne, NEW r \in Replies, Reply(r) \/ Abandon(r), ~SaveReply(r), ~Remember(r)
  PROVE  /\ \/ /\ history' = history /\ excused' = excused
               /\ pc'[r] \in {"opened", "asking", "loading", "saving"} =>
                    pc[r] \in {"opened", "asking", "loading", "saving"}
            \/ /\ pc[r] = "new" /\ slot = None /\ pc'[r] = "opened" /\ cache # None
               /\ history' = [history EXCEPT ![r] = cache]
               /\ excused' = IF stale THEN excused \union {r} ELSE excused
            \/ /\ pc[r] = "turns" /\ pc'[r] = "opened"
               /\ history' = [history EXCEPT ![r] = stored]
               /\ excused' = IF stored # TurnsIn(log) THEN excused \union {r} ELSE excused
         /\ stale' = (stale \/ (pc[r] = "saved" /\ cache # None)) \/ (stale' = stale /\ pc[r] # "saved")
  <1>a. /\ pc \in [Workers -> {"new", "over", "scoring", "forgetting"} \union Busy] /\ r \in Workers
        /\ history \in [Replies -> Seq(Replies)]
    BY DialogueTyped
  <1>1. CASE Respond(r)
    <2>1. pc[r] = "new" /\ stale' = stale
      BY <1>1 DEF Respond
    <2>2. \/ history' = history /\ excused' = excused /\ pc'[r] \in {"over", "row"}
          \/ /\ slot = None /\ pc'[r] = "opened" /\ cache # None
             /\ history' = [history EXCEPT ![r] = cache]
             /\ excused' = IF stale THEN excused \union {r} ELSE excused
      BY <1>a, <1>1 DEF Respond, Go
    <2> QED
      BY <2>1, <2>2
  <1>2. CASE ReadTurns(r)
    <2>1. pc[r] = "turns" /\ pc'[r] = "opened" /\ stale' = stale
      BY <1>a, <1>2 DEF ReadTurns, Go
    <2>2. /\ history' = [history EXCEPT ![r] = stored]
          /\ excused' = IF stored # TurnsIn(log) THEN excused \union {r} ELSE excused
      BY <1>2 DEF ReadTurns
    <2> QED
      BY <2>1, <2>2
  <1>3. CASE ReadRow(r) \/ Ask(r) \/ ModelAnswers(r) \/ Fail(r) \/ LoseReply(r) \/ Finish(r)
    BY <1>a, <1>3 DEF ReadRow, Ask, ModelAnswers, Fail, LoseReply, Finish, Leave, Go, why, Busy
  <1>4. CASE LoadReply(r)
    BY <1>a, <1>4 DEF LoadReply, Leave, Go, why
  <1>5. CASE Abandon(r)
    BY <1>a, <1>5 DEF Abandon, Leave, Go
  <1> QED
    BY <1>1, <1>2, <1>3, <1>4, <1>5 DEF Reply

\* What is cached and what is asked with stays in the order of the stream.
LEMMA HistoriesStay == DialogueIInv /\ [DialogueNext]_dialogueVars => HistoriesInOrder'
  <1> SUFFICES ASSUME DialogueIInv, [DialogueNext]_dialogueVars PROVE HistoriesInOrder'
    OBVIOUS
  <1> DEFINE turns == TurnsIn(log)
             Asked(h, r, ts) == OrderIn(h, ts, twice) /\ \A i \in DOMAIN h : h[i] # r
  <1>0. DialogueTypes /\ TurnsAreOne /\ HistoriesInOrder /\ OrderIn(stored, TurnsIn(log), twice)
    BY DEF DialogueIInv, RowsFollow
  <1>w. \A h, ts : OrderIn(h, ts, twice) => OrderIn(h, ts, twice')
    BY AgainGrows DEF OrderIn
  <1>a. /\ turns \in Seq(Replies) /\ Once(turns) /\ history \in [Replies -> Seq(Replies)]
        /\ cache = None \/ cache \in Seq(Replies)
        /\ \A r \in Replies : pc[r] \in BeforeSave => \A k \in DOMAIN turns : turns[k] # r
        /\ \A r \in Replies : pc[r] = "saved" => turns # <<>> /\ turns[Len(turns)] = r
    BY <1>0, DialogueTyped DEF TurnsAreOne
  <1>b. /\ cache # None => OrderIn(cache, turns, twice)
        /\ \A r \in Replies : Asked(history[r], r, turns)
    BY <1>0 DEF HistoriesInOrder
  <1>c. ASSUME cache' # None => OrderIn(cache', TurnsIn(log'), twice),
               \A r \in Replies : Asked(history'[r], r, TurnsIn(log'))
        PROVE  HistoriesInOrder'
    BY <1>c, <1>w DEF HistoriesInOrder
  <1> HIDE DEF turns
  <1>1. ASSUME NEW r \in Replies, Reply(r) \/ Abandon(r) PROVE HistoriesInOrder'
    <2>1. CASE SaveReply(r)
      <3>1. /\ TurnsIn(log') = Append(turns, r) /\ cache' = cache /\ history' = history
            /\ pc[r] \in BeforeSave
        BY <1>0, <2>1, TurnsOfASave DEF turns, SaveReply, BeforeSave
      <3>2. cache # None => OrderIn(cache, Append(turns, r), twice)
        BY <1>a, <1>b, <3>1, OrderGrows
      <3>3. ASSUME NEW q \in Replies PROVE Asked(history[q], q, Append(turns, r))
        <4>1. history[q] \in Seq(Replies) /\ Asked(history[q], q, turns) /\ \A k \in DOMAIN turns : turns[k] # r
          BY <1>a, <1>b, <3>1
        <4> QED
          BY <1>a, <4>1, OrderGrows
      <3> QED
        BY <1>c, <3>1, <3>2, <3>3
    <2>2. CASE Remember(r)
      <3>1. log' = log /\ history' = history /\ cache' = Append(history[r], r) /\ pc[r] = "saved"
        BY <2>2 DEF Remember
      <3>2. OrderIn(Append(history[r], r), turns, twice)
        <4>1. /\ history[r] \in Seq(Replies) /\ OrderIn(history[r], turns, twice) /\ \A i \in DOMAIN history[r] : history[r][i] # r
              /\ turns # <<>> /\ turns[Len(turns)] = r
          BY <1>a, <1>b, <3>1
        <4> QED
          BY <1>a, <4>1, OrderEndsWithTheLast
      <3> QED
        BY <1>b, <1>c, <3>1, <3>2 DEF turns
    <2>3. CASE ~SaveReply(r) /\ ~Remember(r)
      <3>1. log' = log /\ cache' = cache
        BY <1>0, <1>1, <2>3, QuietReply
      <3>2. \A q \in Replies : Asked(history'[q], q, turns)
        <4>1. CASE history' = history
          BY <1>b, <4>1
        <4>2. CASE pc[r] = "new" /\ cache # None /\ history' = [history EXCEPT ![r] = cache]
          <5>1. OrderIn(cache, turns, twice) /\ \A k \in DOMAIN turns : turns[k] # r
            BY <1>a, <1>b, <4>2 DEF BeforeSave
          <5>2. \A i \in DOMAIN cache : cache[i] # r
            BY <5>1 DEF OrderIn
          <5>3. history'[r] = cache /\ \A q \in Replies \ {r} : history'[q] = history[q]
            BY <1>a, <4>2
          <5>4. Asked(history'[r], r, turns)
            BY <5>1, <5>2, <5>3
          <5> QED
            BY <1>b, <5>3, <5>4
        <4>3. CASE pc[r] = "turns" /\ history' = [history EXCEPT ![r] = stored]
          <5>1. OrderIn(stored, turns, twice) /\ \A k \in DOMAIN turns : turns[k] # r
            BY <1>0, <1>a, <4>3 DEF BeforeSave, turns
          <5>2. \A i \in DOMAIN stored : stored[i] # r
            BY <5>1 DEF OrderIn
          <5>3. history'[r] = stored /\ \A q \in Replies \ {r} : history'[q] = history[q]
            BY <1>a, <4>3
          <5>4. Asked(history'[r], r, turns)
            BY <5>1, <5>2, <5>3
          <5> QED
            BY <1>b, <5>3, <5>4
        <4> QED
          BY <1>0, <1>1, <2>3, <4>1, <4>2, <4>3, HistoriesMove
      <3> QED
        BY <1>b, <1>c, <3>1, <3>2 DEF turns
    <2> QED
      BY <2>1, <2>2, <2>3
  <1>2. ASSUME NEW w \in Attempts \union Enders, (w \in Attempts /\ Attempt(w)) \/ (w \in Enders /\ End(w))
        PROVE  HistoriesInOrder'
    <2>1. TurnsIn(log') = turns /\ history' = history /\ (cache' = cache \/ cache' = None)
      BY <1>0, <1>2, OtherSteps DEF turns
    <2> QED
      BY <1>b, <1>c, <2>1
  <1>3. CASE log' = log /\ history' = history /\ (cache' = cache \/ cache' = None)
    BY <1>b, <1>c, <1>3 DEF turns
  <1> QED
    BY <1>0, <1>1, <1>2, <1>3, DialogueSteps

\* The entry follows the stream, and a reply that is not excused is asked with all of it.
LEMMA EntryStays == DialogueIInv /\ [DialogueNext]_dialogueVars => EntryFollows'
  <1> SUFFICES ASSUME DialogueIInv, [DialogueNext]_dialogueVars PROVE EntryFollows'
    OBVIOUS
  <1> DEFINE turns == TurnsIn(log)
             Asking == {"opened", "asking", "loading", "saving"}
             Telling == \E r \in Replies : pc[r] = "saved"
             Kept(r, h, ts) == Len(h) + 1 \in DOMAIN ts /\ ts[Len(h) + 1] = r
  <1>0. DialogueTypes /\ TurnsAreOne /\ EntryFollows
    BY DEF DialogueIInv
  <1>a. /\ turns \in Seq(Replies) /\ history \in [Replies -> Seq(Replies)]
        /\ cache = None \/ cache \in Seq(Replies)
        /\ slot \in Replies \union {None} /\ None \notin Replies /\ stale \in BOOLEAN
        /\ answered \subseteq Replies /\ excused \subseteq Replies
        /\ pc \in [Workers -> {"new", "over", "scoring", "forgetting"} \union Busy] /\ Replies \subseteq Workers
    BY <1>0, DialogueTyped DEF TurnsAreOne
  <1>b. \A r \in Replies : /\ pc[r] \in Busy <=> slot = r
                           /\ r \in answered => pc[r] \in {"told", "over"}
    BY <1>0 DEF TurnsAreOne
  <1>d. /\ cache # None /\ ~stale =>
             IF Telling THEN \A r \in Replies : pc[r] = "saved" => turns = Append(cache, r) ELSE turns = cache
        /\ \A r \in Replies \ excused :
             /\ pc[r] \in Asking => turns = history[r]
             /\ pc[r] = "saved" => turns = Append(history[r], r)
             /\ r \in answered => Kept(r, history[r], turns)
    BY <1>0 DEF EntryFollows
  <1>e. ASSUME cache' # None /\ ~stale' =>
                 IF \E r \in Replies : pc'[r] = "saved"
                   THEN \A r \in Replies : pc'[r] = "saved" => TurnsIn(log') = Append(cache', r)
                   ELSE TurnsIn(log') = cache',
               \A r \in Replies \ excused' :
                 /\ pc'[r] \in Asking => TurnsIn(log') = history'[r]
                 /\ pc'[r] = "saved" => TurnsIn(log') = Append(history'[r], r)
                 /\ r \in answered' => Kept(r, history'[r], TurnsIn(log'))
        PROVE  EntryFollows'
    BY <1>e DEF EntryFollows
  <1> HIDE DEF turns
  <1>1. ASSUME NEW r \in Replies, Reply(r) \/ Abandon(r) PROVE EntryFollows'
    <2>1. CASE SaveReply(r)
      <3>1. TurnsIn(log') = Append(turns, r)
        BY <1>0, <2>1, TurnsOfASave DEF turns
      <3>2. /\ pc[r] = "saving" /\ pc'[r] = "saved" /\ UNCHANGED <<cache, stale, history, excused, answered>>
            /\ \A q \in Replies \ {r} : pc'[q] = pc[q]
        BY <1>a, <2>1 DEF SaveReply, Go, shown, why
      <3>3. \A q \in Replies \ {r} : pc[q] \notin Busy
        BY <1>b, <3>2 DEF Busy
      <3>4. ~Telling /\ \A q \in Replies : pc'[q] = "saved" <=> q = r
        BY <3>2, <3>3 DEF Busy
      <3>5. cache # None /\ ~stale => turns = cache
        BY <1>d, <3>4
      <3>6. ASSUME NEW q \in Replies \ excused, q \in answered
            PROVE  Kept(q, history[q], Append(turns, r))
        <4>1. Kept(q, history[q], turns)
          BY <1>d, <3>6
        <4>2. Len(history[q]) + 1 \in 1..Len(turns)
          BY <1>a, <4>1
        <4> QED
          BY <1>a, <4>1, <4>2
      <3>7. \A q \in Replies \ excused :
              /\ pc'[q] \in Asking => Append(turns, r) = history[q]
              /\ pc'[q] = "saved" => Append(turns, r) = Append(history[q], q)
        BY <1>d, <3>2, <3>3 DEF Busy
      <3> QED
        BY <1>e, <3>1, <3>2, <3>4, <3>5, <3>6, <3>7
    <2>2. CASE Remember(r)
      <3>1. /\ log' = log /\ pc[r] = "saved" /\ pc'[r] = "told" /\ UNCHANGED <<history, excused>>
            /\ cache' = Append(history[r], r) /\ stale' = (r \in excused) /\ answered' = answered \union {r}
            /\ \A q \in Replies \ {r} : pc'[q] = pc[q]
        BY <1>a, <2>2 DEF Remember, Go
      <3>2. \A q \in Replies \ {r} : pc[q] \notin Busy
        BY <1>b, <3>1 DEF Busy
      <3>3. \A q \in Replies : pc'[q] # "saved" /\ pc'[q] \notin Asking
        BY <3>1, <3>2 DEF Busy
      <3>4. r \notin excused => turns = Append(history[r], r)
        BY <1>d, <3>1
      <3>5. r \notin excused => Kept(r, history[r], turns)
        <4>1. history[r] \in Seq(Replies)
          BY <1>a
        <4> QED
          BY <3>4, <4>1
      <3>6. \A q \in Replies \ excused : q \in answered' => Kept(q, history[q], turns)
        BY <1>d, <3>1, <3>5
      <3> QED
        BY <1>e, <3>1, <3>3, <3>4, <3>6 DEF turns
    <2>3. CASE ~SaveReply(r) /\ ~Remember(r)
      <3>1. /\ UNCHANGED <<log, cache, answered>>
            /\ \A w \in Workers \ {r} : pc'[w] = pc[w]
            /\ pc'[r] # "saved"
            /\ pc[r] = "saved" => pc'[r] = "over"
        BY <1>0, <1>1, <2>3, QuietReply DEF Busy, BeforeSave
      <3>2. \A q \in Replies \ {r} : pc'[q] = pc[q]
        BY <1>a, <3>1
      <3>3. stale' = (stale \/ (pc[r] = "saved" /\ cache # None)) \/ (stale' = stale /\ pc[r] # "saved")
        BY <1>0, <1>1, <2>3, HistoriesMove
      <3>4. cache' # None /\ ~stale' =>
              IF \E q \in Replies : pc'[q] = "saved"
                THEN \A q \in Replies : pc'[q] = "saved" => turns = Append(cache', q) ELSE turns = cache'
        <4> SUFFICES ASSUME cache # None, ~stale'
                     PROVE  IF \E q \in Replies : pc'[q] = "saved"
                              THEN \A q \in Replies : pc'[q] = "saved" => turns = Append(cache, q)
                              ELSE turns = cache
          BY <3>1
        <4>1. ~stale /\ pc[r] # "saved"
          BY <1>a, <3>3
        <4>2. \A q \in Replies : pc'[q] = "saved" <=> pc[q] = "saved"
          BY <3>1, <3>2, <4>1
        <4> QED
          BY <1>d, <4>1, <4>2
      <3>5. ASSUME excused \subseteq excused', \A q \in Replies \ {r} : history'[q] = history[q],
                   pc[r] \in {"new", "turns"} \/ history' = history,
                   r \notin excused' /\ pc'[r] \in Asking => turns = history'[r]
            PROVE  EntryFollows'
        <4>1. r \in answered => history' = history
          BY <1>b, <3>5
        <4>2. \A q \in Replies \ excused' :
                 /\ pc'[q] \in Asking => turns = history'[q]
                 /\ pc'[q] = "saved" => turns = Append(history'[q], q)
                 /\ q \in answered' => Kept(q, history'[q], turns)
          BY <1>d, <3>1, <3>2, <3>5, <4>1
        <4> QED
          BY <1>e, <3>1, <3>4, <4>2 DEF turns
      <3>6. CASE history' = history /\ excused' = excused /\ (pc'[r] \in Asking => pc[r] \in Asking)
        <4>2. r \notin excused' /\ pc'[r] \in Asking => turns = history'[r]
          BY <1>d, <3>6
        <4> QED
          BY <3>5, <3>6, <4>2
      <3>7. CASE /\ pc[r] = "new" /\ slot = None /\ cache # None /\ history' = [history EXCEPT ![r] = cache]
                 /\ excused' = IF stale THEN excused \union {r} ELSE excused
        <4>1. ~Telling
          BY <1>a, <1>b, <3>7 DEF Busy
        <4>2. r \notin excused' => turns = cache
          BY <1>d, <3>7, <4>1
        <4>3. /\ history'[r] = cache /\ \A q \in Replies \ {r} : history'[q] = history[q]
              /\ excused \subseteq excused'
          BY <1>a, <3>7
        <4> QED
          BY <3>5, <3>7, <4>2, <4>3
      <3>8. CASE /\ pc[r] = "turns" /\ history' = [history EXCEPT ![r] = stored]
                 /\ excused' = IF stored # TurnsIn(log) THEN excused \union {r} ELSE excused
        <4>1. r \notin excused' => turns = stored
          BY <3>8 DEF turns
        <4>2. /\ history'[r] = stored /\ \A q \in Replies \ {r} : history'[q] = history[q]
              /\ excused \subseteq excused'
          BY <1>a, <3>8
        <4> QED
          BY <3>5, <3>8, <4>1, <4>2
      <3> QED
        BY <1>0, <1>1, <2>3, <3>6, <3>7, <3>8, HistoriesMove
    <2> QED
      BY <2>1, <2>2, <2>3
  <1>f. ASSUME TurnsIn(log') = turns, UNCHANGED <<history, excused, answered>>,
               (cache' = cache /\ stale' = stale /\ \A r \in Replies : pc'[r] = pc[r]) \/ cache' = None,
               \A r \in Replies : pc'[r] = pc[r] \/ pc'[r] \notin Busy
        PROVE  EntryFollows'
    <2>1. \A r \in Replies \ excused' :
                 /\ pc'[r] \in Asking => turns = history'[r]
                 /\ pc'[r] = "saved" => turns = Append(history'[r], r)
                 /\ r \in answered' => Kept(r, history'[r], turns)
      BY <1>d, <1>f DEF Busy
    <2>2. cache' # None /\ ~stale' =>
                 IF \E r \in Replies : pc'[r] = "saved"
                   THEN \A r \in Replies : pc'[r] = "saved" => turns = Append(cache', r)
                   ELSE turns = cache'
      BY <1>d, <1>f
    <2> QED
      BY <1>e, <1>f, <2>1, <2>2
  <1>2. ASSUME NEW w \in Attempts \union Enders, (w \in Attempts /\ Attempt(w)) \/ (w \in Enders /\ End(w))
        PROVE  EntryFollows'
    <2>1. /\ TurnsIn(log') = turns /\ UNCHANGED <<history, excused, answered>>
          /\ (cache' = cache /\ stale' = stale) \/ cache' = None
          /\ \A r \in Replies : pc'[r] = pc[r]
      BY <1>0, <1>2, OtherSteps DEF turns
    <2> QED
      BY <1>f, <2>1
  <1>3. CASE /\ UNCHANGED <<log, slot, pc, history, base, shown, excused>>
             /\ (cache' = cache /\ stale' = stale) \/ cache' = None
    BY <1>f, <1>3 DEF turns, shown
  <1>4. CASE /\ UNCHANGED <<log, history, base, shown, excused>> /\ cache' = None /\ slot' = None
             /\ \A w \in Workers : pc'[w] = IF pc[w] = "new" THEN "new" ELSE "over"
    <2>1. \A r \in Replies : pc'[r] \notin Busy
      BY <1>a, <1>4 DEF Busy
    <2> QED
      BY <1>f, <1>4, <2>1 DEF turns, shown
  <1> QED
    BY <1>0, <1>1, <1>2, <1>3, <1>4, DialogueSteps

\* A row that is saved where the count says takes the place of what was not counted.
LEMMA StoredFollows ==
  ASSUME NEW rows \in Seq(Replies), NEW n \in Nat, Len(rows) \in {n, n + 1}, NEW had \in Seq(Replies),
         NEW r \in Replies, NEW again, NEW lost, Follows(rows, n, had, {r}, again, lost)
  PROVE  Follows(Append(SubSeq(rows, 1, n), r), n, had, {r}, again, lost)
  <1> DEFINE all == Append(SubSeq(rows, 1, n), r)
  <1>1. /\ DOMAIN all = 1..(n + 1) /\ 1..n \subseteq DOMAIN rows /\ DOMAIN had = 1..Len(had)
        /\ \A i \in 1..n : all[i] = rows[i]
        /\ all[n + 1] = r
    OBVIOUS
  <1> HIDE DEF all
  <1>2. \A i \in DOMAIN all : \/ \E k \in DOMAIN had : had[k] = all[i]
                              \/ all[i] \in {r} /\ (i <= n => all[i] \in again)
    BY <1>1 DEF Follows
  <1>3. ASSUME NEW k \in DOMAIN had, Spared(had, k, again, lost) PROVE k <= n /\ all[k] = had[k]
    <2>1. k <= n /\ rows[k] = had[k]
      BY <1>3 DEF Follows
    <2>2. k \in 1..n
      BY <1>1, <2>1
    <2> QED
      BY <1>1, <2>1, <2>2
  <1> QED
    BY <1>1, <1>2, <1>3 DEF Follows, all

\* A row that is counted is that of the turn the table was given last.
LEMMA CountedFollows ==
  ASSUME NEW rows \in Seq(Replies), NEW n \in Nat, Len(rows) = n + 1, NEW had \in Seq(Replies),
         NEW r \in Replies, rows[n + 1] = r, NEW again, NEW lost, Follows(rows, n, had, {r}, again, lost)
  PROVE  Follows(rows, n + 1, Append(had, r), {}, again, lost)
  <1> DEFINE all == Append(had, r)
             m == Len(had)
  <1>1. /\ DOMAIN all = 1..(m + 1) /\ Len(all) = m + 1 /\ DOMAIN had = 1..m /\ m \in Nat
        /\ \A k \in 1..m : all[k] = had[k]
        /\ all[m + 1] = r /\ DOMAIN rows = 1..(n + 1)
    OBVIOUS
  <1> HIDE DEF all, m
  <1>2. \A k \in 0..m : Spared(all, k, again, lost) <=> Spared(had, k, again, lost)
    BY <1>1 DEF Spared
  <1>3. Spared(all, m + 1, again, lost) => Spared(had, m, again, lost) /\ again \intersect {r} = {}
    BY <1>1 DEF Spared
  <1>4. Spared(all, m + 1, again, lost) => n = m
    BY <1>3 DEF Follows, m
  <1>5. \A i \in DOMAIN rows : \E k \in DOMAIN all : all[k] = rows[i]
    BY <1>1 DEF Follows
  <1>6. \A k \in DOMAIN all : Spared(all, k, again, lost) => k <= n + 1 /\ rows[k] = all[k]
    <2>1. ASSUME NEW k \in 1..m, Spared(all, k, again, lost) PROVE k <= n + 1 /\ rows[k] = all[k]
      BY <1>1, <1>2, <2>1 DEF Follows
    <2> QED
      BY <1>1, <1>4, <2>1
  <1>7. \A k \in DOMAIN all : all[k] \in lost \/ \E i \in 1..(n + 1) : rows[i] = all[k]
    <2>1. n + 1 \in 1..(n + 1) /\ 1..n \subseteq 1..(n + 1)
      OBVIOUS
    <2> QED
      BY <1>1, <2>1 DEF Follows
  <1> QED
    BY <1>1, <1>4, <1>5, <1>6, <1>7 DEF Follows, all

\* A turn that is passed over is lost, whether its row was saved or not.
LEMMA MissedFollows ==
  ASSUME NEW rows \in Seq(Replies), NEW n \in Nat, NEW had \in Seq(Replies),
         NEW r \in Replies, NEW again, NEW lost, Follows(rows, n, had, {r}, again, lost)
  PROVE  Follows(rows, n, Append(had, r), {}, again, lost \union {r})
  <1> DEFINE all == Append(had, r)
             m == Len(had)
             less == lost \union {r}
  <1>1. /\ DOMAIN all = 1..(m + 1) /\ Len(all) = m + 1 /\ DOMAIN had = 1..m /\ m \in Nat
        /\ \A k \in 1..m : all[k] = had[k]
        /\ all[m + 1] = r
    OBVIOUS
  <1> HIDE DEF all, m
  <1>2. \A k \in 0..m : Spared(all, k, again, less) => Spared(had, k, again, lost)
    BY <1>1 DEF Spared
  <1>3. ~Spared(all, m + 1, again, less)
    BY <1>1 DEF Spared
  <1>4. \A i \in DOMAIN rows : \E k \in DOMAIN all : all[k] = rows[i]
    BY <1>1 DEF Follows
  <1>5. \A k \in DOMAIN all : Spared(all, k, again, less) => k <= n /\ rows[k] = all[k]
    BY <1>1, <1>2, <1>3 DEF Follows
  <1>6. \A k \in DOMAIN all : all[k] \in less \/ \E i \in 1..n : rows[i] = all[k]
    BY <1>1 DEF Follows
  <1> QED
    BY <1>1, <1>3, <1>4, <1>5, <1>6 DEF Follows, all

\* A turn that was given and whose checkpoint is not written comes again.
LEMMA AgainFollows ==
  ASSUME NEW rows \in Seq(Replies), NEW n \in Nat, NEW had \in Seq(Replies),
         NEW r \in Replies, NEW again, NEW lost, Follows(rows, n, Append(had, r), {}, again, lost)
  PROVE  Follows(rows, n, had, {r}, again \union {r}, lost)
  <1> DEFINE all == Append(had, r)
             m == Len(had)
             more == again \union {r}
  <1>1. /\ DOMAIN all = 1..(m + 1) /\ Len(all) = m + 1 /\ DOMAIN had = 1..m /\ m \in Nat
        /\ \A k \in 1..m : all[k] = had[k]
        /\ all[m + 1] = r
    OBVIOUS
  <1> HIDE DEF all, m
  <1>2. \A k \in 0..m : Spared(had, k, more, lost) => Spared(all, k, again, lost)
    BY <1>1 DEF Spared
  <1>3. \A i \in DOMAIN rows : (\E k \in DOMAIN had : had[k] = rows[i]) \/ rows[i] \in {r}
    BY <1>1 DEF Follows, all
  <1>4. \A k \in DOMAIN had : Spared(had, k, more, lost) => k <= n /\ rows[k] = had[k]
    BY <1>1, <1>2 DEF Follows, all
  <1>5. \A k \in DOMAIN had : had[k] \in lost \/ \E i \in 1..n : rows[i] = had[k]
    BY <1>1 DEF Follows, all
  <1> QED
    BY <1>3, <1>4, <1>5 DEF Follows

\* The stream grows at its end, by turns that were not on it.
LEMMA StreamGrows ==
  ASSUME DialogueTypes, TurnsAreOne, [DialogueNext]_dialogueVars
  PROVE  /\ log' \in Seq(Event) /\ Len(log') >= Len(log) /\ \A i \in DOMAIN log : log'[i] = log[i]
         /\ \A n \in 0..Len(log) : SubSeq(log', 1, n) = SubSeq(log, 1, n)
         /\ OrderIn(stored, TurnsIn(log), twice) => OrderIn(stored, TurnsIn(log'), twice)
  <1>a. log \in Seq(Event) /\ stored \in Seq(Replies) /\ TurnsIn(log) \in Seq(Replies)
        /\ Replies \subseteq Workers /\ Attempts \subseteq Workers /\ Enders \subseteq Workers
    BY DialogueTyped DEF TurnsAreOne
  <1>1. \/ log' = log
        \/ \E r \in Replies : SaveReply(r)
        \/ \E a \in Attempts : Observe(a)
        \/ \E e \in Enders : Conclude(e)
    <2>1. ASSUME NEW r \in Replies, Reply(r) \/ Abandon(r) PROVE log' = log \/ SaveReply(r)
      BY <2>1 DEF Reply, Respond, ReadRow, ReadTurns, Ask, ModelAnswers, Fail, LoadReply, LoseReply,
         Remember, Finish, Abandon
    <2>2. ASSUME NEW a \in Attempts, Attempt(a) PROVE log' = log \/ Observe(a)
      BY <2>2 DEF Attempt, BeginAttempt, LoadAttempt, Score, FailAttempt
    <2>3. ASSUME NEW e \in Enders, End(e) PROVE log' = log \/ Conclude(e)
      BY <2>3 DEF End, BeginEnd, LoadEnd, FailEnd, Forget
    <2> QED
      BY <2>1, <2>2, <2>3, DialogueSteps
  <1>2. \/ log' = log
        \/ \E e \in Event : log' = Append(log, e)
        \/ \E d \in Event, e \in Event : log' = Append(Append(log, d), e)
    <2>1. ASSUME NEW r \in Replies, SaveReply(r)
          PROVE  (\E e \in Event : log' = Append(log, e)) \/ \E d \in Event, e \in Event : log' = Append(Append(log, d), e)
      <3> DEFINE t == [kind |-> "turn", by |-> r]
                 c == [kind |-> "concluded", by |-> r]
      <3>1. t \in Event /\ c \in Event
        BY <1>a DEF Event
      <3>2. PICK met \in BOOLEAN : log' = log \o <<t>> \o (IF met THEN <<c>> ELSE <<>>)
        BY <2>1 DEF SaveReply
      <3> HIDE DEF t, c
      <3>3. log \o <<t>> = Append(log, t) /\ Append(log, t) \in Seq(Event)
        BY <1>a, <3>1
      <3>4. Append(log, t) \o <<c>> = Append(Append(log, t), c)
        BY <3>1, <3>3
      <3>5. Append(log, t) \o <<>> = Append(log, t)
        BY <3>3, ConcatEmptySeq
      <3> QED
        BY <3>1, <3>2, <3>3, <3>4, <3>5
    <2>2. ASSUME NEW a \in Attempts, Observe(a) PROVE \E e \in Event : log' = Append(log, e)
      BY <1>a, <2>2 DEF Observe, Event
    <2>3. ASSUME NEW x \in Enders, Conclude(x) PROVE \E e \in Event : log' = Append(log, e)
      BY <1>a, <2>3 DEF Conclude, Event
    <2> QED
      BY <1>1, <2>1, <2>2, <2>3
  <1>3. log' \in Seq(Event) /\ Len(log') >= Len(log) /\ \A i \in DOMAIN log : log'[i] = log[i]
    <2>1. ASSUME NEW s \in Seq(Event), NEW e \in Event
          PROVE  Append(s, e) \in Seq(Event) /\ Len(Append(s, e)) = Len(s) + 1 /\ \A i \in DOMAIN s : Append(s, e)[i] = s[i]
      <3> HIDE DEF Event
      <3> QED
        OBVIOUS
    <2>2. ASSUME NEW d \in Event, NEW e \in Event, log' = Append(Append(log, d), e)
          PROVE  log' \in Seq(Event) /\ Len(log') >= Len(log) /\ \A i \in DOMAIN log : log'[i] = log[i]
      <3>1. Append(log, d) \in Seq(Event) /\ Len(Append(log, d)) = Len(log) + 1 /\ Len(log) \in Nat
            /\ \A i \in DOMAIN log : Append(log, d)[i] = log[i] /\ i \in DOMAIN Append(log, d)
        <4> HIDE DEF Event
        <4> QED
          BY <1>a
      <3>2. /\ log' \in Seq(Event) /\ Len(log') = Len(log) + 2
            /\ \A i \in DOMAIN Append(log, d) : log'[i] = Append(log, d)[i]
        BY <2>1, <2>2, <3>1
      <3> QED
        BY <3>1, <3>2
    <2>3. ASSUME NEW e \in Event, log' = Append(log, e)
          PROVE  log' \in Seq(Event) /\ Len(log') >= Len(log) /\ \A i \in DOMAIN log : log'[i] = log[i]
      <3>1. Len(log) \in Nat
        BY <1>a
      <3> QED
        BY <1>a, <2>1, <2>3, <3>1
    <2>4. CASE log' = log
      BY <1>a, <2>4
    <2> QED
      BY <1>2, <2>2, <2>3, <2>4
  <1>4. ASSUME NEW n \in 0..Len(log) PROVE SubSeq(log', 1, n) = SubSeq(log, 1, n)
    <2>1. /\ SubSeq(log, 1, n) \in Seq(Event) /\ SubSeq(log', 1, n) \in Seq(Event)
          /\ Len(SubSeq(log, 1, n)) = n /\ Len(SubSeq(log', 1, n)) = n
          /\ \A i \in 1..n : SubSeq(log', 1, n)[i] = SubSeq(log, 1, n)[i]
      BY <1>a, <1>3
    <2> HIDE DEF Event
    <2> QED
      BY <2>1, SeqEqual
  <1>5. ASSUME OrderIn(stored, TurnsIn(log), twice) PROVE OrderIn(stored, TurnsIn(log'), twice)
    <2>1. CASE log' = log
      BY <1>5, <2>1
    <2>2. ASSUME NEW r \in Replies, SaveReply(r) PROVE OrderIn(stored, TurnsIn(log'), twice)
      <3>1. TurnsIn(log') = Append(TurnsIn(log), r)
        BY <2>2, TurnsOfASave
      <3>2. \A k \in DOMAIN TurnsIn(log) : TurnsIn(log)[k] # r
        BY <2>2 DEF SaveReply, TurnsAreOne, BeforeSave
      <3> QED
        BY <1>a, <1>5, <3>1, <3>2, OrderGrows
    <2>3. ASSUME NEW w \in Attempts \union Enders, (w \in Attempts /\ Attempt(w)) \/ (w \in Enders /\ End(w))
          PROVE  OrderIn(stored, TurnsIn(log'), twice)
      BY <1>5, <2>3, OtherSteps
    <2>4. \A a \in Attempts : Observe(a) => OrderIn(stored, TurnsIn(log'), twice)
      BY <2>3 DEF Attempt
    <2>5. \A e \in Enders : Conclude(e) => OrderIn(stored, TurnsIn(log'), twice)
      BY <2>3 DEF End
    <2> QED
      BY <1>1, <2>1, <2>2, <2>4, <2>5
  <1> QED
    BY <1>3, <1>4, <1>5

\* What the table has before the next event is what follows it.
LEMMA RowsStay == DialogueIInv /\ [DialogueNext]_dialogueVars => RowsFollow' /\ count' \in Nat
                    /\ stored' \in Seq(Replies) /\ Len(stored') \in {count', count' + 1}
                    /\ seen' \in 0..Len(log') /\ missed' \subseteq Replies
  <1> DEFINE Typed == /\ count' \in Nat /\ stored' \in Seq(Replies) /\ Len(stored') \in {count', count' + 1}
                      /\ seen' \in 0..Len(log') /\ missed' \subseteq Replies
             n == IF handling = "handled" THEN seen + 1 ELSE seen
             e == log[seen + 1]
  <1> SUFFICES ASSUME DialogueIInv, [DialogueNext]_dialogueVars PROVE RowsFollow' /\ Typed
    OBVIOUS
  <1>0. DialogueTypes /\ StreamIsOne /\ TurnsAreOne /\ RowsFollow
    BY DEF DialogueIInv
  <1>a. /\ log \in Seq(Event) /\ seen \in 0..Len(log) /\ handling \in {"due", "stored", "handled"}
        /\ stored \in Seq(Replies) /\ count \in Nat /\ Len(stored) \in {count, count + 1}
        /\ twice \subseteq Replies /\ missed \subseteq Replies
    BY <1>0, DialogueTyped
  <1>b. /\ handling # "due" => seen < Len(log)
        /\ handling = "stored" => Len(stored) = count + 1 /\ Coming = {stored[count + 1]}
        /\ OrderIn(stored, TurnsIn(log), twice)
        /\ Follows(stored, count, Had, Coming, twice, missed)
    BY <1>0 DEF RowsFollow
  <1>c. n \in 0..Len(log) /\ Had = TurnsIn(SubSeq(log, 1, n)) /\ Had \in Seq(Replies)
    <2>1. n \in 0..Len(log) /\ Had = TurnsIn(SubSeq(log, 1, n))
      BY <1>a, <1>b DEF Had, Given
    <2> QED
      BY <1>0, <2>1, TurnsOfTheFirst
  <1>d. ASSUME NEW some, Follows(stored, count, Had, {}, twice, missed)
        PROVE  Follows(stored, count, Had, some, twice, missed)
    BY <1>d DEF Follows
  \* The event after the checkpoint, and what was given with it.
  <1>e. ASSUME seen < Len(log)
        PROVE  /\ seen + 1 \in DOMAIN log /\ e.kind = "turn" => e.by \in Replies
               /\ TurnsIn(SubSeq(log, 1, seen)) \in Seq(Replies)
               /\ TurnsIn(SubSeq(log, 1, seen + 1)) =
                    IF e.kind = "turn" THEN Append(TurnsIn(SubSeq(log, 1, seen)), e.by)
                                       ELSE TurnsIn(SubSeq(log, 1, seen))
    <2>1. seen + 1 \in DOMAIN log /\ seen \in Nat
      BY <1>a, <1>e
    <2> QED
      BY <1>0, <1>a, <1>e, <2>1, TurnsOfTheNext, TurnsOfTheFirst DEF StreamIsOne
  <1>1. CASE UNCHANGED projection
    <2>1. UNCHANGED <<seen, handling, row, count, stored, twice, missed>>
      BY <1>1 DEF projection, table
    <2>2. /\ log' \in Seq(Event) /\ Len(log') >= Len(log) /\ \A i \in DOMAIN log : log'[i] = log[i]
          /\ SubSeq(log', 1, n) = SubSeq(log, 1, n)
          /\ OrderIn(stored, TurnsIn(log'), twice)
      BY <1>0, <1>b, <1>c, StreamGrows
    <2>3. Had' = Had
      BY <1>c, <2>1, <2>2 DEF Had, Given
    <2>4. Coming = {} \/ Coming' = Coming
      <3>1. CASE seen < Len(log)
        <4>1. e' = e /\ seen' < Len(log')
          BY <1>a, <1>e, <2>1, <2>2, <3>1
        <4> QED
          BY <2>1, <3>1, <4>1 DEF Coming
      <3>2. CASE ~(seen < Len(log))
        BY <3>2 DEF Coming
      <3> QED
        BY <3>1, <3>2
    <2>5. Follows(stored, count, Had, Coming', twice, missed)
      BY <1>b, <1>d, <2>4
    <2>6. handling = "stored" => Coming' = Coming
      BY <1>b, <2>4
    <2>7. Follows(stored', count', Had', Coming', twice', missed')
      BY <2>1, <2>3, <2>5
    <2>8. OrderIn(stored', TurnsIn(log'), twice')
      BY <2>1, <2>2
    <2>9. Typed /\ (handling' # "due" => seen' < Len(log'))
      BY <1>a, <1>b, <2>1, <2>2
    <2> QED
      BY <1>b, <2>1, <2>6, <2>7, <2>8, <2>9 DEF RowsFollow
  <1>2. CASE Project /\ ServiceStays /\ twice' = twice
    <2>0. log' = log
      BY <1>2 DEF ServiceStays
    \* What is left to show of a step that ends the handling of an event.
    <2>a. ASSUME seen < Len(log), handling # "handled", handling' = "handled", seen' = seen,
                 stored' \in Seq(Replies), count' \in Nat, Len(stored') \in {count', count' + 1},
                 missed' \subseteq Replies, OrderIn(stored', TurnsIn(log), twice),
                 Follows(stored', count', TurnsIn(SubSeq(log, 1, seen + 1)), {}, twice, missed')
          PROVE  RowsFollow' /\ Typed
      <3>1. Had' = TurnsIn(SubSeq(log, 1, seen + 1)) /\ Coming' = {}
        BY <2>0, <2>a DEF Had, Given, Coming
      <3>2. Follows(stored', count', Had', Coming', twice', missed')
        BY <1>2, <2>a, <3>1
      <3>3. OrderIn(stored', TurnsIn(log'), twice')
        BY <1>2, <2>0, <2>a
      <3> QED
        BY <1>a, <2>0, <2>a, <3>2, <3>3 DEF RowsFollow
    <2>b. ASSUME seen < Len(log), handling # "handled", e.kind # "turn"
          PROVE  /\ Coming = {} /\ Had = TurnsIn(SubSeq(log, 1, seen + 1))
                 /\ Follows(stored, count, TurnsIn(SubSeq(log, 1, seen + 1)), {}, twice, missed)
      <3>1. Coming = {} /\ Had = TurnsIn(SubSeq(log, 1, seen + 1))
        BY <1>c, <1>e, <2>b DEF Coming
      <3> QED
        BY <1>b, <3>1
    <2>c. ASSUME seen < Len(log), handling # "handled", e.kind = "turn"
          PROVE  /\ e.by \in Replies /\ Coming = {e.by}
                 /\ TurnsIn(SubSeq(log, 1, seen + 1)) = Append(Had, e.by)
                 /\ Follows(stored, count, Had, {e.by}, twice, missed)
      <3>1. e.by \in Replies /\ Coming = {e.by} /\ TurnsIn(SubSeq(log, 1, seen + 1)) = Append(Had, e.by)
        BY <1>c, <1>e, <2>c DEF Coming
      <3> QED
        BY <1>b, <3>1
    <2>1. CASE StartRow
      <3>1. /\ seen < Len(log) /\ handling = "due" /\ e.kind = "started" /\ handling' = "handled" /\ count' = 0
            /\ UNCHANGED <<seen, stored, missed>>
        BY <2>1 DEF StartRow, Arrives
      <3>2. seen + 1 = 1
        <4>1. \A i \in DOMAIN log : log[i].kind = "started" => i = 1
          BY <1>0 DEF StreamIsOne
        <4>2. seen + 1 \in DOMAIN log
          <5>1. seen < Len(log)
            BY <3>1
          <5> QED
            BY <1>a, <5>1
        <4>3. log[seen + 1].kind = "started"
          BY <3>1
        <4> QED
          BY <4>1, <4>2, <4>3
      <3>3. Had = <<>>
        <4>1. seen = 0 /\ n = 0
          BY <1>a, <3>1, <3>2
        <4>2. SubSeq(log, 1, 0) = <<>>
          BY <1>a
        <4>3. TurnsAt(<<>>) = {} /\ Cardinality({}) = 0
          BY FS_EmptySet DEF TurnsAt
        <4>4. DOMAIN TurnsIn(<<>>) = 1..0
          BY <4>3, TurnsByPlace
        <4>5. Had = TurnsIn(<<>>)
          BY <1>c, <4>1, <4>2
        <4>6. DOMAIN Had = {}
          BY <4>4, <4>5
        <4> QED
          BY <1>c, <4>6
      <3>4. DOMAIN stored = {}
        <4>1. Coming = {} /\ DOMAIN Had = {}
          BY <2>b, <3>1, <3>3
        <4> QED
          BY <1>b, <4>1 DEF Follows
      <3>5. count = 0
        BY <1>a, <3>4
      <3> QED
        BY <1>a, <1>b, <2>a, <2>b, <3>1, <3>5
    <2>2. CASE DropTurn
      <3>1. /\ seen < Len(log) /\ handling = "due" /\ e.kind = "turn" /\ handling' = "handled"
            /\ UNCHANGED <<seen, count, stored>> /\ missed' = missed \union {e.by}
        BY <2>2 DEF DropTurn, Arrives, table
      <3>2. Follows(stored, count, Append(Had, e.by), {}, twice, missed')
        BY <1>a, <1>c, <2>c, <3>1, MissedFollows
      <3> QED
        BY <1>a, <1>b, <2>a, <2>c, <3>1, <3>2
    <2>3. CASE StoreTurn
      <3>1. /\ seen < Len(log) /\ handling = "due" /\ e.kind = "turn" /\ handling' = "stored"
            /\ UNCHANGED <<seen, count, missed>> /\ stored' = Append(SubSeq(stored, 1, count), e.by)
        BY <2>3 DEF StoreTurn, Arrives
      <3>2. e.by \in Replies /\ Coming = {e.by} /\ TurnsIn(SubSeq(log, 1, seen + 1)) = Append(Had, e.by)
        BY <2>c, <3>1
      <3>3. Follows(stored', count, Had, {e.by}, twice, missed)
        BY <1>a, <1>c, <2>c, <3>1, StoredFollows
      <3>4. stored' \in Seq(Replies) /\ Len(stored') = count + 1 /\ stored'[count + 1] = e.by
        BY <1>a, <3>1, <3>2
      <3>5. OrderIn(stored', TurnsIn(log), twice)
        <4> DEFINE turns == TurnsIn(log)
                   m == Len(Had) + 1
        <4>a. turns \in Seq(Replies) /\ Once(turns)
          BY <1>0 DEF TurnsAreOne
        <4>b. /\ Len(TurnsIn(SubSeq(log, 1, seen + 1))) <= Len(turns)
              /\ \A k \in 1..Len(TurnsIn(SubSeq(log, 1, seen + 1))) : TurnsIn(SubSeq(log, 1, seen + 1))[k] = turns[k]
          <5>1. seen + 1 \in 0..Len(log)
            BY <1>a, <3>1
          <5> QED
            BY <1>0, <5>1, TurnsOfTheFirst
        <4> HIDE DEF turns
        <4>1. /\ turns \in Seq(Replies) /\ Once(turns)
              /\ Len(Append(Had, e.by)) <= Len(turns) /\ \A k \in 1..Len(Append(Had, e.by)) : Append(Had, e.by)[k] = turns[k]
          BY <3>2, <4>a, <4>b
        <4>2. /\ m \in DOMAIN turns /\ turns[m] = e.by /\ DOMAIN Had = 1..Len(Had)
              /\ \A k \in 1..Len(Had) : k \in DOMAIN turns /\ Had[k] = turns[k] /\ k < m
          <5> DEFINE who == e.by
          <5>1. /\ who \in Replies /\ Len(Append(Had, who)) <= Len(turns)
                /\ \A k \in 1..Len(Append(Had, who)) : Append(Had, who)[k] = turns[k]
            BY <3>2, <4>1
          <5> HIDE DEF who
          <5>2. /\ Len(Append(Had, who)) = m /\ Append(Had, who)[m] = who /\ m \in Nat
                /\ \A k \in 1..Len(Had) : Append(Had, who)[k] = Had[k] /\ k \in 1..m /\ k < m
                /\ DOMAIN Had = 1..Len(Had) /\ DOMAIN turns = 1..Len(turns) /\ Len(turns) \in Nat /\ m >= 1
            BY <1>c, <4>a, <5>1
          <5>3. m \in DOMAIN turns /\ turns[m] = who
            BY <5>1, <5>2
          <5>4. \A k \in 1..Len(Had) : k \in DOMAIN turns /\ Had[k] = turns[k] /\ k < m
            BY <5>1, <5>2
          <5> QED
            BY <5>2, <5>3, <5>4 DEF who
        <4>3. ASSUME NEW i \in 1..count, NEW k \in DOMAIN turns, turns[k] = stored[i]
              PROVE  k < m \/ (k = m /\ e.by \in twice)
          <5>1. i \in DOMAIN stored /\ i <= count
            BY <1>a
          <5>2. (\E l \in DOMAIN Had : Had[l] = stored[i]) \/ (stored[i] = e.by /\ e.by \in twice)
            BY <2>c, <3>1, <5>1 DEF Follows
          <5> QED
            BY <4>1, <4>2, <4>3, <5>2 DEF Once
        <4>4. count \in 0..Len(stored)
          BY <1>a
        <4> QED
          BY <1>a, <1>b, <3>1, <3>2, <4>1, <4>2, <4>3, <4>4, OrderExtends DEF turns
      <3>6. Had' = Had /\ Coming' = {e.by}
        BY <1>c, <2>0, <3>1 DEF Had, Given, Coming
      <3> QED
        BY <1>2, <1>a, <2>0, <3>1, <3>3, <3>4, <3>5, <3>6 DEF RowsFollow
    <2>4. CASE CountTurn
      <3>1. /\ handling = "stored" /\ count' = count + 1 /\ handling' = "handled" /\ UNCHANGED <<seen, stored, missed>>
        BY <2>4 DEF CountTurn
      <3>2. seen < Len(log) /\ Len(stored) = count + 1 /\ Coming = {stored[count + 1]}
        BY <1>b, <3>1
      <3>3. e.kind = "turn"
        BY <3>2 DEF Coming
      <3>4. e.by \in Replies /\ stored[count + 1] = e.by
        BY <2>c, <3>1, <3>2, <3>3
      <3>5. Follows(stored, count + 1, Append(Had, e.by), {}, twice, missed)
        BY <1>a, <1>c, <2>c, <3>1, <3>2, <3>3, <3>4, CountedFollows
      <3>6. count' \in Nat /\ Len(stored) = count'
        BY <1>a, <3>1, <3>2
      <3> QED
        BY <1>a, <1>b, <2>a, <2>c, <3>1, <3>2, <3>3, <3>5, <3>6
    <2>5. CASE HandleNote
      <3>1. /\ seen < Len(log) /\ handling = "due" /\ e.kind # "turn" /\ handling' = "handled"
            /\ UNCHANGED <<seen, count, stored, missed>>
        BY <2>5 DEF HandleNote, Arrives
      <3> QED
        BY <1>a, <1>b, <2>a, <2>b, <3>1
    <2>6. CASE FileEvent
      <3>1. /\ seen < Len(log) /\ handling # "handled" /\ handling' = "handled" /\ UNCHANGED <<seen, count, stored>>
            /\ missed' = IF e.kind = "turn" THEN missed \union {e.by} ELSE missed
        BY <2>6 DEF FileEvent, table
      <3>2. CASE e.kind = "turn"
        <4>1. Follows(stored, count, Append(Had, e.by), {}, twice, missed')
          BY <1>a, <1>c, <2>c, <3>1, <3>2, MissedFollows
        <4> QED
          BY <1>a, <1>b, <2>a, <2>c, <3>1, <3>2, <4>1
      <3>3. CASE e.kind # "turn"
        BY <1>a, <1>b, <2>a, <2>b, <3>1, <3>3
      <3> QED
        BY <3>2, <3>3
    <2>7. CASE SaveCheckpoint
      <3>1. /\ handling = "handled" /\ handling' = "due" /\ seen' = seen + 1 /\ UNCHANGED <<count, stored, missed>>
        BY <2>7 DEF SaveCheckpoint, table
      <3>2. Had' = Had /\ Coming = {}
        BY <2>0, <3>1 DEF Had, Given, Coming
      <3>3. Follows(stored, count, Had, Coming', twice, missed)
        BY <1>b, <1>d, <3>2
      <3>4. Follows(stored', count', Had', Coming', twice', missed')
        BY <1>2, <3>1, <3>2, <3>3
      <3>5. Typed
        BY <1>a, <1>b, <2>0, <3>1
      <3> QED
        BY <1>2, <1>b, <2>0, <3>1, <3>4, <3>5 DEF RowsFollow
    <2> QED
      BY <1>2, <2>1, <2>2, <2>3, <2>4, <2>5, <2>6, <2>7 DEF Project
  <1>3. CASE Restart
    <2>1. /\ handling' = "due" /\ UNCHANGED <<log, seen, row, count, stored, missed>>
          /\ twice' = IF handling = "handled" /\ e.kind = "turn" THEN twice \union {e.by} ELSE twice
      BY <1>3 DEF Restart, table
    <2>2. Had' = TurnsIn(SubSeq(log, 1, seen))
          /\ Coming' = IF seen < Len(log) /\ e.kind = "turn" THEN {e.by} ELSE {}
      BY <2>1 DEF Had, Given, Coming
    <2>3. CASE handling # "handled"
      <3>1. Had' = Had /\ Coming' = Coming /\ twice' = twice
        BY <1>c, <2>1, <2>2, <2>3 DEF Coming
      <3> QED
        BY <1>a, <1>b, <2>1, <3>1 DEF RowsFollow
    <2>4. CASE handling = "handled" /\ e.kind = "turn"
      <3>1. /\ seen < Len(log) /\ e.by \in Replies /\ Had' \in Seq(Replies)
            /\ Had = Append(Had', e.by) /\ Coming = {} /\ Coming' = {e.by} /\ twice' = twice \union {e.by}
        BY <1>b, <1>c, <1>e, <2>1, <2>2, <2>4 DEF Coming
      <3>2. Follows(stored, count, Had', {e.by}, twice', missed)
        BY <1>a, <1>b, <3>1, AgainFollows
      <3>3. OrderIn(stored, TurnsIn(log), twice')
        BY <1>b, <3>1 DEF OrderIn
      <3> QED
        BY <1>a, <2>1, <3>1, <3>2, <3>3 DEF RowsFollow
    <2>5. CASE handling = "handled" /\ e.kind # "turn"
      <3>1. Had' = Had /\ Coming = {} /\ Coming' = {} /\ twice' = twice
        BY <1>b, <1>c, <1>e, <2>1, <2>2, <2>5 DEF Coming
      <3> QED
        BY <1>a, <1>b, <2>1, <3>1 DEF RowsFollow
    <2> QED
      BY <2>3, <2>4, <2>5
  <1> QED
    BY <1>1, <1>2, <1>3, ProjectionMoves

\* The types of the dialogue.
LEMMA DialogueTypesStay == DialogueIInv /\ [DialogueNext]_dialogueVars => DialogueTypes'
  <1> SUFFICES ASSUME DialogueIInv, [DialogueNext]_dialogueVars PROVE DialogueTypes'
    OBVIOUS
  <1> DEFINE Places == {"new", "over", "scoring", "forgetting"} \union Busy
  <1>0. DialogueTypes /\ TurnsAreOne
    BY DEF DialogueIInv
  <1>a. /\ log \in Seq(Event) /\ (cache = None \/ cache \in Seq(Replies))
        /\ slot \in Replies \union {None} /\ history \in [Replies -> Seq(Replies)]
        /\ pc \in [Workers -> Places] /\ base \in [Workers -> 0..Len(log)]
        /\ Replies \subseteq Workers /\ Attempts \subseteq Workers /\ Enders \subseteq Workers
        /\ progress \subseteq Attempts /\ answered \subseteq Replies /\ excused \subseteq Replies
        /\ stale \in BOOLEAN /\ restarts \in 0..MaxRestarts
    BY <1>0, DialogueTyped DEF DialogueTypes
  \* The projection's own variables.
  <1>p. /\ handling' \in {"due", "stored", "handled"} /\ row' \in {"none", "open", "concluded"}
        /\ lapses' \in 0..MaxLapses /\ twice' \subseteq Replies
    <2>1. /\ handling \in {"due", "stored", "handled"} /\ row \in {"none", "open", "concluded"}
          /\ lapses \in 0..MaxLapses /\ twice \subseteq Replies /\ seen \in 0..Len(log)
      BY <1>0, DialogueTyped DEF DialogueTypes
    <2>2. CASE UNCHANGED projection
      BY <2>1, <2>2 DEF projection, table
    <2>3. CASE Project /\ twice' = twice
      <3>1. /\ handling' \in {"due", "stored", "handled"} /\ row' \in {row, "none", "open", "concluded"}
            /\ lapses' = lapses \/ (lapses < MaxLapses /\ lapses' = lapses + 1)
        BY <2>3 DEF Project, StartRow, DropTurn, StoreTurn, CountTurn, HandleNote, FileEvent, SaveCheckpoint, table
      <3> QED
        BY <2>1, <2>3, <3>1, DialogueBounds
    <2>4. CASE Restart
      <3>1. handling = "handled" /\ log[seen + 1].kind = "turn" => log[seen + 1].by \in Replies
        <4> SUFFICES ASSUME handling = "handled", log[seen + 1].kind = "turn" PROVE log[seen + 1].by \in Replies
          OBVIOUS
        <4>1. seen < Len(log) /\ StreamIsOne
          BY DEF DialogueIInv, RowsFollow
        <4>2. seen + 1 \in DOMAIN log
          BY <1>a, <2>1, <4>1
        <4> QED
          BY <4>1, <4>2 DEF StreamIsOne
      <3>2. twice' \subseteq Replies
        BY <2>1, <2>4, <3>1 DEF Restart
      <3> QED
        BY <2>1, <2>4, <3>2 DEF Restart, table
    <2> QED
      BY <2>2, <2>3, <2>4, ProjectionMoves
  <1>b. ASSUME log' \in Seq(Event), cache' = None \/ cache' \in Seq(Replies),
               slot' \in Replies \union {None}, history' \in [Replies -> Seq(Replies)],
               pc' \in [Workers -> Places], base' \in [Workers -> 0..Len(log')],
               progress' \subseteq Attempts, answered' \subseteq Replies, excused' \subseteq Replies,
               stale' \in BOOLEAN, restarts' \in 0..MaxRestarts
        PROVE  DialogueTypes'
    <2>1. /\ count' \in Nat /\ stored' \in Seq(Replies) /\ Len(stored') \in {count', count' + 1}
          /\ seen' \in 0..Len(log') /\ missed' \subseteq Replies
      BY RowsStay
    <2> QED
      BY <1>b, <1>p, <2>1 DEF DialogueTypes
  \* A stream that only grows has room for what was counted on it.
  <1>c. ASSUME log' \in Seq(Event), Len(log') >= Len(log)
        PROVE  base \in [Workers -> 0..Len(log')]
    <2>1. 0..Len(log) \subseteq 0..Len(log')
      BY <1>a, <1>c
    <2> QED
      BY <1>a, <2>1
  <1>1. ASSUME NEW r \in Replies, Reply(r) \/ Abandon(r) PROVE DialogueTypes'
    <2>1. CASE SaveReply(r)
      <3>1. log' \in Seq(Event) /\ Len(log') >= Len(log)
        BY <1>0, <2>1, TurnsOfASave
      <3>2. UNCHANGED <<cache, slot, history, base, shown, why, restarts>> /\ pc' = [pc EXCEPT ![r] = "saved"]
        BY <2>1 DEF SaveReply, Go
      <3>3. pc' \in [Workers -> Places]
        BY <1>a, <3>2 DEF Busy
      <3> QED
        BY <1>a, <1>b, <1>c, <3>1, <3>2, <3>3 DEF shown, why
    <2>2. CASE Remember(r)
      <3>1. UNCHANGED <<log, slot, history, base, progress, excused, restarts>>
            /\ cache' = Append(history[r], r) /\ stale' \in BOOLEAN /\ answered' \subseteq Replies
        BY <1>a, <2>2 DEF Remember
      <3>2. cache' \in Seq(Replies)
        BY <1>a, <3>1
      <3>3. pc' \in [Workers -> Places]
        BY <1>a, <2>2 DEF Remember, Go, Busy
      <3> QED
        BY <1>a, <1>b, <3>1, <3>2, <3>3
    <2>3. CASE ~SaveReply(r) /\ ~Remember(r)
      <3>1. UNCHANGED <<log, cache, answered, progress>>
        BY <1>0, <1>1, <2>3, QuietReply
      <3>2. history' \in [Replies -> Seq(Replies)] /\ excused' \subseteq Replies
        <4>1. stored \in Seq(Replies)
          BY <1>0, DialogueTyped
        <4>2. \/ history' = history /\ excused' = excused
              \/ /\ cache # None /\ history' = [history EXCEPT ![r] = cache]
                 /\ excused' \in {excused, excused \union {r}}
              \/ /\ history' = [history EXCEPT ![r] = stored]
                 /\ excused' \in {excused, excused \union {r}}
          BY <1>0, <1>1, <2>3, HistoriesMove
        <4>3. history' \in [Replies -> Seq(Replies)]
          BY <1>a, <4>1, <4>2
        <4>4. excused' \subseteq Replies
          BY <1>a, <4>2
        <4> QED
          BY <4>3, <4>4
      <3>3. /\ UNCHANGED restarts /\ stale' \in BOOLEAN /\ slot' \in Replies \union {None}
            /\ base' \in [Workers -> 0..Len(log)] /\ pc' \in [Workers -> Places]
        <4>1. CASE Respond(r)
          BY <1>a, <4>1 DEF Respond, Go, Busy
        <4>2. CASE ReadRow(r) \/ ReadTurns(r) \/ Ask(r) \/ ModelAnswers(r) \/ LoseReply(r) \/ Finish(r) \/ Fail(r)
          <5>1. /\ UNCHANGED <<restarts, base, stale>> /\ (slot' = slot \/ slot' = None)
                /\ \E place \in {"over", "turns", "opened", "asking", "loading"} : pc' = [pc EXCEPT ![r] = place]
            BY <4>2 DEF ReadRow, ReadTurns, Ask, ModelAnswers, LoseReply, Finish, Fail, Leave, Go, why
          <5>2. pc' \in [Workers -> Places]
            BY <1>a, <5>1 DEF Busy
          <5> QED
            BY <1>a, <5>1, <5>2
        <4>3. CASE LoadReply(r)
          <5>1. Len(log) \in 0..Len(log)
            BY <1>a
          <5> QED
            BY <1>a, <4>3, <5>1 DEF LoadReply, Leave, Go, why, Busy
        <4>4. CASE Abandon(r)
          BY <1>a, <4>4 DEF Abandon, Leave, Go, Busy
        <4> QED
          BY <1>1, <2>3, <4>1, <4>2, <4>3, <4>4 DEF Reply
      <3> QED
        BY <1>a, <1>b, <3>1, <3>2, <3>3
    <2> QED
      BY <2>1, <2>2, <2>3
  <1>2. ASSUME NEW w \in Attempts \union Enders, (w \in Attempts /\ Attempt(w)) \/ (w \in Enders /\ End(w))
        PROVE  DialogueTypes'
    <2>1. /\ UNCHANGED <<slot, history, answered, excused>> /\ log' \in Seq(Event) /\ Len(log') >= Len(log)
          /\ (cache' = cache /\ stale' = stale) \/ cache' = None
          /\ progress' \subseteq Attempts
      BY <1>0, <1>2, OtherSteps
    <2>2. w \in Workers /\ Len(log) \in 0..Len(log)
      BY <1>a
    <2>3. /\ UNCHANGED restarts /\ stale' \in BOOLEAN
          /\ pc' \in [Workers -> Places]
          /\ base' = base \/ (log' = log /\ base' \in [Workers -> 0..Len(log)])
      <3>1. /\ UNCHANGED restarts /\ (stale' = stale \/ stale' = FALSE)
            /\ \E place \in {"loading", "saving", "scoring", "forgetting", "over"} : pc' = [pc EXCEPT ![w] = place]
            /\ base' = base \/ (log' = log /\ base' = [base EXCEPT ![w] = Len(log)])
        <4>1. CASE w \in Attempts /\ Attempt(w)
          BY <4>1 DEF Attempt, BeginAttempt, LoadAttempt, Observe, Score, FailAttempt, Load, Lose, Go, why
        <4>2. CASE w \in Enders /\ End(w)
          BY <4>2 DEF End, BeginEnd, LoadEnd, Conclude, FailEnd, Forget, Load, Lose, Go, why
        <4> QED
          BY <1>2, <4>1, <4>2
      <3>2. pc' \in [Workers -> Places]
        BY <1>a, <3>1 DEF Busy
      <3>3. [base EXCEPT ![w] = Len(log)] \in [Workers -> 0..Len(log)]
        BY <1>a, <2>2
      <3> QED
        BY <1>a, <3>1, <3>2, <3>3
    <2>4. base' \in [Workers -> 0..Len(log')]
      BY <1>c, <2>1, <2>3
    <2> QED
      BY <1>a, <1>b, <2>1, <2>3, <2>4
  <1>3. CASE Evict \/ UNCHANGED dialogueVars
    BY <1>a, <1>b, <1>3 DEF Evict, dialogueVars, shown, why
  <1>4. CASE Project
    <2>1. ServiceStays
      BY <1>4 DEF Project, StartRow, DropTurn, StoreTurn, CountTurn, HandleNote, FileEvent, SaveCheckpoint
    <2> QED
      BY <1>a, <1>b, <2>1 DEF ServiceStays, shown, why
  <1>5. CASE Restart
    <2>1. restarts' \in 0..MaxRestarts
      BY <1>a, <1>5, DialogueBounds DEF Restart
    <2>2. pc' \in [Workers -> Places]
      BY <1>a, <1>5 DEF Restart
    <2> QED
      BY <1>a, <1>b, <1>5, <2>1, <2>2 DEF Restart, shown
  <1> QED
    BY <1>1, <1>2, <1>3, <1>4, <1>5 DEF DialogueNext

\* The dialogue that begin leaves: one event, no turn, an entry without any.
LEMMA DialogueStarts == DialogueInit => DialogueIInv
  <1> SUFFICES ASSUME DialogueInit PROVE DialogueIInv
    OBVIOUS
  <1> DEFINE e == [kind |-> "started", by |-> None]
  <1>1. /\ e \in Event /\ e.kind = "started" /\ e.by = None /\ log = <<e>> /\ seen = 0
        /\ None \notin Workers /\ Replies \subseteq Workers
    BY WorkersAssumption DEF DialogueInit, Event, Workers
  <1>2. TurnsIn(log) = <<>>
    <2>1. TurnsAt(log) = {}
      BY <1>1 DEF TurnsAt
    <2>2. Cardinality({}) = 0
      BY FS_EmptySet
    <2>3. DOMAIN TurnsIn(log) = 1..0
      BY <2>1, <2>2, TurnsByPlace
    <2>4. TurnsIn(log) = [k \in 1..0 |-> TurnsIn(log)[k]]
      BY <2>1, <2>2, <2>3, TurnsByPlace
    <2> QED
      BY <2>4
  <1> HIDE DEF e
  <1>3. log \in Seq(Event) /\ Len(log) = 1 /\ DOMAIN log = {1} /\ log[1] = e
    BY <1>1
  <1>p. /\ pc = [w \in Workers |-> "new"] /\ base = [w \in Workers |-> 0]
        /\ history = [r \in Replies |-> <<>>] /\ progress = {} /\ answered = {} /\ excused = {}
        /\ cache = <<>> /\ slot = None /\ stale = FALSE /\ restarts = 0
        /\ handling = "due" /\ row = "none" /\ count = 0 /\ stored = <<>>
        /\ twice = {} /\ missed = {} /\ lapses = 0
    BY DEF DialogueInit
  <1>q. /\ <<>> \in Seq(Replies) /\ DOMAIN <<>> = {} /\ \A w \in Workers : pc[w] = "new"
        /\ \A r \in Replies : history[r] = <<>> /\ pc[r] = "new" /\ r # None
    <2>1. <<>> \in Seq(Replies) /\ DOMAIN <<>> = {}
      OBVIOUS
    <2> QED
      BY <1>1, <1>p, <2>1
  <1>4. DialogueTypes
    <2>1. seen \in 0..Len(log) /\ 0 \in 0..Len(log) /\ 0 \in 0..MaxRestarts /\ 0 \in 0..MaxLapses
      BY <1>1, <1>3, DialogueBounds
    <2>2. /\ pc \in [Workers -> {"new", "over", "scoring", "forgetting"} \union Busy]
          /\ history \in [Replies -> Seq(Replies)] /\ base \in [Workers -> 0..Len(log)]
      BY <1>p, <1>q, <2>1
    <2>3. 0 \in Nat /\ Len(stored) = 0
      BY <1>p
    <2> QED
      BY <1>3, <1>p, <1>q, <2>1, <2>2, <2>3 DEF DialogueTypes
  <1>5. StreamIsOne
    <2>1. log # <<>>
      BY <1>3
    <2>2. ASSUME NEW i \in DOMAIN log
          PROVE  i = 1 /\ Len(log) = 1 /\ log[i].kind = "started" /\ log[i].by = None
      BY <1>1, <1>3, <2>2
    <2>3. \A w \in Workers : w # None /\ pc[w] # "saving"
      BY <1>1, <1>q
    <2>4. \A a \in Attempts : pc[a] # "scoring" /\ a \notin progress
      BY <1>p, <1>q DEF Workers
    <2> QED
      BY <2>1, <2>2, <2>3, <2>4 DEF StreamIsOne
  <1>6. TurnsAreOne
    <2>1. TurnsIn(log) \in Seq(Replies) /\ DOMAIN TurnsIn(log) = {}
      BY <1>2, <1>q
    <2>2. ASSUME NEW r \in Replies
          PROVE  pc[r] = "new" /\ slot # r /\ pc[r] \notin Busy /\ r \notin answered
      BY <1>p, <1>q DEF Busy
    <2> QED
      BY <2>1, <2>2 DEF TurnsAreOne, Once
  <1>7. HistoriesInOrder
    BY <1>2, <1>p, <1>q DEF HistoriesInOrder, OrderIn
  <1>8. EntryFollows
    BY <1>2, <1>p, <1>q DEF EntryFollows
  <1>9. RowsFollow
    <2>1. Given = 0 /\ Coming = {}
      BY <1>1, <1>3, <1>p DEF Given, Coming
    <2>2. Had = <<>>
      <3>1. SubSeq(log, 1, 0) = <<>> /\ TurnsAt(<<>>) = {} /\ Cardinality({}) = 0
        BY <1>3, FS_EmptySet DEF TurnsAt
      <3> DEFINE none == TurnsIn(SubSeq(log, 1, 0))
      <3>2. none \in Seq(Replies)
        BY <1>3, <1>4, <1>6, TurnsOfTheFirst
      <3>3. DOMAIN none = 1..Cardinality(TurnsAt(SubSeq(log, 1, 0)))
        BY TurnsByPlace
      <3>4. DOMAIN none = 1..0
        BY <3>1, <3>3
      <3>5. Had = none
        BY <2>1 DEF Had
      <3> HIDE DEF none
      <3>6. none = <<>>
        BY <3>2, <3>4
      <3> QED
        BY <3>5, <3>6
    <2>3. DOMAIN stored = {} /\ DOMAIN Had = {} /\ Len(Had) = 0
      BY <1>p, <1>q, <2>2
    <2>4. Follows(stored, count, Had, Coming, twice, missed)
      BY <1>p, <2>3 DEF Follows
    <2>5. OrderIn(stored, TurnsIn(log), twice)
      BY <2>3 DEF OrderIn
    <2> QED
      BY <1>p, <2>4, <2>5 DEF RowsFollow
  <1> QED
    BY <1>4, <1>5, <1>6, <1>7, <1>8, <1>9 DEF DialogueIInv

\* The strengthening is inductive.
THEOREM DialogueInvariant == DialogueSpec => []DialogueIInv
  <1>1. DialogueIInv /\ [DialogueNext]_dialogueVars => DialogueIInv'
    BY DialogueTypesStay, DialogueStreamStays, TurnsStay, HistoriesStay, EntryStays, RowsStay DEF DialogueIInv
  <1> QED
    BY DialogueStarts, <1>1, PTL DEF DialogueSpec

\* The stream, the entry and what the model is asked with agree, for any number of
\* replies, attempts, ends and restarts.
THEOREM DialogueFollows == DialogueSpec => []DialogueInv
  <1>1. DialogueIInv => DialogueInv
    <2> SUFFICES ASSUME DialogueIInv PROVE DialogueInv
      OBVIOUS
    <2> DEFINE turns == TurnsIn(log)
    <2>0. DialogueTypes /\ StreamIsOne /\ TurnsAreOne /\ HistoriesInOrder /\ EntryFollows /\ RowsFollow
      BY DEF DialogueIInv
    <2>a. /\ turns \in Seq(Replies) /\ history \in [Replies -> Seq(Replies)] /\ answered \subseteq Replies
          /\ (cache = None \/ cache \in Seq(Replies))
      BY <2>0, DialogueTyped DEF TurnsAreOne
    <2>1. \A i \in DOMAIN log :
            /\ log[i].kind = "started" <=> i = 1
            /\ log[i].kind = "concluded" => i = Len(log)
            /\ \A j \in DOMAIN log : log[i] = log[j] => i = j
      BY <2>0 DEF StreamIsOne
    <2>2. answered \subseteq Range(turns)
      BY <2>0, <2>a DEF TurnsAreOne, Range
    <2>3. \A r \in Replies : pc[r] \in Busy <=> slot = r
      BY <2>0 DEF TurnsAreOne
    <2>4. ASSUME NEW h \in {history[r] : r \in Replies} \union {stored} \union ({cache} \ {None})
          PROVE  InOrder(h)
      <3>1. OrderIn(h, turns, twice)
        BY <2>0 DEF HistoriesInOrder, RowsFollow
      <3> QED
        BY <3>1 DEF OrderIn, InOrder
    <2>5. cache # None /\ ~stale => IsPrefix(cache, turns)
      <3> SUFFICES ASSUME cache # None, ~stale PROVE IsPrefix(cache, turns)
        OBVIOUS
      <3>1. turns = cache \/ \E r \in Replies : turns = Append(cache, r)
        BY <2>0 DEF EntryFollows
      <3>c. cache \in Seq(Replies)
        BY <2>a
      <3>2. Len(cache) <= Len(turns) /\ \A k \in 1..Len(cache) : cache[k] = turns[k]
        <4>1. CASE turns = cache
          BY <3>c, <4>1
        <4>2. ASSUME NEW r \in Replies, turns = Append(cache, r)
              PROVE  Len(cache) <= Len(turns) /\ \A k \in 1..Len(cache) : cache[k] = turns[k]
          <5> HIDE DEF turns
          <5> QED
            BY <3>c, <4>2
        <4> QED
          BY <3>1, <4>1, <4>2
      <3> HIDE DEF turns
      <3>3. SubSeq(cache, 1, Len(cache)) = SubSeq(turns, 1, Len(cache))
        <4> DEFINE first == SubSeq(turns, 1, Len(cache))
        <4>1. Len(cache) \in Nat /\ \A k \in 1..Len(cache) : turns[k] \in Replies
          BY <2>a, <3>c, <3>2
        <4>2. first \in Seq(Replies) /\ Len(first) = Len(cache) /\ \A k \in 1..Len(cache) : first[k] = cache[k]
          BY <3>2, <4>1
        <4> HIDE DEF first
        <4>3. first = cache
          BY <3>c, <4>2, SeqEqual
        <4>4. SubSeq(cache, 1, Len(cache)) = cache
          BY <3>c, SubSeqFull
        <4> QED
          BY <4>3, <4>4 DEF first
      <3> QED
        BY <2>a, <3>c, <3>2, <3>3 DEF IsPrefix
    <2>6. Range(TurnsIn(SubSeq(log, 1, seen))) \ missed \subseteq Range(stored)
      <3> DEFINE first == TurnsIn(SubSeq(log, 1, seen))
      <3>1. /\ log \in Seq(Event) /\ seen \in 0..Len(log) /\ stored \in Seq(Replies) /\ count \in Nat
            /\ Len(stored) \in {count, count + 1} /\ first \in Seq(Replies)
        BY <2>0, DialogueTyped, TurnsOfTheFirst
      <3>2. Had \in Seq(Replies) /\ (first = Had \/ \E r \in Replies : Had = Append(first, r))
        <4>1. CASE handling # "handled"
          BY <3>1, <4>1 DEF Had, Given
        <4>2. CASE handling = "handled"
          <5>1. seen < Len(log) /\ seen \in Nat /\ seen + 1 \in DOMAIN log /\ Had = TurnsIn(SubSeq(log, 1, seen + 1))
            BY <2>0, <3>1, <4>2 DEF RowsFollow, Had, Given
          <5>2. log[seen + 1].kind = "turn" => log[seen + 1].by \in Replies
            BY <2>0, <5>1 DEF StreamIsOne
          <5>3. Had = IF log[seen + 1].kind = "turn" THEN Append(first, log[seen + 1].by) ELSE first
            BY <2>0, <5>1, TurnsOfTheNext
          <5> HIDE DEF first
          <5> QED
            BY <3>1, <5>2, <5>3
        <4> QED
          BY <4>1, <4>2
      <3> HIDE DEF first
      <3>3. \A k \in DOMAIN first : k \in DOMAIN Had /\ Had[k] = first[k]
        BY <3>1, <3>2
      <3>4. \A k \in DOMAIN Had : Had[k] \in missed \/ \E i \in 1..count : stored[i] = Had[k]
        BY <2>0 DEF RowsFollow, Follows
      <3>5. 1..count \subseteq DOMAIN stored
        BY <3>1
      <3>6. Range(first) \ missed \subseteq Range(stored)
        BY <3>3, <3>4, <3>5 DEF Range
      <3> QED
        BY <3>6 DEF first
    <2> QED
      BY <2>0, <2>1, <2>2, <2>3, <2>4, <2>5, <2>6 DEF DialogueInv
  <1> QED
    BY DialogueInvariant, <1>1, PTL

\* An answer is handed over with its turn's place on the stream, which is where the
\* table keeps it, unless a turn up to it was missed or may have been handled twice.
THEOREM AnswersKeepTheirPosition == DialogueSpec => []PositionsAgree
  <1>1. DialogueIInv => PositionsAgree
    <2> DEFINE turns == TurnsIn(log)
    <2> SUFFICES ASSUME DialogueIInv, NEW r \in answered \ excused, NEW place, place = Len(history[r]) + 1
                 PROVE  /\ turns[place] = r
                        /\ \A p \in DOMAIN stored :
                             (\A k \in 1..place : turns[k] \notin twice \union missed) =>
                               (stored[p] = r <=> p = place)
      BY DEF PositionsAgree
    <2>0. DialogueTypes /\ TurnsAreOne /\ RowsFollow
      BY DEF DialogueIInv
    <2>1. /\ r \in Replies /\ history[r] \in Seq(Replies) /\ log \in Seq(Event) /\ seen \in 0..Len(log)
          /\ stored \in Seq(Replies) /\ count \in Nat /\ Len(stored) \in {count, count + 1}
          /\ handling \in {"due", "stored", "handled"}
      BY <2>0, DialogueTyped
    <2>2. place \in DOMAIN turns /\ turns[place] = r
      BY <2>1 DEF DialogueIInv, EntryFollows
    <2>3. turns \in Seq(Replies) /\ Once(turns)
      BY <2>0 DEF TurnsAreOne
    <2>4. ASSUME NEW p \in DOMAIN stored, \A k \in 1..place : turns[k] \notin twice \union missed
          PROVE  stored[p] = r <=> p = place
      <3>1. /\ Had \in Seq(Replies) /\ Len(Had) <= Len(turns) /\ \A k \in 1..Len(Had) : Had[k] = turns[k]
            /\ Coming # {} => /\ Len(Had) + 1 \in DOMAIN turns
                              /\ Coming = {turns[Len(Had) + 1]}
        <4>1. Given \in 0..Len(log)
          BY <2>0, <2>1 DEF Given, RowsFollow
        <4>2. Had \in Seq(Replies) /\ Len(Had) <= Len(turns) /\ \A k \in 1..Len(Had) : Had[k] = turns[k]
          BY <2>0, <4>1, TurnsOfTheFirst DEF Had
        <4>3. ASSUME Coming # {}
              PROVE  Len(Had) + 1 \in DOMAIN turns /\ Coming = {turns[Len(Had) + 1]}
          <5> DEFINE next == TurnsIn(SubSeq(log, 1, seen + 1))
                     who == log[seen + 1].by
          <5>1. /\ handling # "handled" /\ seen < Len(log) /\ log[seen + 1].kind = "turn" /\ Coming = {who}
                /\ Given = seen /\ seen \in Nat /\ seen + 1 \in 0..Len(log) /\ seen + 1 \in DOMAIN log
            BY <2>1, <4>3 DEF Coming, Given
          <5>2. next = Append(Had, who) /\ who \in Replies
            BY <2>0, <5>1, TurnsOfTheNext DEF Had, DialogueIInv, StreamIsOne
          <5>3. Len(next) <= Len(turns) /\ \A k \in 1..Len(next) : next[k] = turns[k]
            BY <2>0, <5>1, TurnsOfTheFirst
          <5> HIDE DEF next, who, turns
          <5> QED
            BY <2>3, <4>2, <5>1, <5>2, <5>3
        <4> QED
          BY <4>2, <4>3
      <3>2. /\ Follows(stored, count, Had, Coming, twice, missed)
            /\ \A i, j \in DOMAIN stored : \A k, l \in DOMAIN turns :
                 i < j /\ turns[k] = stored[i] /\ turns[l] = stored[j] => k < l \/ (k = l /\ stored[i] \in twice)
        BY <2>0 DEF RowsFollow, OrderIn
      <3> HIDE DEF turns
      <3>n. /\ place \in Nat \ {0} /\ Len(Had) \in Nat /\ DOMAIN turns = 1..Len(turns) /\ Len(turns) \in Nat
            /\ DOMAIN Had = 1..Len(Had) /\ DOMAIN stored = 1..Len(stored) /\ p \in Nat /\ r \notin twice
        BY <2>1, <2>2, <2>3, <2>4, <3>1
      <3>3. \A n \in 1..Len(Had) : n <= place => Spared(Had, n, twice, missed)
        BY <2>4, <3>1, <3>n DEF Spared
      <3>m. count \in Nat /\ Len(stored) \in Nat /\ count <= Len(stored) /\ Len(stored) <= count + 1
        BY <2>1
      \* A second row of the turn would be one that was handled twice.
      <3>4. ASSUME NEW i \in DOMAIN stored, NEW j \in DOMAIN stored, stored[i] = r, stored[j] = r PROVE i = j
        <4>1. ~(i < j) /\ ~(j < i)
          BY <2>2, <3>2, <3>4, <3>n
        <4> QED
          BY <3>n, <4>1
      <3>5. CASE place <= Len(Had)
        <4>1. place <= count /\ stored[place] = r
          BY <2>2, <3>1, <3>2, <3>3, <3>5, <3>n DEF Follows
        <4>2. place \in DOMAIN stored
          BY <2>1, <3>n, <4>1
        <4> QED
          BY <3>4, <4>1, <4>2
      <3>6. CASE place > Len(Had)
        <4>1. Spared(Had, Len(Had), twice, missed)
          BY <2>4, <3>1, <3>6, <3>n DEF Spared
        <4>2. twice \intersect Coming = {}
          <5>1. CASE Coming = {}
            BY <5>1
          <5>2. CASE Coming # {}
            <6>1. Len(Had) + 1 \in 1..place
              BY <3>6, <3>n
            <6> QED
              BY <2>4, <3>1, <5>2, <6>1
          <5> QED
            BY <5>1, <5>2
        <4>3. count = Len(Had)
          BY <3>2, <4>1, <4>2 DEF Follows
        <4>4. ASSUME NEW k \in 1..Len(Had) PROVE k \in DOMAIN stored /\ stored[k] = Had[k] /\ Had[k] \notin twice
          <5>1. k \in Nat /\ 1 <= k /\ k <= place /\ k \in 1..place /\ k \in DOMAIN Had
            BY <3>6, <3>n
          <5>2. Spared(Had, k, twice, missed)
            BY <3>3, <5>1
          <5>3. k <= count /\ stored[k] = Had[k]
            BY <3>2, <5>1, <5>2 DEF Follows
          <5>4. k \in DOMAIN stored
            BY <3>m, <3>n, <5>1, <5>3
          <5>5. Had[k] = turns[k] /\ turns[k] \notin twice
            BY <2>4, <3>1, <5>1
          <5> QED
            BY <5>3, <5>4, <5>5
        <4>5. p \in 1..Len(Had) => p # place /\ stored[p] # r
          BY <2>2, <2>3, <3>1, <3>6, <3>n, <4>4 DEF Once
        <4>6. CASE p = Len(Had) + 1
          <5>1. ASSUME NEW k \in 1..Len(Had), Had[k] = stored[p] PROVE FALSE
            <6>1. k \in DOMAIN turns /\ k \in Nat /\ k < p
              BY <3>1, <3>n, <4>6, <5>1
            <6>2. k \in DOMAIN stored /\ stored[k] = Had[k] /\ Had[k] = turns[k] /\ stored[k] \notin twice
              BY <3>1, <4>4, <5>1
            <6>3. p \in DOMAIN stored /\ turns[k] = stored[k] /\ turns[k] = stored[p]
              BY <2>4, <5>1, <6>2
            <6>4. k < k \/ (k = k /\ stored[k] \in twice)
              BY <3>2, <6>1, <6>2, <6>3
            <6> QED
              BY <6>1, <6>2, <6>4
          <5>2. stored[p] \in Coming
            BY <2>4, <3>2, <3>n, <5>1 DEF Follows
          <5>3. Len(Had) + 1 \in DOMAIN turns /\ stored[p] = turns[Len(Had) + 1]
            BY <3>1, <5>2
          <5> QED
            BY <2>2, <2>3, <3>n, <4>6, <5>3 DEF Once
        <4>7. p \in 1..Len(Had) \/ p = Len(Had) + 1
          BY <2>4, <3>m, <3>n, <4>3
        <4> QED
          BY <4>5, <4>6, <4>7
      <3> QED
        BY <3>5, <3>6, <3>n
    <2> QED
      BY <2>2, <2>4
  <1> QED
    BY DialogueInvariant, <1>1, PTL

\* No attempt counts for a reader that the dialogue's stream does not have.
THEOREM ProgressIsObserved == DialogueSpec => []AttemptsAreObserved
  <1>1. DialogueIInv => AttemptsAreObserved
    <2> SUFFICES ASSUME DialogueIInv, NEW a \in progress
                 PROVE  \E i \in DOMAIN log : log[i] = [kind |-> "observed", by |-> a]
      BY DEF AttemptsAreObserved
    <2>1. a \in Attempts
      BY DialogueTyped DEF DialogueIInv
    <2> QED
      BY <2>1 DEF DialogueIInv, StreamIsOne
  <1> QED
    BY DialogueInvariant, <1>1, PTL

(***************************************************************************)
(* What is left of a reply, an attempt or an end.                          *)
(***************************************************************************)
\* The awaits before a worker's end.
AwaitsFrom(place) ==
  CASE place = "new"     -> 9
    [] place = "row"     -> 8
    [] place = "turns"   -> 7
    [] place = "opened"  -> 6
    [] place = "asking"  -> 5
    [] place = "loading" -> 4
    [] place = "saving"  -> 3
    [] place \in {"saved", "scoring", "forgetting"} -> 2
    [] place = "told"    -> 1
    [] OTHER -> 0

\* Whoever has the slot is a reply that has awaits before it, and no other has.
SlotIsAtWork ==
  /\ slot # None => slot \in Replies /\ AwaitsFrom(pc[slot]) > 0
  /\ \A r \in Replies : pc[r] \in Busy => slot = r

OwnTurn(w) ==
  \/ w \in Replies /\ (Reply(w) \/ Abandon(w))
  \/ w \in Attempts /\ Attempt(w)
  \/ w \in Enders /\ End(w)

\* Each step of a worker brings it nearer to its end, and no other worker's
\* save, no eviction and no restart sets it back.
WorkersComeCloser ==
  [][\A w \in Workers :
       /\ OwnTurn(w) => AwaitsFrom(pc'[w]) < AwaitsFrom(pc[w])
       /\ AwaitsFrom(pc'[w]) <= AwaitsFrom(pc[w])]_dialogueVars

\* The awaits from a place are a number, and none is left from one place only.
LEMMA AwaitsCount ==
  \A place : AwaitsFrom(place) \in Nat /\ (AwaitsFrom(place) = 0 <=>
    place \notin Busy \union {"new", "scoring", "forgetting"})
  BY DEF AwaitsFrom, Busy

\* Where a reply is after a step of its own.
LEMMA RepliesGoOn ==
  ASSUME DialogueTypes, NEW r \in Replies, Reply(r) \/ Abandon(r)
  PROVE  /\ AwaitsFrom(pc'[r]) < AwaitsFrom(pc[r])
         /\ \A v \in Workers \ {r} : pc'[v] = pc[v]
  <1>a. pc \in [Workers -> {"new", "over", "scoring", "forgetting"} \union Busy] /\ r \in Workers
    BY DialogueTyped
  <1>1. \/ pc[r] = "new" /\ pc'[r] \in {"row", "opened"}
        \/ pc[r] = "row" /\ pc'[r] = "turns"
        \/ pc[r] = "turns" /\ pc'[r] = "opened"
        \/ pc[r] = "opened" /\ pc'[r] = "asking"
        \/ pc[r] = "asking" /\ pc'[r] = "loading"
        \/ pc[r] = "loading" /\ pc'[r] = "saving"
        \/ pc[r] = "saving" /\ pc'[r] = "saved"
        \/ pc[r] = "saved" /\ pc'[r] = "told"
        \/ pc[r] \in Busy \union {"new"} /\ pc'[r] = "over"
    <2>1. CASE Respond(r)
      BY <1>a, <2>1 DEF Respond, Go
    <2>2. CASE ReadRow(r) \/ ReadTurns(r) \/ Ask(r) \/ ModelAnswers(r) \/ LoadReply(r)
      BY <1>a, <2>2 DEF ReadRow, ReadTurns, Ask, ModelAnswers, LoadReply, Leave, Go, Busy
    <2>3. CASE SaveReply(r) \/ Remember(r)
      BY <1>a, <2>3 DEF SaveReply, Remember, Go
    <2>4. CASE Fail(r) \/ Abandon(r) \/ LoseReply(r) \/ Finish(r)
      BY <1>a, <2>4 DEF Fail, Abandon, LoseReply, Finish, Leave, Go, Busy
    <2> QED
      BY <2>1, <2>2, <2>3, <2>4 DEF Reply
  <1>2. AwaitsFrom(pc'[r]) < AwaitsFrom(pc[r])
    BY <1>1 DEF AwaitsFrom, Busy
  <1>3. \A v \in Workers \ {r} : pc'[v] = pc[v]
    <2>1. \E place \in {"over", "row", "turns", "opened", "asking", "loading", "saving", "saved", "told"} :
            Go(r, place)
      BY DEF Reply, Respond, ReadRow, ReadTurns, Ask, ModelAnswers, Fail, LoadReply, SaveReply, LoseReply,
             Remember, Finish, Abandon, Leave
    <2> QED
      BY <1>a, <2>1 DEF Go
  <1> QED
    BY <1>2, <1>3

\* Where an attempt or an end is after a step of its own.
LEMMA OthersGoOn ==
  ASSUME DialogueTypes, NEW w \in Attempts \union Enders,
         (w \in Attempts /\ Attempt(w)) \/ (w \in Enders /\ End(w))
  PROVE  /\ AwaitsFrom(pc'[w]) < AwaitsFrom(pc[w])
         /\ \A v \in Workers \ {w} : pc'[v] = pc[v]
  <1>a. pc \in [Workers -> {"new", "over", "scoring", "forgetting"} \union Busy] /\ w \in Workers
    BY DialogueTyped
  <1>1. \/ pc[w] = "new" /\ Go(w, "loading")
        \/ pc[w] = "loading" /\ Go(w, "saving")
        \/ pc[w] = "saving" /\ (Go(w, "scoring") \/ Go(w, "forgetting"))
        \/ pc[w] \in {"loading", "saving", "scoring", "forgetting"} /\ Go(w, "over")
    <2>1. CASE w \in Attempts /\ Attempt(w)
      BY <2>1 DEF Attempt, BeginAttempt, LoadAttempt, Observe, Score, FailAttempt, Load, Lose
    <2>2. CASE w \in Enders /\ End(w)
      BY <2>2 DEF End, BeginEnd, LoadEnd, Conclude, FailEnd, Forget, Load, Lose
    <2> QED
      BY <2>1, <2>2
  <1>2. AwaitsFrom(pc'[w]) < AwaitsFrom(pc[w])
    BY <1>a, <1>1 DEF AwaitsFrom, Go
  <1>3. \A v \in Workers \ {w} : pc'[v] = pc[v]
    BY <1>a, <1>1 DEF Go
  <1> QED
    BY <1>2, <1>3

\* The slot of a dialogue is held by a reply that is at work, and by that one
\* only; and the awaits of every reply, attempt and end run out, whoever else
\* writes to the stream, as nobody tries a lost save again (respond, _record,
\* record_attempt): what keeps a reader waiting is the model or the store.
THEOREM RepliesRunOut == DialogueSpec => []SlotIsAtWork /\ WorkersComeCloser
  <1>1. DialogueInv => SlotIsAtWork
    <2> SUFFICES ASSUME DialogueInv PROVE SlotIsAtWork
      OBVIOUS
    <2>1. DialogueTypes /\ \A r \in Replies : pc[r] \in Busy <=> slot = r
      BY DEF DialogueInv
    <2>3. slot # None => slot \in Replies /\ pc[slot] \in Busy
      BY <2>1, DialogueTyped
    <2>4. slot # None => slot \in Replies /\ AwaitsFrom(pc[slot]) > 0
      BY <2>3, AwaitsCount
    <2> QED
      BY <2>1, <2>4 DEF SlotIsAtWork
  <1>2. DialogueIInv /\ [DialogueNext]_dialogueVars
          => [\A w \in Workers :
                /\ OwnTurn(w) => AwaitsFrom(pc'[w]) < AwaitsFrom(pc[w])
                /\ AwaitsFrom(pc'[w]) <= AwaitsFrom(pc[w])]_dialogueVars
    <2> SUFFICES ASSUME DialogueIInv, [DialogueNext]_dialogueVars, NEW w \in Workers
                 PROVE  /\ OwnTurn(w) => AwaitsFrom(pc'[w]) < AwaitsFrom(pc[w])
                        /\ AwaitsFrom(pc'[w]) <= AwaitsFrom(pc[w])
      OBVIOUS
    <2>0. DialogueTypes
      BY DEF DialogueIInv
    <2>1. ASSUME NEW v \in Workers, OwnTurn(v)
          PROVE  /\ AwaitsFrom(pc'[v]) < AwaitsFrom(pc[v])
                 /\ \A u \in Workers \ {v} : pc'[u] = pc[u]
      BY <2>0, <2>1, RepliesGoOn, OthersGoOn DEF OwnTurn
    <2>2. ASSUME NEW v \in Workers, OwnTurn(v) PROVE AwaitsFrom(pc'[w]) <= AwaitsFrom(pc[w])
      <3>1. AwaitsFrom(pc'[v]) < AwaitsFrom(pc[v]) /\ (v # w => pc'[w] = pc[w])
        BY <2>1, <2>2
      <3> QED
        BY <3>1, AwaitsCount
    <2>3. ASSUME pc' = pc PROVE AwaitsFrom(pc'[w]) <= AwaitsFrom(pc[w])
      BY <2>3, AwaitsCount
    <2>4. ASSUME pc'[w] = IF pc[w] = "new" THEN "new" ELSE "over"
          PROVE  AwaitsFrom(pc'[w]) <= AwaitsFrom(pc[w])
      <3>1. pc'[w] = pc[w] \/ pc'[w] = "over"
        BY <2>4
      <3>2. AwaitsFrom("over") = 0
        BY DEF AwaitsFrom
      <3> QED
        BY <3>1, <3>2, AwaitsCount
    <2>5. AwaitsFrom(pc'[w]) <= AwaitsFrom(pc[w])
      BY <2>0, <2>2, <2>3, <2>4, DialogueSteps, DialogueTyped DEF OwnTurn
    <2> QED
      BY <2>1, <2>5
  <1> QED
    BY <1>1, <1>2, DialogueFollows, DialogueInvariant, PTL DEF DialogueSpec, WorkersComeCloser

=============================================================================
