---------------------------- MODULE ApprovalDesk ----------------------------
(***************************************************************************)
(* A gated call waits for a person, and the people are in browser tabs.    *)
(*                                                                         *)
(* The turn parks its call as a future and announces it on the live feed;  *)
(* every tab shows a card for it, and a POST of any tab answers it.  The   *)
(* frames of the feed have no position, so what a tab misses while it is   *)
(* disconnected is gone, and a new connection starts from what is parked.  *)
(* A turn of a run that nobody watches waits against a timer as well.      *)
(***************************************************************************)
EXTENDS Integers, FiniteSets, Sequences, SequencesExt

CONSTANTS
  Calls,       \* gated calls, each of a session of its own
  Unattended,  \* the calls whose session is in the registry of grants
  Tabs,        \* browser tabs; an answer is named for the tab that gives it
  Nothing,     \* no answer
  MaxDrops,    \* bound: connections that drop
  MaxCrashes   \* bound: restarts of the server

ASSUME CallsAssumption == IsFiniteSet(Calls) /\ Unattended \subseteq Calls
ASSUME NamesAssumption ==
  /\ Tabs \intersect {"waiting", "cancelled", "refused", "lost"} = {}
  /\ Nothing \notin Calls \union Tabs \union {"cancelled", "refused", "lost"}
ASSUME BoundsAssumption == MaxDrops \in Nat /\ MaxCrashes \in Nat

VARIABLES
  gate,      \* gate[c]: the wait of the turn: "new", "parked" or "over"
  future,    \* future[c]: "waiting", the tab that answered, or "cancelled"
  timer,     \* timer[c]: the timer of an unattended call
  stopped,   \* calls whose turn was cancelled while it waited
  outcome,   \* outcome[c]: what the turn went on with
  taken,     \* taken[c]: the tabs that were told their answer counts
  link,      \* link[t]: the connection of a tab
  frames,    \* frames[t]: announced to the tab and not yet read by it
  cards,     \* cards[t]: the calls the tab shows
  deciding,  \* deciding[t]: the call the tab has an answer under way for
  drops, crashes

waitVars == <<gate, future, timer, stopped, outcome>>
tabVars == <<link, frames, cards, deciding>>
boundVars == <<drops, crashes>>
vars == <<waitVars, taken, tabVars, boundVars>>

Frame == [type : {"requested", "settled"}, call : Calls]

TypeOK ==
  /\ gate \in [Calls -> {"new", "parked", "over"}]
  /\ future \in [Calls -> {"waiting", "cancelled"} \union Tabs]
  /\ timer \in [Calls -> {"none", "asleep", "rung"}]
  /\ stopped \subseteq Calls
  /\ outcome \in [Calls -> {Nothing, "cancelled", "refused", "lost"} \union Tabs]
  /\ taken \in [Calls -> SUBSET Tabs]
  /\ link \in [Tabs -> {"down", "opening", "up"}]
  /\ frames \in [Tabs -> Seq(Frame)]
  /\ cards \in [Tabs -> SUBSET Calls]
  /\ deciding \in [Tabs -> Calls \union {Nothing}]
  /\ drops \in 0..MaxDrops /\ crashes \in 0..MaxCrashes

Init ==
  /\ gate = [c \in Calls |-> "new"] /\ future = [c \in Calls |-> "waiting"]
  /\ timer = [c \in Calls |-> "none"]
  /\ stopped = {} /\ outcome = [c \in Calls |-> Nothing]
  /\ taken = [c \in Calls |-> {}]
  /\ link = [t \in Tabs |-> "down"] /\ frames = [t \in Tabs |-> <<>>]
  /\ cards = [t \in Tabs |-> {}] /\ deciding = [t \in Tabs |-> Nothing]
  /\ drops = 0 /\ crashes = 0

Parked == {c \in Calls : gate[c] = "parked"}

Announce(type, c) ==
  frames' = [t \in Tabs |-> IF link[t] = "up" THEN Append(frames[t], [type |-> type, call |-> c])
                                              ELSE frames[t]]

(***************************************************************************)
(* The turn.                                                               *)
(***************************************************************************)
Gate(c) ==
  /\ gate[c] = "new"
  /\ gate' = [gate EXCEPT ![c] = "parked"]
  /\ timer' = [timer EXCEPT ![c] = IF c \in Unattended THEN "asleep" ELSE @]
  /\ Announce("requested", c)
  /\ UNCHANGED <<future, stopped, outcome, taken, link, cards, deciding, boundVars>>

\* A mutant of Ring: the timer is armed and never waited for.
RingUnheard(c) ==
  /\ gate[c] = "parked" /\ timer[c] = "asleep"
  /\ timer' = [timer EXCEPT ![c] = "none"]
  /\ UNCHANGED <<gate, future, stopped, outcome, taken, tabVars, boundVars>>

Ring(c) ==
  /\ gate[c] = "parked" /\ timer[c] = "asleep"
  /\ timer' = [timer EXCEPT ![c] = "rung"]
  /\ UNCHANGED <<gate, future, stopped, outcome, taken, tabVars, boundVars>>

\* The turn is cancelled.  One that waits for the future alone takes the
\* future with it; one that waits for the timer too leaves it to be answered.
CancelTurn(c) ==
  /\ gate[c] = "parked" /\ c \notin stopped
  /\ stopped' = stopped \union {c}
  /\ future' = [future EXCEPT ![c] = IF @ = "waiting" /\ c \notin Unattended THEN "cancelled" ELSE @]
  /\ UNCHANGED <<gate, timer, outcome, taken, tabVars, boundVars>>

\* A caller that tears the session down frees what is parked on it.
CancelSession(c) ==
  /\ gate[c] = "parked" /\ future[c] = "waiting"
  /\ future' = [future EXCEPT ![c] = "cancelled"]
  /\ UNCHANGED <<gate, timer, stopped, outcome, taken, tabVars, boundVars>>

\* A mutant of Verdict: the timer is looked at first.
VerdictOfTheTimer(c) ==
  CASE c \in stopped -> "cancelled"
    [] c \notin stopped /\ timer[c] = "rung" -> "refused"
    [] OTHER -> future[c]

\* What the wait ends with: the end of its turn before everything, then the
\* future, whoever finished it, and the timer only when the future is waiting.
Verdict(c) ==
  CASE c \in stopped -> "cancelled"
    [] c \notin stopped /\ future[c] # "waiting" -> future[c]
    [] OTHER -> "refused"

\* The turn wakes, forgets the call and announces that it is settled.
Wake(c) ==
  /\ gate[c] = "parked"
  /\ c \in stopped \/ future[c] # "waiting" \/ timer[c] = "rung"
  /\ gate' = [gate EXCEPT ![c] = "over"]
  /\ outcome' = [outcome EXCEPT ![c] = Verdict(c)]
  /\ future' = [future EXCEPT ![c] = IF Verdict(c) = "refused" THEN "cancelled" ELSE @]
  /\ timer' = [timer EXCEPT ![c] = "none"]
  /\ Announce("settled", c)
  /\ UNCHANGED <<stopped, taken, link, cards, deciding, boundVars>>

(***************************************************************************)
(* The tabs.                                                               *)
(***************************************************************************)
\* A mutant of Open: a tab that comes back keeps its cards.
OpenWithItsCards(t) ==
  /\ link[t] = "down"
  /\ link' = [link EXCEPT ![t] = "opening"]
  /\ UNCHANGED <<waitVars, taken, frames, cards, deciding, boundVars>>

\* The connection opens before the server listens for it: a tab forgets what it
\* showed, since what was settled while it was away is announced no more.
Open(t) ==
  /\ link[t] = "down"
  /\ link' = [link EXCEPT ![t] = "opening"]
  /\ cards' = [cards EXCEPT ![t] = {}]
  /\ UNCHANGED <<waitVars, taken, frames, deciding, boundVars>>

\* The new listener gets a frame for all that is parked.
Listen(t) ==
  /\ link[t] = "opening"
  /\ link' = [link EXCEPT ![t] = "up"]
  /\ \E seed \in SetToSeqs(Parked) :
       frames' = [frames EXCEPT ![t] = [i \in DOMAIN seed |-> [type |-> "requested", call |-> seed[i]]]]
  /\ UNCHANGED <<waitVars, taken, cards, deciding, boundVars>>

Shown(set, frame) ==
  IF frame.type = "requested" THEN set \union {frame.call} ELSE set \ {frame.call}

Read(t) ==
  /\ link[t] = "up" /\ frames[t] # <<>>
  /\ cards' = [cards EXCEPT ![t] = Shown(@, Head(frames[t]))]
  /\ deciding' = [deciding EXCEPT ![t] =
       IF Head(frames[t]) = [type |-> "settled", call |-> @] THEN Nothing ELSE @]
  /\ frames' = [frames EXCEPT ![t] = Tail(@)]
  /\ UNCHANGED <<waitVars, taken, link, boundVars>>

\* What is under way to the tab is lost, and its cards stay until it is back.
Disconnect(t) ==
  /\ link[t] # "down"
  /\ drops < MaxDrops /\ drops' = drops + 1
  /\ link' = [link EXCEPT ![t] = "down"]
  /\ frames' = [frames EXCEPT ![t] = <<>>]
  /\ UNCHANGED <<waitVars, taken, cards, deciding, crashes>>

\* One answer at a time, of a card that may be out of date.
Decide(t, c) ==
  /\ deciding[t] = Nothing /\ c \in cards[t]
  /\ deciding' = [deciding EXCEPT ![t] = c]
  /\ UNCHANGED <<waitVars, taken, link, frames, cards, boundVars>>

\* The POST finds its call parked and unanswered.
Resolve(t, c) ==
  /\ deciding[t] = c
  /\ gate[c] = "parked" /\ future[c] = "waiting"
  /\ future' = [future EXCEPT ![c] = t]
  /\ taken' = [taken EXCEPT ![c] = @ \union {t}]
  /\ deciding' = [deciding EXCEPT ![t] = Nothing]
  /\ UNCHANGED <<gate, timer, stopped, outcome, link, frames, cards, boundVars>>

\* Somebody else was first, the call is over, or the POST is lost on its way.
Unresolved(t) ==
  /\ deciding[t] # Nothing
  /\ deciding' = [deciding EXCEPT ![t] = Nothing]
  /\ UNCHANGED <<waitVars, taken, link, frames, cards, boundVars>>

\* The server is restarted: what was parked is forgotten with its turns.
Crash ==
  /\ crashes < MaxCrashes /\ crashes' = crashes + 1
  /\ gate' = [c \in Calls |-> IF gate[c] = "parked" THEN "over" ELSE gate[c]]
  /\ outcome' = [c \in Calls |-> IF gate[c] = "parked" THEN "lost" ELSE outcome[c]]
  /\ timer' = [c \in Calls |-> "none"]
  /\ link' = [t \in Tabs |-> "down"] /\ frames' = [t \in Tabs |-> <<>>]
  /\ UNCHANGED <<future, stopped, taken, cards, deciding, drops>>

(***************************************************************************)
(* The specification.                                                      *)
(***************************************************************************)
Turn(c) == Gate(c) \/ Ring(c) \/ CancelTurn(c) \/ CancelSession(c) \/ Wake(c)

Tab(t) ==
  \/ Open(t) \/ Listen(t) \/ Read(t) \/ Disconnect(t) \/ Unresolved(t)
  \/ \E c \in Calls : Decide(t, c) \/ Resolve(t, c)

Next == (\E c \in Calls : Turn(c)) \/ (\E t \in Tabs : Tab(t)) \/ Crash

Spec == Init /\ [][Next]_vars

\* Timers run out, tasks that may run do, and a tab that is connected reads;
\* nothing makes a person answer.
Fairness ==
  /\ \A c \in Calls : WF_vars(Ring(c)) /\ WF_vars(Wake(c))
  /\ \A t \in Tabs : WF_vars(Open(t)) /\ WF_vars(Listen(t)) /\ WF_vars(Read(t))

FairSpec == Spec /\ Fairness

(***************************************************************************)
(* Properties.                                                             *)
(***************************************************************************)
\* A call that is over is over for good: with an outcome, without a timer, and
\* with nothing left for a late POST to answer.
WaitsEnd ==
  \A c \in Calls :
    /\ gate[c] = "over" <=> outcome[c] # Nothing
    /\ timer[c] # "none" => gate[c] = "parked"
    /\ gate[c] = "new" => future[c] = "waiting" /\ taken[c] = {}

\* The calls that a tab with these cards shows once it has read these frames: the
\* last frame about a call says so or, when there is none, the cards do.
AfterReading(shown, read) ==
  {c \in Calls :
     LET about == {i \in DOMAIN read : read[i].call = c} IN
     \/ \E i \in about : read[i].type = "requested" /\ \A j \in about : j <= i
     \/ about = {} /\ c \in shown}

\* Once a connected tab has read what is under way to it, it shows the calls
\* that are parked and no others, whatever it missed while it was away
\* (approvals.py:197, use-approval-feed.ts:138).
TabsFollow ==
  \A t \in Tabs : link[t] = "up" => AfterReading(cards[t], frames[t]) = Parked

DeskInv == TypeOK /\ WaitsEnd /\ TabsFollow

\* A person who was told that an answer counts is the one person who was, and
\* the turn goes on with that answer unless it was cancelled or the server went
\* down: the timer does not overrule an answer, and nobody is invented who
\* decided (approvals.py:146-166, :176).
AnswersAreObeyed ==
  \A c \in Calls :
    /\ Cardinality(taken[c]) <= 1
    /\ outcome[c] \in Tabs => taken[c] = {outcome[c]}
    /\ taken[c] # {} /\ gate[c] = "over" =>
         outcome[c] \in taken[c] \/ outcome[c] = "lost" \/ c \in stopped

\* A call that nobody watches does not hold its run up for ever, and what a
\* person answered reaches the turn (approvals.py:34, :132).
WaitsAreBounded ==
  \A c \in Calls :
    gate[c] = "parked" /\ (c \in Unattended \union stopped \/ future[c] # "waiting")
      ~> gate[c] = "over"
=============================================================================
