----------------------------- MODULE FetchGrant -----------------------------
(***************************************************************************)
(* The fetch budget of one unattended run.                                 *)
(*                                                                         *)
(* A person grants a run named hosts and a number of reads.  Whenever the  *)
(* model's message calls fetch, the approval gate walks all calls of the   *)
(* message at once and lets a call pass if it can claim a unit under the   *)
(* call's id; the others interrupt the turn and wait for a person.  When   *)
(* all are decided the gate walks the same message a second time, and the  *)
(* decisions are paired with whatever interrupts then.  The calls that got *)
(* through run concurrently; a call charges the grant when its response is *)
(* there, if the grant covers it at that moment, and gives its claim back  *)
(* on the way out.  Meanwhile a person may change the autonomy level, and  *)
(* the turn may be cancelled or run into its timeout wherever it stands.   *)
(*                                                                         *)
(* Abstractions.  A call is its id, a number in the order of the message;  *)
(* its URL is whether the grant's hosts name it.  Ids are distinct.  The   *)
(* session's other gated tools and its subagents are left out.             *)
(***************************************************************************)
EXTENDS Integers, FiniteSets

CONSTANTS
  NCalls,        \* bound: fetch calls the model makes
  Budget,        \* FetchGrant.budget
  MaxBatch,      \* bound: fetch calls in one message
  MaxChanges,    \* bound: changes of the autonomy level
  MaxRaises      \* bound: turns that end while their calls run

ASSUME BoundsAssumption ==
  /\ NCalls \in Nat /\ Budget \in Nat
  /\ MaxBatch \in Nat /\ MaxChanges \in Nat /\ MaxRaises \in Nat

VARIABLES
  remaining,  \* FetchGrant._remaining
  reserved,   \* FetchGrant._reserved
  level,      \* AutonomyPolicy.level_for("fetch")
  turn,       \* where the agent loop is
  used,       \* calls 1..used have been made
  batch,      \* the calls of the message at the gate, or running
  asks,       \* those that interrupted on the gate's first pass
  decision,   \* decision[c]: what _settle has for the call
  inScope,    \* calls whose URL is http(s) at a granted host
  pc,         \* pc[c]: where the tool's coroutine is
  leave,      \* leave[c]: what let the call run
  read,       \* calls that came back with a response
  charged,    \* calls that spent a unit
  stranded,   \* history: calls whose turn ended before their coroutine began
  changes, raises  \* counters for the bounds

grant == <<remaining, reserved, charged>>
counters == <<stranded, changes, raises>>
vars == <<grant, level, turn, used, batch, asks, decision, inScope, pc, leave,
          read, counters>>

Calls == 1..NCalls

Levels == {"auto", "ask", "deny"}
InFlight == {"ready", "sent", "closing"}
Answers == {"approve", "editIn", "editOut", "reject"}

TypeOK ==
  /\ remaining \in 0..Budget
  /\ reserved \subseteq Calls
  /\ level \in Levels
  /\ turn \in {"idle", "thinking", "asking", "running"}
  /\ used \in 0..NCalls
  /\ batch \subseteq 1..used
  /\ asks \subseteq batch
  /\ decision \in [Calls -> {"none", "posed"} \union Answers]
  /\ inScope \subseteq 1..used
  /\ pc \in [Calls -> {"new", "gated", "over"} \union InFlight]
  /\ leave \in [Calls -> {"none", "grant", "human", "policy"}]
  /\ read \subseteq Calls
  /\ charged \subseteq Calls
  /\ stranded \subseteq Calls
  /\ changes \in 0..MaxChanges
  /\ raises \in 0..MaxRaises

Init ==
  /\ remaining = Budget
  /\ reserved = {}
  /\ level \in Levels
  /\ turn = "idle"
  /\ used = 0
  /\ batch = {} /\ asks = {}
  /\ decision = [c \in Calls |-> "none"]
  /\ inScope = {}
  /\ pc = [c \in Calls |-> "new"]
  /\ leave = [c \in Calls |-> "none"]
  /\ read = {} /\ charged = {} /\ stranded = {}
  /\ changes = 0 /\ raises = 0

(***************************************************************************)
(* The grant.                                                              *)
(***************************************************************************)
Room == remaining - Cardinality(reserved)

\* Mutant of Held: a claim is not recognised when the message is walked again.
HeldByNobody(b, scope) == {}

\* The calls of message b that hold a claim already.
Held(b, scope) == (b \intersect scope) \intersect reserved

Wanting(b, scope) == (b \intersect scope) \ Held(b, scope)

\* Mutant of Claims: the gate only reads covers().
ClaimsByCovers(b, scope) == {IF remaining > 0 THEN Wanting(b, scope) ELSE {}}

\* reserve(), called for every call of message b in order: those at a granted
\* host claim a unit while there is room.  A set of one element.
Claims(b, scope) ==
  LET want == Wanting(b, scope) IN
  {new \in SUBSET want :
     /\ new # {} => Cardinality(new) <= Room
     /\ new # want => Cardinality(new) >= Room
     /\ \A c \in new, d \in want \ new : c < d}

\* Mutant of Covers: a host nobody granted.
CoversAnyHost(c) == remaining > 0

\* covers(), asked by the tool once the response is there.
Covers(c) == remaining > 0 /\ c \in inScope

\* Mutant of WithoutClaim: nothing is given back.
WithoutClaimLeaks(c) == reserved

\* release()
WithoutClaim(c) == reserved \ {c}

(***************************************************************************)
(* The gate.                                                               *)
(***************************************************************************)
\* What a walk of message b claims: a level other than ask leaves the grant alone.
Claiming(b, scope) == IF level = "ask" THEN Claims(b, scope) ELSE {{}}

\* The calls of message b that `when` does not interrupt, if it claims new.
Passing(b, scope, new) ==
  CASE level = "auto" -> b
    [] level = "ask"  -> Held(b, scope) \union new
    [] level = "deny" -> {}

LetThrough == IF level = "auto" THEN "policy" ELSE "grant"

StartTurn ==
  /\ turn = "idle"
  /\ turn' = "thinking"
  /\ UNCHANGED <<grant, level, used, batch, asks, decision, inScope, pc, leave,
                 read, counters>>

\* The model answered without a fetch, or failed.
EndTurn ==
  /\ turn = "thinking"
  /\ turn' = "idle"
  /\ UNCHANGED <<grant, level, used, batch, asks, decision, inScope, pc, leave,
                 read, counters>>

\* A message with fetch calls arrives, and the gate walks it.
Gate ==
  /\ turn = "thinking"
  /\ \E n \in 1..MaxBatch :
       LET b == (used + 1)..(used + n) IN
       /\ used + n <= NCalls
       /\ used' = used + n
       /\ batch' = b
       /\ \E urls \in SUBSET b :
            LET scope == inScope \union urls IN
            \E new \in Claiming(b, scope) :
            LET passing == Passing(b, scope, new)
            IN /\ inScope' = scope
               /\ reserved' = reserved \union new
               /\ asks' = b \ passing
               /\ turn' = IF passing = b THEN "running" ELSE "asking"
               /\ pc' = [c \in Calls |->
                           IF c \notin b THEN pc[c]
                           ELSE IF passing = b THEN "ready" ELSE "gated"]
               /\ leave' = [c \in Calls |->
                              IF c \in b /\ passing = b THEN LetThrough ELSE leave[c]]
  /\ UNCHANGED <<remaining, charged, level, decision, read, counters>>

(***************************************************************************)
(* _settle: one decision per interrupted call, in order.                   *)
(***************************************************************************)
Undecided == {c \in asks : decision[c] \notin Answers}

Next1(c) == c \in Undecided /\ \A d \in Undecided : c <= d

\* The level is read once, before a person is asked.
Pose(c) ==
  /\ turn = "asking"
  /\ Next1(c) /\ decision[c] = "none"
  /\ decision' = [decision EXCEPT ![c] = IF level = "deny" THEN "reject" ELSE "posed"]
  /\ UNCHANGED <<grant, level, turn, used, batch, asks, inScope, pc, leave, read, counters>>

\* A person approves, amends or rejects; silence is a rejection.
Answer(c) ==
  /\ turn = "asking"
  /\ decision[c] = "posed"
  /\ \E d \in Answers : decision' = [decision EXCEPT ![c] = d]
  /\ UNCHANGED <<grant, level, turn, used, batch, asks, inScope, pc, leave, read, counters>>

\* Mutant of Approves: any answer lets the call run.
ApprovesAnything(d) == d \in Answers

Approves(d) == d \in Answers \ {"reject"}

\* Decisions and interrupted calls are paired by position.
Rank(S, c) == Cardinality({d \in S : d <= c})

Paired(again, c) ==
  decision[CHOOSE d \in asks : Rank(asks, d) = Rank(again, c)]

(***************************************************************************)
(* The graph resumes: the gate walks the message again.                    *)
(***************************************************************************)
\* As many interrupt as were decided, or none does.
Proceed(new) ==
  LET passing == Passing(batch, inScope, new)
      again == batch \ passing
      runs == passing \union {c \in again : Approves(Paired(again, c))}
  IN /\ again = {} \/ Cardinality(again) = Cardinality(asks)
     /\ reserved' = reserved \union new
     /\ pc' = [c \in Calls |-> IF c \notin batch THEN pc[c]
                               ELSE IF c \in runs THEN "ready" ELSE "over"]
     /\ leave' = [c \in Calls |-> IF c \notin runs THEN leave[c]
                                  ELSE IF c \in passing THEN LetThrough ELSE "human"]
     /\ inScope' = (inScope \ {c \in again : Paired(again, c) = "editOut"})
                     \union {c \in again : Paired(again, c) = "editIn"}
     /\ turn' = "running"
     /\ UNCHANGED stranded

\* Otherwise pairing them raises, and the turn fails.
Mismatch(new) ==
  LET again == batch \ Passing(batch, inScope, new)
  IN /\ again # {} /\ Cardinality(again) # Cardinality(asks)
     /\ reserved' = reserved \union new
     /\ pc' = [c \in Calls |-> IF c \in batch THEN "over" ELSE pc[c]]
     /\ turn' = "idle"
     /\ stranded' = stranded \union batch
     /\ UNCHANGED <<leave, inScope>>

Resume ==
  /\ turn = "asking" /\ Undecided = {}
  /\ \E new \in Claiming(batch, inScope) : Proceed(new) \/ Mismatch(new)
  /\ UNCHANGED <<remaining, charged, level, used, batch, asks, decision, read, changes, raises>>

(***************************************************************************)
(* The tool.                                                               *)
(***************************************************************************)
\* A corpus hit, a memo hit, or a scheme that is not fetched.
AnswerLocally(c) ==
  /\ pc[c] = "ready"
  /\ pc' = [pc EXCEPT ![c] = "over"]
  /\ reserved' = WithoutClaim(c)
  /\ UNCHANGED <<remaining, charged, level, turn, used, batch, asks, decision, inScope,
                 leave, read, counters>>

Send(c) ==
  /\ pc[c] = "ready"
  /\ pc' = [pc EXCEPT ![c] = "sent"]
  /\ UNCHANGED <<grant, level, turn, used, batch, asks, decision, inScope, leave,
                 read, counters>>

\* A page or a redirect comes back: covers, then spend, with no await between.
Receive(c) ==
  /\ pc[c] = "sent"
  /\ pc' = [pc EXCEPT ![c] = "closing"]
  /\ read' = read \union {c}
  /\ IF Covers(c)
       THEN /\ remaining' = remaining - 1
            /\ reserved' = WithoutClaim(c)
            /\ charged' = charged \union {c}
       ELSE UNCHANGED grant
  /\ UNCHANGED <<level, turn, used, batch, asks, decision, inScope, leave, counters>>

\* An error status or a transport error: nothing is spent.
ReceiveError(c) ==
  /\ pc[c] = "sent"
  /\ pc' = [pc EXCEPT ![c] = "closing"]
  /\ UNCHANGED <<grant, level, turn, used, batch, asks, decision, inScope, leave,
                 read, counters>>

\* The finally, after the page is kept and the client closed.
Finish(c) ==
  /\ pc[c] = "closing"
  /\ pc' = [pc EXCEPT ![c] = "over"]
  /\ reserved' = WithoutClaim(c)
  /\ UNCHANGED <<remaining, charged, level, turn, used, batch, asks, decision, inScope,
                 leave, read, counters>>

\* An exception the tool does not catch: its finally runs, the turn fails, and
\* the calls beside it are left to run on, or are cancelled one by one.
Raise(c) ==
  /\ pc[c] \in InFlight /\ c \in batch /\ turn = "running"
  /\ raises < MaxRaises
  /\ raises' = raises + 1
  /\ pc' = [pc EXCEPT ![c] = "over"]
  /\ reserved' = WithoutClaim(c)
  /\ turn' = "idle"
  /\ UNCHANGED <<remaining, charged, level, used, batch, asks, decision, inScope,
                 leave, read, stranded, changes>>

Unwind(c) ==
  /\ pc[c] \in InFlight /\ (turn # "running" \/ c \notin batch)
  /\ pc' = [pc EXCEPT ![c] = "over"]
  /\ reserved' = WithoutClaim(c)
  /\ UNCHANGED <<remaining, charged, level, turn, used, batch, asks, decision, inScope,
                 leave, read, counters>>

\* A call the turn ended under before its coroutine began: there is no finally
\* to run, and what the gate claimed for it stays.
NeverStarts(c) ==
  /\ pc[c] = "ready" /\ (turn # "running" \/ c \notin batch)
  /\ pc' = [pc EXCEPT ![c] = "over"]
  /\ stranded' = stranded \union {c}
  /\ UNCHANGED <<grant, level, turn, used, batch, asks, decision, inScope, leave,
                 read, changes, raises>>

(***************************************************************************)
(* The supervisor cancels the turn, or its timeout does; at the gate, what *)
(* _settle awaits may also raise.                                          *)
(***************************************************************************)
\* The calls at the gate are never run.
CutAtGate ==
  /\ turn = "asking"
  /\ turn' = "idle"
  /\ pc' = [c \in Calls |-> IF c \in batch THEN "over" ELSE pc[c]]
  /\ stranded' = stranded \union batch
  /\ UNCHANGED <<grant, level, used, batch, asks, decision, inScope, leave, read,
                 changes, raises>>

\* The calls let through unwind one by one, or never start.
CutTools ==
  /\ turn = "running"
  /\ raises < MaxRaises
  /\ raises' = raises + 1
  /\ turn' = "idle"
  /\ UNCHANGED <<grant, level, used, batch, asks, decision, inScope, pc, leave, read,
                 stranded, changes>>

\* Every call of the message has its result, and the model goes on.
Collect ==
  /\ turn = "running"
  /\ \A c \in batch : pc[c] = "over"
  /\ turn' = "thinking"
  /\ UNCHANGED <<grant, level, used, batch, asks, decision, inScope, pc, leave,
                 read, counters>>

\* A person sets the level, at any time.
SetLevel ==
  /\ changes < MaxChanges
  /\ changes' = changes + 1
  /\ \E l \in Levels \ {level} : level' = l
  /\ UNCHANGED <<grant, turn, used, batch, asks, decision, inScope, pc, leave,
                 read, stranded, raises>>

ToolStep(c) ==
  AnswerLocally(c) \/ Send(c) \/ Receive(c) \/ ReceiveError(c) \/ Finish(c)
    \/ Raise(c) \/ Unwind(c) \/ NeverStarts(c)

Next ==
  \/ StartTurn \/ EndTurn \/ Gate \/ Resume \/ Collect \/ SetLevel
  \/ CutAtGate \/ CutTools
  \/ \E c \in Calls : Pose(c) \/ Answer(c) \/ ToolStep(c)

Spec == Init /\ [][Next]_vars

(***************************************************************************)
(* Properties.                                                             *)
(***************************************************************************)
Unattended == {c \in read : leave[c] = "grant"}

\* Reads nobody was asked about never exceed the budget, even counting the
\* claims still out, whatever people approve beside them, however responses
\* interleave and whenever the level changes (FetchGrant.reserve and spend).
UnattendedWithinBudget ==
  Cardinality(Unattended \union reserved) <= Budget

\* The grant pays for what it let through or could have: what is gone from the
\* budget is one unit for each charged call, each of them read, at a granted
\* host (fetch's covers-then-spend).
ChargesAreJust ==
  /\ charged \subseteq read \intersect inScope
  /\ Cardinality(charged) = Budget - remaining

\* Nobody touched the autonomy level, and no turn ended with its calls running.
Steady == changes = 0 /\ raises = 0

Lives(c) == pc[c] \in InFlight \/ (turn = "asking" /\ c \in batch)

\* A claim is held by a call that is still at the gate or in flight, or by one
\* that never began: once its coroutine has, no way out of a call leaves the
\* claim behind, an exception and a cancellation included (fetch's outer
\* finally).  That finally is all there is: a turn that ends while its message
\* waits at the gate, or before a call let through has begun, and a message
\* whose decisions met other calls than those they were made for, leave what
\* the gate claimed in _reserved for the rest of the run.
ClaimsAreLive == \A c \in reserved : Lives(c) \/ c \in stranded

\* Walking the message again answers the same for every call, so that each
\* decision meets the call it was made for (FetchGrant.reserve, called twice).
ReplayAgrees ==
  Steady /\ turn = "asking" =>
    \A new \in Claiming(batch, inScope) : Passing(batch, inScope, new) = batch \ asks

\* A call that was rejected is not run, and of those that wait for a decision
\* none runs before all have theirs (_settle, _decide).
DecisionsAreObeyed ==
  Steady => \A c \in Calls : decision[c] \in {"posed", "reject"} => pc[c] \notin InFlight

\* What the budget rests on: a call let through by the grant is at a granted
\* host and keeps its claim until it has read, and while anything remains every
\* such read was paid for.
PaidFor ==
  /\ \A c \in Calls : leave[c] = "grant" => c \in inScope
  /\ \A c \in Calls : leave[c] = "grant" /\ pc[c] \in {"ready", "sent"} => c \in reserved
  /\ remaining > 0 => Unattended \subseteq charged
  /\ charged \intersect reserved = {}

\* A call is made once, and waits at the gate only while its turn does.
InOrder ==
  /\ \A c \in Calls : c > used => pc[c] = "new" /\ c \notin stranded
  /\ \A c \in Calls : pc[c] \in {"new", "gated"} => c \notin read /\ leave[c] = "none"
  /\ \A c \in Calls : pc[c] \in {"ready", "sent"} => c \notin read
  /\ turn = "asking" => \A c \in batch : pc[c] = "gated"

\* The inductive invariant: the parts above, for FetchGrantProofs.
GrantInv == TypeOK /\ InOrder /\ ChargesAreJust /\ PaidFor /\ UnattendedWithinBudget

=============================================================================
