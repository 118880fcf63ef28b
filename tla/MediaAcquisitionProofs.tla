----------------------- MODULE MediaAcquisitionProofs -----------------------
(***************************************************************************)
(* Proofs about MediaAcquisition: the stream, the table and the workers    *)
(* agree (MediaInv), and the cleaner never removes the bytes of a record   *)
(* (RecordsHaveBytes).                                                     *)
(***************************************************************************)
EXTENDS MediaAcquisition, TLAPS

(***************************************************************************)
(* The strengthening: why the cleaner keeps off.                           *)
(***************************************************************************)
\* Bytes a store has in hand are young, or they were adopted.
HeldIsYoung ==
  \A a \in Actors : At(a, "claiming") =>
    run[a].bytes \in adopted \/ blob[run[a].bytes] = "young"

\* So are the bytes of a record that its row does not name yet.
UnlistedIsYoung ==
  \A p \in Proposals :
    medium[p] # Nothing /\ listed[p] # Nothing /\ ~Names(listed[p], medium[p].bytes) =>
      medium[p].bytes \in adopted \/ blob[medium[p].bytes] = "young"

\* What the cleaner is about to remove is old, and no record or row names it.
DoomedIsNamedByNone ==
  \A d \in doomed :
    /\ blob[d] = "old"
    /\ d \notin adopted =>
         \A p \in Proposals : ~Names(medium[p], d) /\ ~Names(listed[p], d)

\* A row may be behind its record, and its bytes are there all the same.
RowsHaveBytes ==
  \A p \in Proposals :
    listed[p] # Nothing /\ listed[p].bytes \notin adopted => blob[listed[p].bytes] # "absent"

BytesInv ==
  HeldIsYoung /\ UnlistedIsYoung /\ DoomedIsNamedByNone /\ RowsHaveBytes /\ RecordsHaveBytes

(***************************************************************************)
(* Types.                                                                  *)
(***************************************************************************)

Run == [at : Places, of : Proposals \union {Nothing}, bytes : Digests \union {Nothing}]

\* No step leaves the types.  A worker that claims has its bytes in hand.
LEMMA TypesStay == TypeOK /\ WorkIsAsked /\ [Next]_vars => TypeOK'
  <1> SUFFICES ASSUME TypeOK, WorkIsAsked, [Next]_vars PROVE TypeOK'
    OBVIOUS
  <1> USE NamesAssumption, BoundsAssumption
      DEF proposalVars, corpusVars, blobVars, Disturbed, Run
  <1>0. run \in [Actors -> Run] /\ Idle \in Run
    BY DEF TypeOK, Idle, Places
  <1>1. ASSUME NEW a \in Actors, NEW place \in Places, Go(a, place)
        PROVE  run' \in [Actors -> Run]
    <2>1. [run[a] EXCEPT !.at = place] \in Run
      BY <1>0
    <2> QED
      BY <1>0, <1>1, <2>1 DEF Go
  <1>2. ASSUME NEW a \in Actors, Stop(a) PROVE run' \in [Actors -> Run]
    BY <1>0, <1>2 DEF Stop
  <1>3. ASSUME NEW p \in Proposals, NEW end \in Status, Closes(p, end)
        PROVE  status' \in [Proposals -> Status] /\ rows' \in [Proposals -> Status]
    BY <1>3 DEF TypeOK, Closes
  <1>4. ASSUME NEW a \in Actors, Work(a) PROVE TypeOK'
    <2>1. CASE Fetch(a)
      <3>1. run' \in [Actors -> Run]
        <4>1. CASE Stop(a)
          BY <1>2, <4>1
        <4>2. CASE Go(a, "failing")
          BY <1>1, <4>2 DEF Places
        <4>3. ASSUME NEW d \in Digests,
                     run' = [run EXCEPT ![a].at = "claiming", ![a].bytes = d]
              PROVE  run' \in [Actors -> Run]
          <5>1. [run[a] EXCEPT !.at = "claiming"] \in Run
            BY <1>0 DEF Places
          <5>2. [[run[a] EXCEPT !.at = "claiming"] EXCEPT !.bytes = d] \in Run
            BY <5>1
          <5> QED
            BY <1>0, <4>3, <5>2
        <4> QED
          BY <2>1, <4>1, <4>2, <4>3 DEF Fetch
      <3>2. blob' \in [Digests -> {"absent", "young", "old"}] /\ adopted' \subseteq Digests
        BY <2>1 DEF TypeOK, Fetch
      <3> QED
        BY <2>1, <3>1, <3>2 DEF TypeOK, Fetch
    <2>2. CASE Claim(a)
      <3>1. [[run[a] EXCEPT !.at = "resolving"] EXCEPT !.bytes = Nothing] \in Run
        <4>1. [run[a] EXCEPT !.at = "resolving"] \in Run
          BY <1>0 DEF Places
        <4> QED
          BY <4>1
      <3>2. run' \in [Actors -> Run]
        BY <1>0, <2>2, <3>1 DEF Claim
      <3>3. run[a].bytes \in Digests
        BY <1>0, <2>2 DEF Claim, WorkIsAsked
      <3>4. [bytes |-> run[a].bytes, dropped |-> FALSE] \in Record
        BY <3>3 DEF Record
      <3>5. medium' \in [Proposals -> Record \union {Nothing}]
        BY <2>2, <3>4 DEF TypeOK, Claim
      <3> QED
        BY <2>2, <3>2, <3>5 DEF TypeOK, Claim
    <2>3. CASE Resolve(a)
      <3>1. run' \in [Actors -> Run]
        BY <1>0, <1>1, <1>2, <2>3 DEF Resolve, Places, TypeOK, Record
      <3> QED
        BY <2>3, <3>1 DEF TypeOK, Resolve
    <2>4. CASE Keep(a)
      <3>1. [[run[a] EXCEPT !.at = "recording"] EXCEPT !.bytes = Nothing] \in Run
        <4>1. [run[a] EXCEPT !.at = "recording"] \in Run
          BY <1>0 DEF Places
        <4> QED
          BY <4>1
      <3>2. run' \in [Actors -> Run]
        BY <1>0, <2>4, <3>1 DEF Keep
      <3> QED
        BY <2>4, <3>2 DEF TypeOK, Keep
    <2>5. ASSUME NEW place \in {"recording", "failing"}, NEW end \in {"stored", "failed"},
                 Conclude(a, place, end)
          PROVE  TypeOK'
      <3>1. run[a].of \in Proposals \union {Nothing}
        BY <1>0
      <3>2. status' \in [Proposals -> Status] /\ rows' \in [Proposals -> Status]
        BY <2>5 DEF Conclude, Closes, TypeOK, Status
      <3>3. run' \in [Actors -> Run]
        BY <1>2, <2>5 DEF Conclude
      <3> QED
        BY <2>5, <3>2, <3>3 DEF TypeOK, Conclude
    <2> QED
      BY <1>4, <2>1, <2>2, <2>3, <2>4, <2>5 DEF Work, RecordStored, Fail
  <1>5. ASSUME NEW p \in Proposals, People(p) PROVE TypeOK'
    <2>1. CASE Propose(p)
      BY <2>1, <1>3 DEF Propose, TypeOK, Status
    <2>2. CASE Accept(p)
      <3>1. [at |-> "fetching", of |-> p, bytes |-> Nothing] \in Run
        BY DEF Places
      <3>2. run' \in [Actors -> Run]
        BY <1>0, <2>2, <3>1 DEF Accept
      <3> QED
        BY <2>2, <1>3, <3>2 DEF Accept, TypeOK, Status
    <2>3. CASE Reject(p)
      BY <2>3, <1>3 DEF Reject, TypeOK, Status
    <2>4. CASE Drop(p)
      BY <2>4 DEF Drop, TypeOK, Record
    <2> QED
      BY <1>5, <2>1, <2>2, <2>3, <2>4 DEF People
  <1>6. ASSUME NEW p \in Proposals, ProposalRow(p) \/ MediaRow(p) PROVE TypeOK'
    BY <1>6 DEF ProposalRow, MediaRow, TypeOK
  <1>7. ASSUME NEW a \in Actors, GiveUp(a) PROVE TypeOK'
    BY <1>7, <1>2 DEF GiveUp, TypeOK
  <1>8. ASSUME NEW s \in Sweepers, Sweep(s) PROVE TypeOK'
    BY <1>8 DEF Sweep, Accepted, TypeOK
  <1>9. ASSUME NEW s \in Sweepers, NEW p \in Proposals, RunNext(s, p) PROVE TypeOK'
    <2>1. [at |-> "fetching", of |-> p, bytes |-> Nothing] \in Run
      BY DEF Places
    <2>2. run' \in [Actors -> Run]
      BY <1>0, <1>9, <2>1 DEF RunNext
    <2> QED
      BY <1>9, <2>2 DEF RunNext, TypeOK
  <1>10. ASSUME NEW d \in Digests, Age(d) \/ Unlink(d) PROVE TypeOK'
    BY <1>10 DEF Age, Unlink, TypeOK
  <1>11. CASE Plan
    BY <1>11 DEF Plan, Orphans, TypeOK
  <1>12. CASE Rebuild
    BY <1>12 DEF Rebuild, TypeOK
  <1>13. CASE Crash
    BY <1>13, <1>0 DEF Crash, TypeOK
  <1>14. CASE UNCHANGED vars
    BY <1>14 DEF vars, TypeOK
  <1>15. ASSUME NEW e \in Editors, Edits(e) PROVE TypeOK'
    <2>1. ASSUME NEW p \in Proposals, Reread(e, p) PROVE TypeOK'
      <3>1. [of |-> p, bytes |-> listed[p].bytes] \in [of : Proposals, bytes : Digests]
        BY <2>1 DEF Reread, TypeOK, Record
      <3> QED
        BY <2>1, <3>1 DEF Reread, TypeOK
    <2>2. CASE StoreAgain(e)
      <3>1. edit[e].of \in Proposals /\ edit[e].bytes \in Digests
        BY <2>2 DEF StoreAgain, TypeOK
      <3>2. [bytes |-> edit[e].bytes, dropped |-> FALSE] \in Record
        BY <3>1 DEF Record
      <3> QED
        BY <2>2, <3>1, <3>2 DEF StoreAgain, TypeOK
    <2>3. CASE Refused(e)
      BY <2>3 DEF Refused, TypeOK
    <2> QED
      BY <1>15, <2>1, <2>2, <2>3 DEF Edits
  <1> QED
    BY <1>4, <1>5, <1>6, <1>7, <1>8, <1>9, <1>10, <1>11, <1>12, <1>13, <1>14, <1>15 DEF Next

(***************************************************************************)
(* The stream, the table and the workers.                                  *)
(***************************************************************************)

\* The order of the statuses, as the arithmetic the provers need.
LEMMA RankFacts ==
  /\ Rank["none"] = 0 /\ Rank["proposed"] = 1 /\ Rank["accepted"] = 2
  /\ Rank["rejected"] = 3 /\ Rank["stored"] = 3 /\ Rank["failed"] = 3
  BY DEF Rank, Status

\* A proposal that was accepted stays among the accepted, the stored and the failed.
LEMMA AskedStays ==
  TypeOK /\ [Next]_vars => \A p \in Proposals : status[p] \in Asked => status'[p] \in Asked
  <1> SUFFICES ASSUME TypeOK, [Next]_vars, NEW p \in Proposals, status[p] \in Asked
               PROVE  status'[p] \in Asked
    OBVIOUS
  <1> USE DEF proposalVars, Asked
  <1>1. CASE status' = status
    BY <1>1
  <1>2. ASSUME NEW q \in Proposals, Propose(q) \/ Accept(q) \/ Reject(q)
        PROVE  status'[p] \in Asked
    BY <1>2 DEF Propose, Accept, Reject, Closes, TypeOK
  <1>3. ASSUME NEW a \in Actors, NEW place \in Places, NEW end \in {"stored", "failed"},
               Conclude(a, place, end)
        PROVE  status'[p] \in Asked
    BY <1>3 DEF Conclude, Closes, TypeOK
  <1>4. ASSUME NEW a \in Actors, RecordStored(a) \/ Fail(a) PROVE status'[p] \in Asked
    BY <1>3, <1>4 DEF RecordStored, Fail, Places
  <1>5. CASE UNCHANGED vars
    BY <1>1, <1>5 DEF vars
  <1>6. ASSUME Next, status' # status
        PROVE  \/ \E q \in Proposals : Propose(q) \/ Accept(q) \/ Reject(q)
               \/ \E a \in Actors : RecordStored(a) \/ Fail(a)
    BY <1>6, ZenonT(40) DEF Next, People, Edits, Work, Drop, Reread, StoreAgain, Refused, ProposalRow, MediaRow, Fetch, Claim,
       Resolve, Keep, GiveUp, Sweep, RunNext, Age, Unlink, Plan, Rebuild, Crash
  <1> QED
    BY <1>1, <1>2, <1>4, <1>5, <1>6

\* A source is never taken off the log, and a worker is the only one to put it there.
LEMMA MediumStays ==
  TypeOK /\ WorkIsAsked /\ Lifecycle /\ [Next]_vars =>
    \A p \in Proposals :
      /\ medium[p] # Nothing => medium'[p] # Nothing
      /\ medium'[p] # Nothing => status[p] \in Asked
  <1> SUFFICES ASSUME TypeOK, WorkIsAsked, Lifecycle, [Next]_vars, NEW p \in Proposals
               PROVE  /\ medium[p] # Nothing => medium'[p] # Nothing
                      /\ medium'[p] # Nothing => status[p] \in Asked
    OBVIOUS
  <1> USE DEF corpusVars
  <1>0. medium[p] # Nothing => status[p] \in Asked
    BY DEF Lifecycle
  <1>1. CASE medium' = medium
    BY <1>0, <1>1
  <1>2. ASSUME NEW q \in Proposals, Drop(q)
        PROVE  (medium'[p] # Nothing) = (medium[p] # Nothing)
    <2>1. medium'[q] = [medium[q] EXCEPT !.dropped = TRUE] /\ medium[q] \in Record
      BY <1>2 DEF Drop, TypeOK
    <2>2. medium'[q] \in Record
      BY <2>1 DEF Record
    <2> QED
      BY <1>2, <2>2, NamesAssumption DEF Drop, TypeOK, Record
  <1>3. ASSUME NEW e \in Editors, StoreAgain(e)
        PROVE  (medium'[p] # Nothing) = (medium[p] # Nothing)
    <2>1. edit[e].of \in Proposals /\ edit[e].bytes \in Digests /\ medium[edit[e].of] # Nothing
      BY <1>3 DEF StoreAgain, TypeOK, WorkIsAsked
    <2> DEFINE again == [bytes |-> edit[e].bytes, dropped |-> FALSE]
    <2>2. again # Nothing
      <3>1. again \in Record
        BY <2>1 DEF Record
      <3> QED
        BY <3>1, NamesAssumption DEF Record
    <2>3. medium' = [medium EXCEPT ![edit[e].of] = again]
      BY <1>3 DEF StoreAgain
    <2> HIDE DEF again
    <2>4. medium'[p] = IF p = edit[e].of THEN again ELSE medium[p]
      BY <2>1, <2>3 DEF TypeOK
    <2> QED
      BY <2>1, <2>2, <2>4
  <1>4. ASSUME NEW a \in Actors, Claim(a)
        PROVE  /\ medium[p] # Nothing => medium'[p] # Nothing
               /\ medium'[p] # Nothing => status[p] \in Asked
    <2>1. run[a].of # Nothing /\ run[a].of \in Proposals /\ run[a].bytes \in Digests
      BY <1>4 DEF Claim, WorkIsAsked, At, TypeOK
    <2>2. [bytes |-> run[a].bytes, dropped |-> FALSE] \in Record
      BY <2>1 DEF Record
    <2> QED
      BY <1>0, <1>4, <2>1, <2>2, NamesAssumption DEF Claim, TypeOK, WorkIsAsked, Record
  <1>5. CASE UNCHANGED vars
    BY <1>1, <1>5 DEF vars
  <1>6. ASSUME Next, medium' # medium
        PROVE  \/ \E q \in Proposals : Drop(q)
               \/ \E e \in Editors : StoreAgain(e)
               \/ \E a \in Actors : Claim(a)
    BY <1>6, ZenonT(40) DEF Next, People, Edits, Reread, Refused, Work, Propose, Accept, Reject, ProposalRow, MediaRow, Fetch,
       Resolve, Keep, RecordStored, Fail, Conclude, GiveUp, Sweep, RunNext, Age, Unlink,
       Plan, Rebuild, Crash
  <1> QED
    BY <1>0, <1>1, <1>2, <1>3, <1>4, <1>5, <1>6

\* The table and the stream: no step takes the one beside the other.
LEMMA LifecycleStays ==
  TypeOK /\ WorkIsAsked /\ Lifecycle /\ [Next]_vars => Lifecycle'
  <1> SUFFICES ASSUME TypeOK, WorkIsAsked, Lifecycle, [Next]_vars, NEW p \in Proposals
               PROVE  /\ status'[p] = "stored" => medium'[p] # Nothing
                      /\ medium'[p] # Nothing \/ rows'[p] = "accepted" => status'[p] \in Asked
                      /\ rows'[p] # status'[p] => Rank[rows'[p]] < Rank[status'[p]]
                      /\ listed'[p] # Nothing => medium'[p] # Nothing
    BY DEF Lifecycle
  <1> USE DEF proposalVars, corpusVars
  <1>1. /\ medium[p] # Nothing => medium'[p] # Nothing
        /\ medium'[p] # Nothing => status[p] \in Asked
        /\ status[p] \in Asked => status'[p] \in Asked
    BY MediumStays, AskedStays
  <1>2. listed'[p] # Nothing => listed[p] # Nothing \/ medium[p] # Nothing
    <2>1. CASE listed' = listed
      BY <2>1
    <2>2. ASSUME NEW q \in Proposals, MediaRow(q)
          PROVE  listed'[p] # Nothing => listed[p] # Nothing \/ medium[p] # Nothing
      BY <2>2 DEF MediaRow, TypeOK
    <2>3. CASE Rebuild
      BY <2>3 DEF Rebuild
    <2>4. CASE UNCHANGED vars
      BY <2>1, <2>4 DEF vars
    <2>5. ASSUME Next, listed' # listed
          PROVE  (\E q \in Proposals : MediaRow(q)) \/ Rebuild
      BY <2>5, ZenonT(40) DEF Next, People, Edits, Work, Propose, Accept, Reject, Drop, Reread, StoreAgain,
         Refused, ProposalRow,
         Fetch, Claim, Resolve, Keep, RecordStored, Fail, Conclude, GiveUp, Sweep, RunNext,
         Age, Unlink, Plan, Crash
    <2> QED
      BY <2>1, <2>2, <2>3, <2>4, <2>5
  <1>3. /\ status'[p] = "stored" => status[p] = "stored" \/ medium[p] # Nothing
        /\ rows'[p] = "accepted" => rows[p] = "accepted" \/ status'[p] \in Asked
        /\ rows'[p] # status'[p] => Rank[rows'[p]] < Rank[status'[p]]
    <2>0. /\ rows[p] # status[p] => Rank[rows[p]] < Rank[status[p]]
          /\ rows[p] \in Status /\ status[p] \in Status
      BY DEF Lifecycle, TypeOK
    <2>1. CASE UNCHANGED proposalVars
      BY <2>0, <2>1
    <2>2. ASSUME NEW q \in Proposals, Propose(q) \/ Accept(q) \/ Reject(q)
          PROVE  /\ status'[p] = "stored" => status[p] = "stored"
                 /\ rows' = rows
                 /\ rows'[p] # status'[p] => Rank[rows'[p]] < Rank[status'[p]]
      BY <2>0, <2>2, RankFacts DEF Propose, Accept, Reject, Closes, TypeOK, Status
    <2>3. ASSUME NEW a \in Actors, RecordStored(a) \/ Fail(a)
          PROVE  /\ status'[p] = "stored" => status[p] = "stored" \/ medium[p] # Nothing
                 /\ rows' = rows
                 /\ rows'[p] # status'[p] => Rank[rows'[p]] < Rank[status'[p]]
      <3>1. run[a].of \in Proposals \union {Nothing}
        BY DEF TypeOK
      <3>2. At(a, "recording") => medium[run[a].of] # Nothing
        BY DEF WorkIsAsked
      <3> QED
        BY <2>0, <2>3, <3>1, <3>2, RankFacts
        DEF RecordStored, Fail, Conclude, Closes, TypeOK, Status
    <2>4. ASSUME NEW q \in Proposals, ProposalRow(q)
          PROVE  /\ status' = status
                 /\ rows'[p] = rows[p] \/ rows'[p] = status[p]
      BY <2>4 DEF ProposalRow, TypeOK
    <2>5. CASE UNCHANGED vars
      BY <2>1, <2>5 DEF vars
    <2>6. ASSUME Next, ~UNCHANGED proposalVars
          PROVE  \/ \E q \in Proposals : Propose(q) \/ Accept(q) \/ Reject(q) \/ ProposalRow(q)
                 \/ \E a \in Actors : RecordStored(a) \/ Fail(a)
      BY <2>6, ZenonT(40) DEF Next, People, Edits, Work, Drop, Reread, StoreAgain, Refused, MediaRow, Fetch, Claim, Resolve, Keep,
         GiveUp, Sweep, RunNext, Age, Unlink, Plan, Rebuild, Crash
    <2> QED
      BY <2>0, <2>1, <2>2, <2>3, <2>4, <2>5, <2>6 DEF Asked
  <1> QED
    BY <1>1, <1>2, <1>3 DEF Lifecycle

\* The workers and the sweeps: whoever runs, runs for an accepted proposal.
LEMMA WorkStays ==
  TypeOK /\ WorkIsAsked /\ Lifecycle /\ [Next]_vars => WorkIsAsked'
  <1> SUFFICES ASSUME TypeOK, WorkIsAsked, Lifecycle, [Next]_vars PROVE WorkIsAsked'
    OBVIOUS
  <1> USE NamesAssumption DEF proposalVars, corpusVars
  <1> DEFINE Good(r) == /\ r.at = "idle" <=> r.of = Nothing
                        /\ r.of # Nothing => r.of \in Proposals /\ status'[r.of] \in Asked
                        /\ r.at = "claiming" \/ r.at = "keeping" <=> r.bytes # Nothing
                        /\ r.at = "keeping" \/ r.at = "recording" => medium'[r.of] # Nothing
  <1>a. \A p \in Proposals : /\ status[p] \in Asked => status'[p] \in Asked
                             /\ medium[p] # Nothing => medium'[p] # Nothing
    BY MediumStays, AskedStays
  <1>b. \A a \in Actors : /\ run[a].of \in Proposals \union {Nothing}
                          /\ run[a].bytes \in Digests \union {Nothing}
                          /\ run[a].at \in Places
    BY DEF TypeOK
  <1>c. \A a \in Actors : Good(run[a])
    BY <1>a, <1>b DEF WorkIsAsked, At
  <1>d. Good(Idle)
    BY DEF Idle
  <1>1. \A s \in Sweepers : \A p \in todo'[s] : status'[p] \in Asked
    <2>1. CASE todo' = todo
      BY <1>a, <2>1 DEF WorkIsAsked, TypeOK
    <2>2. ASSUME NEW s \in Sweepers, Sweep(s)
          PROVE  \A t \in Sweepers : \A p \in todo'[t] : status'[p] \in Asked
      <3>1. \A p \in Accepted : status[p] \in Asked
        BY DEF Accepted, Lifecycle
      <3> QED
        BY <2>2, <3>1, <1>a DEF Sweep, WorkIsAsked, TypeOK, Accepted
    <2>3. ASSUME NEW s \in Sweepers, NEW q \in Proposals, RunNext(s, q)
          PROVE  \A t \in Sweepers : \A p \in todo'[t] : status'[p] \in Asked
      BY <2>3, <1>a DEF RunNext, WorkIsAsked, TypeOK
    <2>4. CASE Crash
      BY <2>4 DEF Crash
    <2>5. CASE UNCHANGED vars
      BY <2>1, <2>5 DEF vars
    <2>6. ASSUME Next, todo' # todo
          PROVE  \/ \E s \in Sweepers : Sweep(s) \/ \E q \in Proposals : RunNext(s, q)
                 \/ Crash
      BY <2>6, ZenonT(40) DEF Next, People, Edits, Work, Propose, Accept, Reject, Drop, Reread, StoreAgain,
         Refused, ProposalRow,
         MediaRow, Fetch, Claim, Resolve, Keep, RecordStored, Fail, Conclude, GiveUp, Age,
         Unlink, Plan, Rebuild
    <2> QED
      BY <2>1, <2>2, <2>3, <2>4, <2>5, <2>6
  <1>2. \A a \in Actors : Good(run'[a])
    <2>1. CASE run' = run
      BY <1>c, <2>1
    <2>2. ASSUME NEW a \in Actors, Work(a) \/ GiveUp(a) PROVE \A b \in Actors : Good(run'[b])
      <3>1. \A b \in Actors \ {a} : run'[b] = run[b]
        BY <2>2 DEF Work, GiveUp, Fetch, Claim, Resolve, Keep, RecordStored, Fail, Conclude,
           Go, Stop, TypeOK
      <3>2. CASE run'[a] = Idle
        BY <1>c, <1>d, <3>1, <3>2
      <3>3. CASE Fetch(a) /\ run'[a] # Idle
        <4>1. /\ run'[a].of = run[a].of /\ run'[a].of # Nothing
              /\ \/ run'[a].at = "failing" /\ run'[a].bytes = run[a].bytes
                 \/ run'[a].at = "claiming" /\ run'[a].bytes \in Digests
          BY <3>3, <1>b, <1>c DEF Fetch, Go, Stop, At, TypeOK
        <4>2. run[a].at = "fetching"
          BY <3>3 DEF Fetch, At
        <4>3. Good(run'[a])
          BY <4>1, <4>2, <1>b, <1>c
        <4> QED
          BY <1>c, <3>1, <4>3
      <3>4. CASE Claim(a)
        <4>1. /\ run'[a].of = run[a].of /\ run'[a].at = "resolving" /\ run'[a].bytes = Nothing
              /\ run[a].at = "claiming"
          BY <3>4 DEF Claim, At, TypeOK
        <4>2. Good(run'[a])
          BY <4>1, <1>c
        <4> QED
          BY <1>c, <3>1, <4>2
      <3>5. CASE Resolve(a) /\ run'[a] # Idle
        <4>1. /\ run[a].at = "resolving" /\ run'[a].of = run[a].of
              /\ listed[run[a].of] # Nothing
              /\ \/ run'[a].at = "recording" /\ run'[a].bytes = run[a].bytes
                 \/ /\ run'[a].at = "keeping"
                    /\ run'[a].bytes = listed[run[a].of].bytes
          BY <3>5 DEF Resolve, Go, Stop, At, TypeOK
        <4>2. run[a].of \in Proposals
          BY <4>1, <1>b, <1>c
        <4>3. medium'[run[a].of] # Nothing
          BY <4>1, <4>2, <1>a DEF Lifecycle
        <4>4. listed[run[a].of].bytes # Nothing
          BY <4>1, <4>2 DEF TypeOK, Record
        <4>5. Good(run'[a])
          BY <4>1, <4>2, <4>3, <4>4, <1>c
        <4> QED
          BY <1>c, <3>1, <4>5
      <3>6. CASE Keep(a) /\ run'[a] # Idle
        <4>1. /\ run[a].at = "keeping" /\ run'[a].of = run[a].of
              /\ run'[a].at = "recording" /\ run'[a].bytes = Nothing
          BY <3>6 DEF Keep, At, TypeOK
        <4>2. Good(run'[a])
          BY <4>1, <1>c
        <4> QED
          BY <1>c, <3>1, <4>2
      <3>7. RecordStored(a) \/ Fail(a) \/ GiveUp(a) => run'[a] = Idle
        BY DEF RecordStored, Fail, Conclude, GiveUp, Stop, TypeOK
      <3> QED
        BY <2>2, <3>2, <3>3, <3>4, <3>5, <3>6, <3>7 DEF Work
    <2>3. ASSUME NEW q \in Proposals, NEW a \in Actors, status'[q] \in Asked,
                 run' = [run EXCEPT ![a] = [at |-> "fetching", of |-> q, bytes |-> Nothing]]
          PROVE  \A b \in Actors : Good(run'[b])
      <3>1. Good([at |-> "fetching", of |-> q, bytes |-> Nothing])
        BY <2>3
      <3>2. \A b \in Actors : run'[b] = IF b = a
                              THEN [at |-> "fetching", of |-> q, bytes |-> Nothing] ELSE run[b]
        BY <2>3 DEF TypeOK
      <3> QED
        BY <1>c, <3>1, <3>2
    <2>4. ASSUME NEW q \in Proposals, Accept(q) PROVE \A b \in Actors : Good(run'[b])
      <3>1. status'[q] \in Asked /\ q \in Actors
        BY <2>4 DEF Accept, Closes, Asked, TypeOK, Actors
      <3>2. run' = [run EXCEPT ![q] = [at |-> "fetching", of |-> q, bytes |-> Nothing]]
        BY <2>4 DEF Accept
      <3> HIDE DEF Good
      <3> QED
        BY <2>3, <3>1, <3>2
    <2>5. ASSUME NEW s \in Sweepers, NEW q \in Proposals, RunNext(s, q)
          PROVE  \A b \in Actors : Good(run'[b])
      <3>1. status'[q] \in Asked /\ s \in Actors
        BY <2>5, <1>a DEF RunNext, WorkIsAsked, Actors
      <3>2. run' = [run EXCEPT ![s] = [at |-> "fetching", of |-> q, bytes |-> Nothing]]
        BY <2>5 DEF RunNext
      <3> HIDE DEF Good
      <3> QED
        BY <2>3, <3>1, <3>2
    <2>6. CASE Crash
      BY <1>d, <2>6 DEF Crash
    <2>7. CASE UNCHANGED vars
      BY <2>1, <2>7 DEF vars
    <2>8. ASSUME Next, run' # run
          PROVE  \/ \E a \in Actors : Work(a) \/ GiveUp(a)
                 \/ \E q \in Proposals : Accept(q)
                 \/ \E s \in Sweepers : \E q \in Proposals : RunNext(s, q)
                 \/ Crash
      BY <2>8 DEF Next, People, Edits, Propose, Reject, Drop, Reread, StoreAgain, Refused, ProposalRow, MediaRow,
         Sweep, Age, Unlink, Plan, Rebuild
    <2> HIDE DEF Good
    <2> QED
      BY <2>1, <2>2, <2>4, <2>5, <2>6, <2>7, <2>8
  <1>3. \A e \in Editors : edit'[e] # NoEdit => medium'[edit'[e].of] # Nothing
    <2>0. ASSUME NEW e \in Editors, edit[e] # NoEdit
          PROVE  edit[e].of \in Proposals /\ medium'[edit[e].of] # Nothing
      BY <2>0, <1>a DEF TypeOK, WorkIsAsked
    <2>1. CASE edit' = edit
      BY <2>0, <2>1
    <2>2. ASSUME NEW e \in Editors, StoreAgain(e) \/ Refused(e)
          PROVE  \A f \in Editors : edit'[f] = NoEdit \/ edit'[f] = edit[f]
      BY <2>2 DEF StoreAgain, Refused, TypeOK
    <2>3. ASSUME NEW e \in Editors, NEW p \in Proposals, Reread(e, p)
          PROVE  \A f \in Editors : edit'[f] # NoEdit => medium'[edit'[f].of] # Nothing
      <3>1. /\ \A f \in Editors \ {e} : edit'[f] = edit[f]
            /\ edit'[e] = [of |-> p, bytes |-> listed[p].bytes]
            /\ listed[p] # Nothing
        BY <2>3 DEF Reread, TypeOK
      <3>2. medium'[p] # Nothing
        BY <3>1, <1>a DEF Lifecycle
      <3> QED
        BY <2>0, <3>1, <3>2
    <2>4. CASE Crash
      BY <2>4 DEF Crash
    <2>5. CASE UNCHANGED vars
      BY <2>1, <2>5 DEF vars
    <2>6. ASSUME Next, edit' # edit
          PROVE  (\E e \in Editors : Edits(e)) \/ Crash
      BY <2>6, ZenonT(40) DEF Next, People, Work, Propose, Accept, Reject, Drop, ProposalRow,
         MediaRow, Fetch, Claim, Resolve, Keep, RecordStored, Fail, Conclude, GiveUp, Sweep,
         RunNext, Age, Unlink, Plan, Rebuild
    <2> QED
      BY <2>0, <2>1, <2>2, <2>3, <2>4, <2>5, <2>6 DEF Edits
  <1> QED
    BY <1>1, <1>2, <1>3 DEF WorkIsAsked, At

\* MediaInv is kept by every step.
LEMMA MediaStays == MediaInv /\ [Next]_vars => MediaInv'
  BY TypesStay, LifecycleStays, WorkStays DEF MediaInv

\* Nothing is proposed at first.
LEMMA MediaStarts == Init => MediaInv
  <1> SUFFICES ASSUME Init PROVE MediaInv
    OBVIOUS
  <1>1. TypeOK
    BY BoundsAssumption DEF Init, TypeOK, Status, Idle, Places
  <1>2. Lifecycle /\ WorkIsAsked
    BY DEF Init, Lifecycle, WorkIsAsked, At, Idle
  <1> QED
    BY <1>1, <1>2 DEF MediaInv

\* The stream of the proposals, their table, the workers and the sweeps agree in
\* every state: a worker never runs for what nobody accepted, nothing is stored
\* without a source, and the table is behind the stream and never beside it
\* (media_proposals.py: decide; media_acquisition.py: run and reconcile).
THEOREM MediaInvariant == Spec => []MediaInv
  BY MediaStarts, MediaStays, PTL DEF Spec

(***************************************************************************)
(* The cleaner.                                                            *)
(***************************************************************************)

\* Files whose contents a record or a row names may come and age; they may not
\* go, nor age under a record its row does not name yet.
LEMMA NamedFilesKept ==
  ASSUME MediaInv, BytesInv, medium' = medium, listed' = listed, adopted \subseteq adopted',
         \A p \in Proposals, e \in Digests : e \notin adopted =>
           /\ (Names(medium[p], e) \/ Names(listed[p], e)) /\ blob[e] # "absent"
                => blob'[e] # "absent"
           /\ Names(medium[p], e) /\ ~Names(listed[p], e) /\ blob[e] = "young"
                => blob'[e] = "young"
  PROVE  UnlistedIsYoung' /\ RowsHaveBytes' /\ RecordsHaveBytes'
  <1>r. \A p \in Proposals : /\ medium[p] # Nothing => medium[p].bytes \in Digests
                             /\ listed[p] # Nothing => listed[p].bytes \in Digests
    BY DEF MediaInv, TypeOK, Record
  <1>1. UnlistedIsYoung'
    <2> SUFFICES ASSUME NEW p \in Proposals, medium[p] # Nothing, listed[p] # Nothing,
                        ~Names(listed[p], medium[p].bytes), medium[p].bytes \notin adopted'
                 PROVE  blob'[medium[p].bytes] = "young"
      BY DEF UnlistedIsYoung, Names
    <2> DEFINE x == medium[p].bytes
    <2>a. x \in Digests
      BY <1>r
    <2>b. x \notin adopted
      OBVIOUS
    <2>0. x \in Digests /\ x \notin adopted
      BY <2>a, <2>b
    <2>1. blob[x] = "young"
      BY <2>0 DEF BytesInv, UnlistedIsYoung
    <2>2. Names(medium[p], x)
      BY DEF Names
    <2> HIDE DEF x
    <2>3. blob'[x] = "young"
      BY <2>0, <2>1, <2>2 DEF x
    <2> QED
      BY <2>3 DEF x
  <1>2. RowsHaveBytes'
    <2> SUFFICES ASSUME NEW p \in Proposals, listed[p] # Nothing, listed[p].bytes \notin adopted'
                 PROVE  blob'[listed[p].bytes] # "absent"
      BY DEF RowsHaveBytes
    <2> DEFINE x == listed[p].bytes
    <2>a. x \in Digests
      BY <1>r
    <2>b. x \notin adopted
      OBVIOUS
    <2>0. x \in Digests /\ x \notin adopted
      BY <2>a, <2>b
    <2>1. blob[x] # "absent"
      BY <2>0 DEF BytesInv, RowsHaveBytes
    <2>2. Names(listed[p], x)
      BY DEF Names
    <2> HIDE DEF x
    <2>3. blob'[x] # "absent"
      BY <2>0, <2>1, <2>2
    <2> QED
      BY <2>3 DEF x
  <1>3. RecordsHaveBytes'
    <2> SUFFICES ASSUME NEW p \in Proposals, medium[p] # Nothing, medium[p].bytes \notin adopted'
                 PROVE  blob'[medium[p].bytes] # "absent"
      BY DEF RecordsHaveBytes
    <2> DEFINE x == medium[p].bytes
    <2>a. x \in Digests
      BY <1>r
    <2>b. x \notin adopted
      OBVIOUS
    <2>0. x \in Digests /\ x \notin adopted
      BY <2>a, <2>b
    <2>1. blob[x] # "absent"
      BY <2>0 DEF BytesInv, RecordsHaveBytes
    <2>2. Names(medium[p], x)
      BY DEF Names
    <2> HIDE DEF x
    <2>3. blob'[x] # "absent"
      BY <2>0, <2>1, <2>2
    <2> QED
      BY <2>3 DEF x
  <1> QED
    BY <1>1, <1>2, <1>3

\* The steps of the workers keep the cleaner's part: what a store brings is
\* young or adopted, and a record is only ever of such bytes.
LEMMA StoresKeepBytes ==
  ASSUME MediaInv, MediaInv', BytesInv, NEW a \in Actors, Work(a)
  PROVE  BytesInv'
  <1> USE DEF corpusVars, blobVars
  <1>1. CASE Fetch(a)
    <2>1. /\ UNCHANGED corpusVars /\ UNCHANGED doomed
          /\ adopted \subseteq adopted'
          /\ \A d \in Digests : blob'[d] = blob[d] \/ (blob[d] = "absent" /\ blob'[d] = "young")
      <3>1. CASE UNCHANGED <<blob, adopted>>
        BY <1>1, <3>1 DEF Fetch
      <3>2. ASSUME NEW d \in Digests,
                   blob' = [blob EXCEPT ![d] = IF @ = "absent" THEN "young" ELSE @],
                   adopted' = IF blob[d] = "old" THEN adopted \union {d} ELSE adopted
            PROVE  /\ adopted \subseteq adopted'
                   /\ \A e \in Digests :
                        blob'[e] = blob[e] \/ (blob[e] = "absent" /\ blob'[e] = "young")
        BY <3>2 DEF MediaInv, TypeOK
      <3> QED
        BY <1>1, <3>1, <3>2 DEF Fetch
    <2>2. ASSUME NEW b \in Actors, run'[b].at = "claiming"
          PROVE  run'[b].bytes \in adopted' \/ blob'[run'[b].bytes] = "young"
      <3>1. CASE run'[b] = run[b]
        <4>1. run[b].bytes \in Digests
          BY <2>2, <3>1 DEF MediaInv, TypeOK, WorkIsAsked, At
        <4> QED
          BY <2>1, <2>2, <3>1, <4>1 DEF BytesInv, HeldIsYoung, At
      <3>2. CASE run'[b] # run[b]
        <4>1. b = a
          BY <1>1, <3>2 DEF Fetch, Go, Stop, MediaInv, TypeOK
        <4>2. PICK d \in Digests :
                 /\ run' = [run EXCEPT ![a].at = "claiming", ![a].bytes = d]
                 /\ blob' = [blob EXCEPT ![d] = IF @ = "absent" THEN "young" ELSE @]
                 /\ adopted' = IF blob[d] = "old" THEN adopted \union {d} ELSE adopted
          <5>1. Stop(a) => run'[a].at # "claiming"
            BY DEF Stop, Idle, MediaInv, TypeOK
          <5>2. Go(a, "failing") => run'[a].at # "claiming"
            BY DEF Go, MediaInv, TypeOK
          <5> QED
            BY <1>1, <2>2, <4>1, <5>1, <5>2 DEF Fetch
        <4>3. run'[a].bytes = d
          BY <4>2 DEF MediaInv, TypeOK
        <4>4. blob[d] \in {"absent", "young", "old"}
          BY DEF MediaInv, TypeOK
        <4> QED
          BY <4>1, <4>2, <4>3, <4>4 DEF MediaInv, TypeOK
      <3> QED
        BY <3>1, <3>2
    <2>3. HeldIsYoung'
      BY <2>2 DEF HeldIsYoung, At
    <2>5. UnlistedIsYoung' /\ RowsHaveBytes' /\ RecordsHaveBytes'
      <3>1. \A e \in Digests : /\ blob[e] = "young" => blob'[e] = "young"
                               /\ blob[e] # "absent" => blob'[e] # "absent"
        BY <2>1
      <3> QED
        BY <2>1, <3>1, NamedFilesKept
    <2>6. DoomedIsNamedByNone'
      BY <2>1 DEF BytesInv, DoomedIsNamedByNone, Names, MediaInv, TypeOK
    <2> QED
      BY <2>3, <2>5, <2>6 DEF BytesInv
  <1>2. CASE Claim(a)
    <2> DEFINE q == run[a].of
               d == run[a].bytes
    <2>1. /\ UNCHANGED <<listed, blob, doomed, adopted>>
          /\ q \in Proposals /\ d \in Digests
          /\ \A p \in Proposals : medium'[p] =
                IF p = q THEN [bytes |-> d, dropped |-> FALSE] ELSE medium[p]
      BY <1>2 DEF Claim, MediaInv, TypeOK, WorkIsAsked, At
    <2>2. d \in adopted \/ blob[d] = "young"
      BY <1>2 DEF Claim, BytesInv, HeldIsYoung
    <2>3. \A b \in Actors : run'[b].at = "claiming" => run'[b] = run[b]
      BY <1>2 DEF Claim, MediaInv, TypeOK
    <2> HIDE DEF q, d
    <2>4. HeldIsYoung'
      BY <2>1, <2>3 DEF BytesInv, HeldIsYoung, At
    <2>5. UnlistedIsYoung' /\ RecordsHaveBytes' /\ RowsHaveBytes'
      BY <2>1, <2>2 DEF BytesInv, UnlistedIsYoung, RecordsHaveBytes, RowsHaveBytes, Names
    <2>6. DoomedIsNamedByNone'
      BY <2>1, <2>2 DEF BytesInv, DoomedIsNamedByNone, Names
    <2> QED
      BY <2>4, <2>5, <2>6 DEF BytesInv
  <1>3. CASE Resolve(a) \/ Keep(a) \/ RecordStored(a) \/ Fail(a)
    <2>1. UNCHANGED <<medium, listed, blob, doomed, adopted>>
      BY <1>3 DEF Resolve, Keep, RecordStored, Fail, Conclude
    <2>2. \A b \in Actors : run'[b].at = "claiming" => run'[b] = run[b]
      <3>1. CASE Resolve(a)
        BY <3>1 DEF Resolve, Go, Stop, Idle, MediaInv, TypeOK
      <3>2. CASE Keep(a)
        BY <3>2 DEF Keep, Idle, MediaInv, TypeOK
      <3>3. CASE RecordStored(a) \/ Fail(a)
        BY <3>3 DEF RecordStored, Fail, Conclude, Stop, Idle, MediaInv, TypeOK
      <3> QED
        BY <1>3, <3>1, <3>2, <3>3
    <2> QED
      BY <2>1, <2>2 DEF BytesInv, HeldIsYoung, UnlistedIsYoung, DoomedIsNamedByNone,
         RowsHaveBytes, RecordsHaveBytes, Names, At
  <1> QED
    BY <1>1, <1>2, <1>3 DEF Work

\* Steps that leave the files, the records and the rows alone.
LEMMA OthersKeepBytes ==
  ASSUME MediaInv, BytesInv, UNCHANGED <<medium, listed, blob, doomed, adopted>>,
         \A b \in Actors : run'[b].at = "claiming" => run'[b] = run[b]
  PROVE  BytesInv'
  BY DEF BytesInv, HeldIsYoung, UnlistedIsYoung, DoomedIsNamedByNone, RowsHaveBytes,
     RecordsHaveBytes, Names, At

\* No step lets the cleaner near the bytes of a record.
LEMMA BytesStay == MediaInv /\ MediaInv' /\ BytesInv /\ [Next]_vars => BytesInv'
  <1> SUFFICES ASSUME MediaInv, MediaInv', BytesInv, [Next]_vars PROVE BytesInv'
    OBVIOUS
  <1> USE DEF corpusVars, blobVars
  <1>r. \A p \in Proposals : /\ medium[p] \in Record \union {Nothing}
                             /\ listed[p] \in Record \union {Nothing}
                             /\ medium[p] # Nothing => medium[p].bytes \in Digests
                             /\ listed[p] # Nothing => listed[p].bytes \in Digests
    BY DEF MediaInv, TypeOK, Record
  <1>1. ASSUME NEW a \in Actors, Work(a) PROVE BytesInv'
    BY <1>1, StoresKeepBytes
  <1>2. ASSUME NEW p \in Proposals, Propose(p) \/ Accept(p) \/ Reject(p) \/ ProposalRow(p)
        PROVE  BytesInv'
    <2>1. \A b \in Actors : run'[b].at = "claiming" => run'[b] = run[b]
      BY <1>2 DEF Propose, Accept, Reject, ProposalRow, MediaInv, TypeOK
    <2>2. UNCHANGED <<medium, listed, blob, doomed, adopted>>
      BY <1>2 DEF Propose, Accept, Reject, ProposalRow
    <2> QED
      BY <2>1, <2>2, OthersKeepBytes
  <1>3. ASSUME NEW q \in Proposals, Drop(q) PROVE BytesInv'
    <2>1. /\ UNCHANGED <<run, listed, blob, doomed, adopted>>
          /\ \A p \in Proposals \ {q} : medium'[p] = medium[p]
          /\ medium[q] # Nothing /\ medium'[q] # Nothing
          /\ medium'[q].bytes = medium[q].bytes
      <3>1. medium'[q] = [medium[q] EXCEPT !.dropped = TRUE] /\ medium[q] \in Record
        BY <1>3, <1>r DEF Drop, MediaInv, TypeOK
      <3>2. medium'[q] \in Record /\ medium'[q].bytes = medium[q].bytes
        BY <3>1 DEF Record
      <3> QED
        BY <1>3, <3>2, NamesAssumption DEF Drop, MediaInv, TypeOK, Record
    <2>2. \A p \in Proposals : /\ medium'[p] # Nothing <=> medium[p] # Nothing
                              /\ medium[p] # Nothing => medium'[p].bytes = medium[p].bytes
      BY <2>1
    <2>3. HeldIsYoung' /\ RowsHaveBytes'
      BY <2>1 DEF BytesInv, HeldIsYoung, RowsHaveBytes, At
    <2>4. UnlistedIsYoung' /\ RecordsHaveBytes'
      BY <2>1, <2>2 DEF BytesInv, UnlistedIsYoung, RecordsHaveBytes, Names
    <2>5. DoomedIsNamedByNone'
      <3>1. \A d \in doomed : d \notin adopted => \A p \in Proposals : ~Names(medium[p], d)' /\ ~Names(listed[p], d)'
        BY <2>1, <2>2 DEF BytesInv, DoomedIsNamedByNone, Names
      <3> QED
        BY <2>1, <3>1 DEF BytesInv, DoomedIsNamedByNone
    <2> QED
      BY <2>3, <2>4, <2>5 DEF BytesInv
  <1>4. ASSUME NEW e \in Editors, StoreAgain(e) PROVE BytesInv'
    <2> DEFINE q == edit[e].of
               d == edit[e].bytes
    <2>1. /\ UNCHANGED <<run, listed, blob, doomed>>
          /\ q \in Proposals /\ d \in Digests
          /\ adopted \subseteq adopted'
          /\ d \in adopted' \/ blob[d] = "young" \/ Names(medium[q], d) \/ Names(listed[q], d)
          /\ \A p \in Proposals : medium'[p] =
                IF p = q THEN [bytes |-> d, dropped |-> FALSE] ELSE medium[p]
      BY <1>4 DEF StoreAgain, RestoredOrphan, MediaInv, TypeOK
    <2> HIDE DEF q, d
    <2>2. HeldIsYoung'
      BY <2>1 DEF BytesInv, HeldIsYoung, At
    <2>3. UnlistedIsYoung'
      BY <2>1 DEF BytesInv, UnlistedIsYoung, Names
    <2>4. RowsHaveBytes' /\ RecordsHaveBytes'
      BY <2>1 DEF BytesInv, RowsHaveBytes, RecordsHaveBytes, Names
    <2>5. DoomedIsNamedByNone'
      BY <2>1 DEF BytesInv, DoomedIsNamedByNone, Names
    <2> QED
      BY <2>2, <2>3, <2>4, <2>5 DEF BytesInv
  <1>5. ASSUME NEW q \in Proposals, MediaRow(q) PROVE BytesInv'
    <2>1. /\ UNCHANGED <<run, medium, blob, doomed, adopted>>
          /\ \A p \in Proposals : listed'[p] = IF p = q THEN medium[q] ELSE listed[p]
      BY <1>5 DEF MediaRow, MediaInv, TypeOK
    <2> QED
      BY <1>r, <2>1 DEF BytesInv, HeldIsYoung, UnlistedIsYoung, DoomedIsNamedByNone,
         RowsHaveBytes, RecordsHaveBytes, Names, At
  <1>6. ASSUME NEW a \in Actors, GiveUp(a) PROVE BytesInv'
    <2>1. UNCHANGED <<medium, listed, blob, doomed, adopted>>
      BY <1>6 DEF GiveUp
    <2>2. \A b \in Actors : run'[b].at = "claiming" => run'[b] = run[b]
      BY <1>6 DEF GiveUp, Stop, Idle, MediaInv, TypeOK
    <2> QED
      BY <2>1, <2>2, OthersKeepBytes
  <1>7. ASSUME NEW s \in Sweepers, Sweep(s) \/ \E p \in Proposals : RunNext(s, p)
        PROVE  BytesInv'
    <2>1. UNCHANGED <<medium, listed, blob, doomed, adopted>>
      BY <1>7 DEF Sweep, RunNext
    <2>2. \A b \in Actors : run'[b].at = "claiming" => run'[b] = run[b]
      BY <1>7 DEF Sweep, RunNext, MediaInv, TypeOK
    <2> QED
      BY <2>1, <2>2, OthersKeepBytes
  <1>8. ASSUME NEW d \in Digests, Age(d) PROVE BytesInv'
    <2>1. /\ UNCHANGED <<run, medium, listed, doomed, adopted>>
          /\ blob[d] = "young" /\ ~InFlight(d)
          /\ \A e \in Digests : blob'[e] = IF e = d THEN "old" ELSE blob[e]
      BY <1>8 DEF Age, MediaInv, TypeOK
    <2>2. HeldIsYoung'
      <3>1. \A a \in Actors : At(a, "claiming") => run[a].bytes \in Digests /\ run[a].bytes # d
        BY <2>1 DEF InFlight, MediaInv, TypeOK, WorkIsAsked, At
      <3> QED
        BY <2>1, <3>1 DEF BytesInv, HeldIsYoung, At
    <2>3. UnlistedIsYoung' /\ RowsHaveBytes' /\ RecordsHaveBytes'
      <3>1. \A e \in Digests : blob[e] # "absent" => blob'[e] # "absent"
        BY <2>1
      <3>2. \A p \in Proposals, e \in Digests :
              Names(medium[p], e) /\ ~Names(listed[p], e) => blob'[e] = blob[e]
        BY <2>1 DEF InFlight
      <3> QED
        BY <2>1, <3>1, <3>2, NamedFilesKept
    <2>4. DoomedIsNamedByNone'
      BY <2>1 DEF BytesInv, DoomedIsNamedByNone, Names, MediaInv, TypeOK
    <2> QED
      BY <2>2, <2>3, <2>4 DEF BytesInv
  <1>9. ASSUME NEW d \in Digests, Unlink(d) PROVE BytesInv'
    <2>1. /\ UNCHANGED <<run, medium, listed, adopted>>
          /\ d \in doomed /\ doomed' = doomed \ {d} /\ blob[d] = "old"
          /\ \A e \in Digests : blob'[e] = IF e = d THEN "absent" ELSE blob[e]
      BY <1>9 DEF Unlink, MediaInv, TypeOK, BytesInv, DoomedIsNamedByNone
    <2>2. d \notin adopted =>
             \A p \in Proposals : ~Names(medium[p], d) /\ ~Names(listed[p], d)
      BY <2>1 DEF BytesInv, DoomedIsNamedByNone
    <2>3. HeldIsYoung'
      <3>1. \A a \in Actors : At(a, "claiming") => run[a].bytes \in Digests
        BY DEF MediaInv, TypeOK, WorkIsAsked, At
      <3> QED
        BY <2>1, <3>1 DEF BytesInv, HeldIsYoung, At
    <2>4. UnlistedIsYoung' /\ RowsHaveBytes' /\ RecordsHaveBytes'
      <3>1. \A e \in Digests : e # d => blob'[e] = blob[e]
        BY <2>1
      <3> QED
        BY <2>1, <2>2, <3>1, NamedFilesKept
    <2>5. DoomedIsNamedByNone'
      BY <2>1 DEF BytesInv, DoomedIsNamedByNone, Names, MediaInv, TypeOK
    <2> QED
      BY <2>3, <2>4, <2>5 DEF BytesInv
  <1>10. CASE Plan
    <2>1. /\ UNCHANGED <<run, medium, listed, blob>>
          /\ doomed' = Orphans /\ adopted' = adopted \union (Orphans \intersect Hidden)
      BY <1>10 DEF Plan
    <2>2. DoomedIsNamedByNone'
      <3> SUFFICES ASSUME NEW d \in Orphans
                   PROVE  /\ blob[d] = "old"
                          /\ d \notin adopted' => \A p \in Proposals :
                                ~Names(medium[p], d) /\ ~Names(listed[p], d)
        BY <2>1 DEF DoomedIsNamedByNone, Names
      <3>1. /\ d \in Digests /\ blob[d] = "old"
            /\ \A p \in Proposals : ~Names(listed[p], d)
        BY DEF Orphans
      <3>2. ASSUME NEW p \in Proposals, Names(medium[p], d), d \notin adopted' PROVE FALSE
        <4>1. d \notin Hidden /\ d \notin adopted
          BY <2>1, <3>2
        <4>2. listed[p] # Nothing
          BY <3>1, <3>2, <4>1 DEF Hidden
        <4>3. medium[p] # Nothing /\ medium[p].bytes = d
          BY <3>2 DEF Names
        <4> QED
          BY <3>1, <4>1, <4>2, <4>3 DEF BytesInv, UnlistedIsYoung
      <3> QED
        BY <3>1, <3>2
    <2> QED
      BY <2>1, <2>2 DEF BytesInv, HeldIsYoung, UnlistedIsYoung,
         RowsHaveBytes, RecordsHaveBytes, Names, At
  <1>11. CASE Rebuild
    <2>1. /\ UNCHANGED <<run, medium, blob, doomed, adopted>>
          /\ \A p \in Proposals : listed'[p] = Nothing
      BY <1>11 DEF Rebuild
    <2> QED
      BY <1>r, <2>1 DEF BytesInv, HeldIsYoung, UnlistedIsYoung, DoomedIsNamedByNone,
         RowsHaveBytes, RecordsHaveBytes, Names, At
  <1>12. CASE Crash
    <2>1. UNCHANGED <<medium, listed, blob, doomed, adopted>>
      BY <1>12 DEF Crash
    <2>2. \A b \in Actors : run'[b].at = "claiming" => run'[b] = run[b]
      BY <1>12 DEF Crash, Idle
    <2> QED
      BY <2>1, <2>2, OthersKeepBytes
  <1>13. CASE UNCHANGED vars
    BY <1>13, OthersKeepBytes DEF vars
  <1>14. ASSUME NEW e \in Editors, Refused(e) \/ \E p \in Proposals : Reread(e, p)
         PROVE  BytesInv'
    <2>1. UNCHANGED <<run, medium, listed, blob, doomed, adopted>>
      BY <1>14 DEF Refused, Reread
    <2> QED
      BY <2>1, OthersKeepBytes
  <1> QED
    BY <1>1, <1>2, <1>3, <1>4, <1>5, <1>6, <1>7, <1>8, <1>9, <1>10, <1>11, <1>12, <1>13, <1>14
    DEF Next, People, Edits

\* Nothing is stored at first.
LEMMA BytesStart == Init => BytesInv
  BY DEF Init, BytesInv, HeldIsYoung, UnlistedIsYoung, DoomedIsNamedByNone, RowsHaveBytes,
     RecordsHaveBytes, At, Idle

\* Whatever people, workers, sweeps, rebuilds and deaths of the process do, the
\* cleaner leaves the bytes of every record of the corpus alone, but for
\* contents a store adopted as an old orphan, contents a rebuild hid from it and
\* contents an editor restored after record and row had moved on from them
\* (corpus_writer.py:122, blob_sweep.py: plan and sweep).
THEOREM BytesAreKept == Spec => []RecordsHaveBytes
  <1>1. Init => MediaInv /\ BytesInv
    BY MediaStarts, BytesStart
  <1>2. MediaInv /\ BytesInv /\ [Next]_vars => (MediaInv /\ BytesInv)'
    BY MediaStays, BytesStay
  <1>3. BytesInv => RecordsHaveBytes
    BY DEF BytesInv
  <1> QED
    BY <1>1, <1>2, <1>3, PTL DEF Spec

=============================================================================
