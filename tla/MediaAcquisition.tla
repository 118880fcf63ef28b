-------------------------- MODULE MediaAcquisition --------------------------
(***************************************************************************)
(* How a page found by a search becomes a recording of the corpus.         *)
(*                                                                         *)
(* People accept what a curation proposed, and accepting starts a worker   *)
(* that downloads, stores the bytes, records the source, has it read into  *)
(* text and closes the proposal.  Every step of the worker awaits, it may  *)
(* be lost at any of them, and a sweep runs it again for as long as the    *)
(* table shows the proposal as accepted.                                   *)
(*                                                                         *)
(* The bytes are files named by their digest, the sources are events of    *)
(* the corpus, the tables follow the log, and the cleaner of the files is  *)
(* a program of its own that reads the table and the ages of the files.    *)
(***************************************************************************)
EXTENDS Integers, FiniteSets

CONSTANTS
  Proposals,    \* proposals, and the sources they become: one id names both
  Digests,      \* contents, by digest
  TooLong,      \* contents whose reading is longer than a document may be
  Sweepers,     \* reconcilers: the one of the start and the one of the timer
  Editors,      \* requests of people that restore a source or revise it
  Nothing,      \* no record, no proposal, no bytes
  MaxFaults     \* bound: steps that raise, deaths of the process, rebuilds and edits

ASSUME TooLongAssumption == TooLong \subseteq Digests
ASSUME NamesAssumption ==
  /\ Sweepers \intersect Proposals = {}
  /\ Nothing \notin Proposals \union Digests \union [bytes : Digests, dropped : BOOLEAN]
ASSUME BoundsAssumption == MaxFaults \in Nat

VARIABLES
  status,     \* status[p]: the proposal on the stream of its project
  rows,       \* rows[p]: the status in the table of proposals
  run,        \* run[a]: where a worker is; the task of an accept has its proposal's name
  todo,       \* todo[s]: what a sweep has still to run
  medium,     \* medium[p]: the record of the source in the corpus
  listed,     \* listed[p]: the record in the corpus table
  edit,       \* edit[e]: the source an editor read from the table, and its bytes
  blob,       \* blob[d]: the file of a content
  doomed,     \* files the cleaner has planned to remove
  adopted,    \* contents a store found on disk as an orphan, or a rebuild hid from the cleaner
  faults

proposalVars == <<status, rows>>
corpusVars == <<medium, listed>>
blobVars == <<blob, doomed, adopted>>
vars == <<proposalVars, run, todo, corpusVars, edit, blobVars, faults>>

(***************************************************************************)
(* Types.                                                                  *)
(***************************************************************************)
Status == {"none", "proposed", "accepted", "rejected", "stored", "failed"}

Record == [bytes : Digests, dropped : BOOLEAN]

Places == {"idle", "fetching", "claiming", "resolving", "keeping", "recording", "failing"}

Actors == Proposals \union Sweepers

Idle == [at |-> "idle", of |-> Nothing, bytes |-> Nothing]

NoEdit == [of |-> Nothing, bytes |-> Nothing]

TypeOK ==
  /\ status \in [Proposals -> Status] /\ rows \in [Proposals -> Status]
  /\ run \in [Actors -> [at : Places, of : Proposals \union {Nothing},
                         bytes : Digests \union {Nothing}]]
  /\ todo \in [Sweepers -> SUBSET Proposals]
  /\ medium \in [Proposals -> Record \union {Nothing}]
  /\ listed \in [Proposals -> Record \union {Nothing}]
  /\ edit \in [Editors -> [of : Proposals, bytes : Digests] \union {NoEdit}]
  /\ blob \in [Digests -> {"absent", "young", "old"}]
  /\ doomed \subseteq Digests /\ adopted \subseteq Digests
  /\ faults \in 0..MaxFaults

Init ==
  /\ status = [p \in Proposals |-> "none"] /\ rows = status
  /\ run = [a \in Actors |-> Idle]
  /\ todo = [s \in Sweepers |-> {}]
  /\ medium = [p \in Proposals |-> Nothing] /\ listed = medium
  /\ edit = [e \in Editors |-> NoEdit]
  /\ blob = [d \in Digests |-> "absent"]
  /\ doomed = {} /\ adopted = {}
  /\ faults = 0

(***************************************************************************)
(* The stream of a project's proposals.  A command loads, decides and      *)
(* saves; the save that loses its version is a step that raises (GiveUp).  *)
(***************************************************************************)
Settled(p) == status[p] \in {"stored", "failed"}

Closes(p, end) == status' = [status EXCEPT ![p] = end] /\ UNCHANGED rows

\* A candidate that a curation kept.
Propose(p) ==
  /\ status[p] = "none"
  /\ Closes(p, "proposed")
  /\ UNCHANGED <<edit, run, todo, corpusVars, blobVars, faults>>

Accept(p) ==
  /\ status[p] = "proposed"
  /\ Closes(p, "accepted")
  /\ run' = [run EXCEPT ![p] = [at |-> "fetching", of |-> p, bytes |-> Nothing]]
  /\ UNCHANGED <<edit, todo, corpusVars, blobVars, faults>>

Reject(p) ==
  /\ status[p] = "proposed"
  /\ Closes(p, "rejected")
  /\ UNCHANGED <<edit, run, todo, corpusVars, blobVars, faults>>

\* What may happen to the others a bounded number of times.
Disturbed == faults < MaxFaults /\ faults' = faults + 1

(***************************************************************************)
(* People at the corpus.                                                   *)
(***************************************************************************)
Drop(p) ==
  /\ medium[p] # Nothing /\ ~medium[p].dropped
  /\ medium' = [medium EXCEPT ![p].dropped = TRUE]
  /\ UNCHANGED <<edit, proposalVars, run, todo, listed, blobVars, faults>>

Names(record, d) == record # Nothing /\ record.bytes = d

\* restore and revise begin with the row of the source.
Reread(e, p) ==
  /\ edit[e] = NoEdit /\ listed[p] # Nothing /\ Disturbed
  /\ edit' = [edit EXCEPT ![e] = [of |-> p, bytes |-> listed[p].bytes]]
  /\ UNCHANGED <<proposalVars, run, todo, corpusVars, blobVars>>

\* The file that was read has aged, and neither the record nor the row of the
\* source is of it any more: the cleaner may have it.
RestoredOrphan(p, d) == blob[d] # "young" /\ ~Names(medium[p], d) /\ ~Names(listed[p], d)

\* Some awaits later the record is stored as it was read, which undoes a drop.
\* The version it is saved against was loaded after the row was.
StoreAgain(e) ==
  LET p == edit[e].of  d == edit[e].bytes IN
  /\ edit[e] # NoEdit /\ edit' = [edit EXCEPT ![e] = NoEdit]
  /\ medium' = [medium EXCEPT ![p] = [bytes |-> d, dropped |-> FALSE]]
  /\ adopted' = IF RestoredOrphan(p, d) THEN adopted \union {d} ELSE adopted
  /\ UNCHANGED <<proposalVars, run, todo, listed, blob, doomed, faults>>

\* Not dropped, or a save that loses its version: the request is refused.
Refused(e) ==
  /\ edit[e] # NoEdit /\ edit' = [edit EXCEPT ![e] = NoEdit]
  /\ UNCHANGED <<proposalVars, run, todo, corpusVars, blobVars, faults>>

(***************************************************************************)
(* The worker.                                                             *)
(***************************************************************************)
Go(a, place) == run' = [run EXCEPT ![a].at = place]

Stop(a) == run' = [run EXCEPT ![a] = Idle]

At(a, place) == run[a].at = place

\* The row of the proposal is read: a dispatch ahead of the table has nothing
\* to do.  Then the page refuses, the body is too large, or it lands in a file;
\* a file that is there already is taken as it is, its age included.
Fetch(a) ==
  /\ At(a, "fetching")
  /\ \/ /\ rows[run[a].of] = "none"
        /\ Stop(a) /\ UNCHANGED <<blob, adopted>>
     \/ /\ rows[run[a].of] # "none"
        /\ Go(a, "failing") /\ UNCHANGED <<blob, adopted>>
     \/ \E d \in Digests :
          /\ rows[run[a].of] # "none"
          /\ run' = [run EXCEPT ![a].at = "claiming", ![a].bytes = d]
          /\ blob' = [blob EXCEPT ![d] = IF @ = "absent" THEN "young" ELSE @]
          /\ adopted' = IF blob[d] = "old" THEN adopted \union {d} ELSE adopted
  /\ UNCHANGED <<edit, proposalVars, todo, corpusVars, doomed, faults>>

\* The record of the source, over whatever the id held: a drop included.
Claim(a) ==
  /\ At(a, "claiming")
  /\ medium' = [medium EXCEPT ![run[a].of] = [bytes |-> run[a].bytes, dropped |-> FALSE]]
  /\ run' = [run EXCEPT ![a].at = "resolving", ![a].bytes = Nothing]
  /\ UNCHANGED <<edit, proposalVars, todo, listed, blobVars, faults>>

\* The source as the table has it.  A dropped one, missing bytes and an
\* install without a model are named and passed over; no row at all is not.
Resolve(a) ==
  LET p == run[a].of IN
  /\ At(a, "resolving")
  /\ \/ listed[p] = Nothing /\ Stop(a)
     \/ listed[p] # Nothing /\ Go(a, "recording")
     \/ /\ listed[p] # Nothing /\ ~listed[p].dropped /\ blob[listed[p].bytes] # "absent"
        /\ run' = [run EXCEPT ![a].at = "keeping", ![a].bytes = listed[p].bytes]
  /\ UNCHANGED <<edit, proposalVars, todo, corpusVars, blobVars, faults>>

\* The reading comes back: too long raises past the worker, anything else is
\* saved as a text of its own, which nothing here asks for.
Keep(a) ==
  /\ At(a, "keeping")
  /\ run' = [run EXCEPT ![a] = IF @.bytes \in TooLong THEN Idle
                              ELSE [@ EXCEPT !.at = "recording", !.bytes = Nothing]]
  /\ UNCHANGED <<edit, proposalVars, todo, corpusVars, blobVars, faults>>

\* The proposal is closed, unless another run closed it.  A worker that is
\* refused either takes it as its own success or raises: nothing is saved.
Conclude(a, place, end) ==
  /\ At(a, place)
  /\ IF status[run[a].of] = "accepted" THEN Closes(run[a].of, end) ELSE UNCHANGED proposalVars
  /\ Stop(a)
  /\ UNCHANGED <<edit, todo, corpusVars, blobVars, faults>>

RecordStored(a) == Conclude(a, "recording", "stored")

Fail(a) == Conclude(a, "failing", "failed")

\* A save that loses its version, a disk that is full, a perceiver that
\* raises what nobody named: the worker ends, and the exception is logged.
GiveUp(a) ==
  /\ ~At(a, "idle")
  /\ Disturbed
  /\ Stop(a)
  /\ UNCHANGED <<edit, proposalVars, todo, corpusVars, blobVars>>

(***************************************************************************)
(* The reconcilers.                                                        *)
(***************************************************************************)
\* A mutant of Accepted: a proposal that has a source is left alone.
AcceptedUnlisted == {p \in Proposals : rows[p] = "accepted" /\ listed[p] = Nothing}

Accepted == {p \in Proposals : rows[p] = "accepted"}

Sweep(s) ==
  /\ At(s, "idle") /\ todo[s] = {} /\ Accepted # {}
  /\ todo' = [todo EXCEPT ![s] = Accepted]
  /\ UNCHANGED <<edit, proposalVars, run, corpusVars, blobVars, faults>>

RunNext(s, p) ==
  /\ At(s, "idle") /\ p \in todo[s]
  /\ todo' = [todo EXCEPT ![s] = @ \ {p}]
  /\ run' = [run EXCEPT ![s] = [at |-> "fetching", of |-> p, bytes |-> Nothing]]
  /\ UNCHANGED <<edit, proposalVars, corpusVars, blobVars, faults>>

(***************************************************************************)
(* The tables and the files.                                               *)
(***************************************************************************)
ProposalRow(p) ==
  /\ rows[p] # status[p]
  /\ rows' = [rows EXCEPT ![p] = status[p]]
  /\ UNCHANGED <<edit, status, run, todo, corpusVars, blobVars, faults>>

MediaRow(p) ==
  /\ listed[p] # medium[p]
  /\ listed' = [listed EXCEPT ![p] = medium[p]]
  /\ UNCHANGED <<edit, proposalVars, run, todo, medium, blobVars, faults>>

\* The corpus table is emptied, to be filled from the log again.
Rebuild ==
  /\ Disturbed
  /\ listed' = [p \in Proposals |-> Nothing]
  /\ UNCHANGED <<edit, proposalVars, run, todo, medium, blobVars>>

\* A store under way: its bytes are on disk and no row names them yet.
InFlight(d) ==
  \/ \E a \in Actors : At(a, "claiming") /\ run[a].bytes = d
  \/ \E p \in Proposals : Names(medium[p], d) /\ ~Names(listed[p], d)

\* A day goes by, in which every store that is under way ends: what the
\* grace period of the cleaner takes for granted.
Age(d) ==
  /\ blob[d] = "young" /\ ~InFlight(d)
  /\ blob' = [blob EXCEPT ![d] = "old"]
  /\ UNCHANGED <<edit, proposalVars, run, todo, corpusVars, doomed, adopted, faults>>

\* A mutant of Orphans: no grace period.
OrphansOfAnyAge ==
  {d \in Digests : blob[d] # "absent" /\ \A p \in Proposals : ~Names(listed[p], d)}

\* Old files no row names; the row of a dropped source names its file.
Orphans ==
  {d \in Digests : blob[d] = "old" /\ \A p \in Proposals : ~Names(listed[p], d)}

\* Contents whose record has no row, which a rebuild brings about.
Hidden == {d \in Digests : \E p \in Proposals : Names(medium[p], d) /\ listed[p] = Nothing}

Plan ==
  /\ doomed = {} /\ Orphans # {}
  /\ doomed' = Orphans
  /\ adopted' = adopted \union (Orphans \intersect Hidden)
  /\ UNCHANGED <<edit, proposalVars, run, todo, corpusVars, blob, faults>>

Unlink(d) ==
  /\ d \in doomed
  /\ doomed' = doomed \ {d}
  /\ blob' = [blob EXCEPT ![d] = "absent"]
  /\ UNCHANGED <<edit, proposalVars, run, todo, corpusVars, adopted, faults>>

\* The process dies: its tasks are gone, the cleaner is another program.
Crash ==
  /\ Disturbed
  /\ run' = [a \in Actors |-> Idle]
  /\ todo' = [s \in Sweepers |-> {}]
  /\ edit' = [e \in Editors |-> NoEdit]
  /\ UNCHANGED <<proposalVars, corpusVars, blobVars>>

(***************************************************************************)
(* The specification.                                                      *)
(***************************************************************************)
Work(a) == Fetch(a) \/ Claim(a) \/ Resolve(a) \/ Keep(a) \/ RecordStored(a) \/ Fail(a)

People(p) == Propose(p) \/ Accept(p) \/ Reject(p) \/ Drop(p)

Edits(e) == StoreAgain(e) \/ Refused(e) \/ \E p \in Proposals : Reread(e, p)

Next ==
  \/ \E p \in Proposals : People(p) \/ ProposalRow(p) \/ MediaRow(p)
  \/ \E a \in Actors : Work(a) \/ GiveUp(a)
  \/ \E s \in Sweepers : Sweep(s) \/ \E p \in Proposals : RunNext(s, p)
  \/ \E e \in Editors : Edits(e)
  \/ \E d \in Digests : Age(d) \/ Unlink(d)
  \/ Plan \/ Rebuild \/ Crash

Spec == Init /\ [][Next]_vars

\* Tasks run, tables follow, and the timer sweeps for ever.
Fairness ==
  /\ \A a \in Actors : WF_vars(Work(a))
  /\ \A s \in Sweepers : WF_vars(Sweep(s)) /\ \A p \in Proposals : WF_vars(RunNext(s, p))
  /\ \A p \in Proposals : WF_vars(ProposalRow(p)) /\ WF_vars(MediaRow(p))

FairSpec == Spec /\ Fairness

(***************************************************************************)
(* Properties.                                                             *)
(***************************************************************************)
Rank == [s \in Status |-> CASE s = "none" -> 0 [] s = "proposed" -> 1 [] s = "accepted" -> 2
                            [] OTHER -> 3]

Asked == {"accepted", "stored", "failed"}

\* A stored proposal has a source, nobody stores what was not accepted, and a
\* decision once closed stays: the table is behind its stream and never beside it.
Lifecycle ==
  \A p \in Proposals :
    /\ status[p] = "stored" => medium[p] # Nothing
    /\ medium[p] # Nothing \/ rows[p] = "accepted" => status[p] \in Asked
    /\ rows[p] # status[p] => Rank[rows[p]] < Rank[status[p]]
    /\ listed[p] # Nothing => medium[p] # Nothing

\* A worker runs only for what a person accepted, and has bytes once it stored
\* some; an editor has read a source that is there.
WorkIsAsked ==
  /\ \A s \in Sweepers : \A p \in todo[s] : status[p] \in Asked
  /\ \A a \in Actors :
       /\ At(a, "idle") <=> run[a].of = Nothing
       /\ run[a].of # Nothing => status[run[a].of] \in Asked
       /\ At(a, "claiming") \/ At(a, "keeping") <=> run[a].bytes # Nothing
       /\ At(a, "keeping") \/ At(a, "recording") => medium[run[a].of] # Nothing
  /\ \A e \in Editors : edit[e] # NoEdit => medium[edit[e].of] # Nothing

MediaInv == TypeOK /\ Lifecycle /\ WorkIsAsked

\* A source of the corpus, dropped or not, has its bytes: the order of the two
\* writes, the grace period and the row a drop leaves keep the cleaner away from
\* them (corpus_writer.py:122, blob_sweep.py:10).  Left out are the contents the
\* code itself exposes, each a loss of the README's list: a store that adopts an
\* old orphan, a rebuild that hides a record from the cleaner, and an editor
\* whose record was superseded, and its file orphaned, between its read of the
\* row and its save.
RecordsHaveBytes ==
  \A p \in Proposals :
    medium[p] # Nothing /\ medium[p].bytes \notin adopted => blob[medium[p].bytes] # "absent"

\* An accepted proposal is stored or fails, however often its worker is lost;
\* only a content whose reading is too long may keep it where it is.
AcceptedIsSettled ==
  \A p \in Proposals :
    status[p] = "accepted" ~>
      Settled(p) \/ (medium[p] # Nothing /\ medium[p].bytes \in TooLong)
=============================================================================
