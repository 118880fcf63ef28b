# Verification of research-team

research-team is a single asyncio process (a web service, or a REPL) in which people and language-model
agents research topics together. Everything durable is an event-sourced aggregate in one store; everything
else — who is running, what is queued, what was granted — lives in dictionaries of objects that many
coroutines share. There are no locks around most of it. What keeps it correct is the version check made when
an aggregate is saved, the fact that a coroutine is only interrupted at an `await`, and care.

This directory models the parts where that care is most needed. Each module has one action for each stretch
of code between two awaits, so that TLC explores every interleaving the event loop could produce; TLAPS then
proves the main safety properties for any number of sessions, turns, calls, topics and runs.

Contents: [inventory](#inventory) · [modules](#modules) · [runs](#runs) · [bounds](#bounds) ·
[fairness and deadlock](#fairness-and-deadlock) · [proofs](#proofs) · [findings](#findings) ·
[not modelled](#not-modelled) · [plan](#plan).

Run `tlc -config <cfg> <module>` for a run of the table below, `tlapm <module>` for a proof module.
`PROJECT.json` maps every modelled definition to the source lines it stands for, names for each property the
change to the model that breaks it, and lists the hazards with the properties that watch each.
Paths below are relative to `research_team/`.

## Inventory

| component | state it keeps | operations | interacts with | what is hard | what makes it correct |
|---|---|---|---|---|---|
| **Project lineage** `tenancy/domain/project.py`, `tenancy/application/project_binding.py` | the project aggregate: status, members, the session that holds it, the tip (whose stream carries the files, how far) | create, join, release, archive, unarchive, delete, edit | reads and forks session streams; called by web routes, the REPL, research runs, dispatch, seeding, authoring | a join is a load, a read of the tip's stream, two saves and a fork: five awaits, two aggregates, no transaction | one holder; no gap in the chain of inherited files; nothing the project took custody of is lost |
| **Session turns** `session/application/turn_runner.py`, `turn_supervisor.py`, `platform/shared/retry.py` | the session's stream; the supervisor's register of running tasks | run, cancel, time out, disconnect; load, execute, save, rebase, retry, mark as failed | model client, event store, every component that runs a turn | minutes between load and save; cancellation at any await; other processes on the same stream | a turn lands whole, once, or not at all; its caller is told which; no two replies to one message |
| **Fetch grants and approvals gate** `tenancy/application/grants.py`, `infrastructure/agent/approval.py`, `fetch.py`, `deep_agent.py`, `session/application/autonomy.py` | a grant's remaining units and claims; the live autonomy level | gate (twice per message), reserve, covers, spend, release, resume with decisions, set level | the agent loop; approvals broker; research runs install the grant | concurrent tool calls, a gate evaluated again on resume, a level that changes meanwhile | unattended reads within budget; every unit accounted for; a rejected call does not run |
| **Research runs** `research/domain/run.py`, `research/application/research_run.py`, `research_supervisor.py` | the run aggregate; the supervisor's task, cancel flags; the session's grant | start, cancel, round (turn, look, settle, record), stop | topics' attention queue, turns, grant registry, topic projection | reads tables that lag the log; any store call may raise; crash with a round in flight | budgets; a stop reason with evidence; the grant goes with the run; every run ends |
| **Topics and attention** `research/domain/topic_decider.py`, `research/application/topic_attention.py`, `infrastructure/persistence/topics.py` | topic aggregates; the topic and corpus tables | open, record, investigate, set status; compute the queue | research runs, tools, dispatch | the queue is computed from a lagging copy | the queue's reasons are true of the topic |
| **Topic dispatch** `interfaces/web/dispatch.py`, `research/application/topic_dispatch.py` | per project: pending deque, draining mark, running frame, task | start, cancel, drain | joins and releases the project, runs a turn | presses and cancels around a drain that is leaving | a press nobody cancelled is served; the project is released |
| **Course authoring** `interfaces/web/authoring.py`, `curriculum/application/course_authoring.py`, `curriculum/domain/authoring_run.py` | the run aggregate; frames, tasks, cancel marks | start, drive, cancel, last | turns, run table | check, await, register; appends that fail in the driver; restart | the status a run settles with is what its targets came to; a cancel stops it; runs settle |
| **Project graphs and attachment** `knowledge/application/project_graphs.py`, `knowledge_attachment.py` | open stores, locks, the vector latch; the one attachment of the process | open, close, close all; attach, detach | every turn, ingestion, agent tools | an open that fails or is cancelled half-way, readers across a close | one live store for a project; no closed store cached; every open ends |
| **Socratic dialogues** `dialogue/application/socratic.py` | a stream, two tables that follow it, an expiring registry | begin, respond, attempt, end | model, read models | eviction, resume from a lagging table, readers that leave, a projection that saves row, count and checkpoint apart | the model is asked with the turns that were said; the slot comes free |
| **Media** `research/application/media_acquisition.py`, `perception.py`, `infrastructure/persistence/blob_store.py`, `blob_sweep.py` | proposals, the corpus record, files by digest, tables | accept, reject, work, sweep, drop, restore, clean | corpus, file store, workers | a worker lost between two steps; a cleaner that reads a table and ages | a record's bytes stay; an accepted proposal is settled |
| **Approvals broker** `interfaces/web/approvals.py`, `frontend/src/presentation/shell/use-approval-feed.ts` | pending futures for each session; the cards of each browser tab | decide, resolve, cancel, time out | gate, live feed, browser tabs | timer against answer, two tabs, frames lost | one decision counts and is obeyed; tabs show what is parked |
| **Projections** `infrastructure/persistence/store_base.py`, `session_read_models.py` | table, checkpoint, filed failures, the runner's fields | apply, file, checkpoint, rebuild, restart | event store, every reader of a table | rebuild: its awaits over shared fields, each of which may raise; crash between row and checkpoint | one subscription; drift is filed; the table follows the log |
| Extraction queue `interfaces/web/extraction_queue.py` | as topic dispatch, per document | start, cancel, drain | knowledge ingestion, perception | as above | each document at most once in the queue |
| Topic seeding `research/application/topic_seeding.py` | one task for each project | start | project, turns | competes for the project | releases the project |
| Ask conversations `dialogue/application/ask.py` | an expiring registry over streams | ask, resume | model | as Socratic, without the read-through | as Socratic |
| Everything else | see [not modelled](#not-modelled) | | | | |

The interactions that matter most: **research runs, dispatch, seeding, authoring and people compete for a
project** (lineage) and then **run turns on a session** (turns) **with the tools of an attached graph**
(attachment), whose **fetch calls pass the gate** (grants) and **wait for a person** (approvals); a run's rounds
**choose topics from tables** (attention) that **follow the log** (projections) the turns write to.

## Modules

Twelve component modules (one of them, TopicAttention, a library of functions), two abstract specifications, eight
proof modules. DispatchQueue is composed with ProjectLease, ResearchRun with TopicAttention, and
KnowledgeAttachment with ProjectGraphs. Python's `None` is a model value.
One label of `pc` is one await; an action reads and writes what the code does from that await to the next.

### ProjectLineage (implements ProjectLease)

| in the module | in the code |
|---|---|
| `project` | the stored `ProjectState`, its version, and `project.members` the memberships with `inherited_at` |
| `stream[s]` | session `s`'s stream: a sequence of appends, each the set of file events in it; the first is what the fork copied |
| `snap[c]`, `sess[c]`, `at[c]` | the locals of one call of `start_session_in_project` / `release_session_project` / a lifecycle command by client `c`: the loaded aggregate, the session, the offset read |
| `BeginJoin`, `DecideJoin`/`RefuseJoin`, `ForkFiles`, `SaveJoin` | load; read of the tip's stream (catch-up) and the decision; save of the new session with the forked files; save of the project |
| `BeginRelease`, `LoadHeld`, `NothingToRelease`, `SaveRelease` | the release: the session's version first, then the project, then the save |
| `BeginLifecycle`, `SaveLifecycle`, `RefuseLifecycle` | archive, unarchive, delete, edit |
| `LoseSave`, `Crash` | the version check failing; the caller dying at any await |
| `SessionSave` | a turn appending files to a session's stream, whoever holds the project |

`ProjectLease` is what other components may rely on: a project is created, acquired by a session that never
held it before, given back, and retired only while free. The refinement maps the holder, the status and the
order of members; the files are what the detailed module adds.

### SessionTurns (implements TurnLedger)

| in the module | in the code |
|---|---|
| `log` | the session's stream, one entry for each save: a turn, a failure marker, an autonomy change, a file write |
| `pc`, `base`, `seen`, `tries`, `stop`, `bare` | the coroutine of `run_turn`: its await, the version it was loaded at and the version it will save at, `with_retry`'s count, whether a cancellation is pending, and whether its marker is now awaited without the shield |
| `call`, `running` | `TurnSupervisor.run` for each caller, and `_running[session_id]` |
| `target`, `settled` | `TurnSupervisor.cancel` for each canceller, and the turns it reported as settled after a wait it was let finish |
| `Admit`/`Register` | the two sides of the await between the check of the register and the registration |
| `Load` … `Return`, `LoseSave`, `Recheck`, `Reload`, `RefuseRebase` | `attempt()` under `with_retry`, and `refuse_unrebasable` |
| `FailLoad`, `FailSave`, `LoseMarker`, `FailReturn` | the shielded failure marker |
| `Interrupt` | a `CancelledError` delivered at whichever await the turn is at |
| `TimeOut`, `Disconnect`, `Cancel…` | the supervisor's time-out, a caller that goes away, a cancel that settles, is cancelled itself while it waits (`CancelIsCut`) or gives up waiting |
| `StartElsewhere`, `Die`, `WriteBeside` | a turn of another process, a process that dies, other writers of the stream |

`TurnLedger` says that the log decides each turn once: recorded, marked as failed, or void.

### FetchGrant

`remaining` and `reserved` are the grant's fields; `batch`, `asks` and `decision` one message of the agent
loop: the gate's first walk (`Gate`), the approvals posed and answered one at a time (`Pose`, `Answer`), the
second walk (`Resume`), where decisions are paired in order with whatever interrupts then. `Send`, `Receive`,
`ReceiveError`, `Finish`, `Raise` and `AnswerLocally` are the awaits of one `fetch` call, several of which run
concurrently; `Unwind` and `Collect` are the gather around them. `SetLevel` is a person changing the live
autonomy level at any moment. `CutAtGate` and `CutTools` end the turn from outside, by a cancel or its timeout, while
its message waits for a decision or its calls run. `stranded` is history: the calls whose turn ended before their
coroutine began, at the gate (`CutAtGate`), between the gate and the tool (`NeverStarts`), or because the decisions no
longer paired with what interrupted (`Mismatch`). A URL is abstracted to whether it is in the grant's scope, and an amended call
may move in or out of it.

### TopicAttention and ResearchRun

`TopicAttention` holds the fold of a topic (`Opened`, `FindingRecorded`, `Investigated`, …), the triggers
(`Raised`) and the order of the queue (`Heads`), all as functions of a record, so that `ResearchRun` can apply
them both to the topics and to the lagging copy of them.

| in the module | in the code |
|---|---|
| `topic`, `corpus`; `view`; `pending` | the streams; the tables a reader sees; the facts appended that the projection's position has not passed |
| `CatchUp`, `ApplyOnly`, `DeadLetter` | one fact applied and passed; applied, and to be handled once more as its checkpoint was not saved; filed and passed over |
| `owed`, `ahead` | whether the store's newest event is one the topic projection is not given; how many facts `caught_up` still waits for: it compares positions, not rows |
| `drifted` | history: the topics a look of which was filed, not applied |
| `log[r]` | the fold of run `r`'s stream (`ResearchRunState`) |
| `pc`, `reason`, `round` | `ResearchRunDriver.run` and `_round`: the await it is at, and its locals |
| `cur`, `cancelled`, `grant` | `ResearchSupervisor._tasks` / `_cancelled`, and the session's entry in `GrantRegistry` |
| `asked`, `late` | history variables: who was asked to stop, and how many rounds began after |
| `Check`, `PickTopic`/`FindNothing`, `SaveBegun`, `TurnEnds`, `ReadHighWater`, `RecordLook`/`LookFails`, `ReadTarget`, `Settle`/`SettleTimesOut`, `SaveRound` | one round, in the order of the code |
| `CountOutstanding`, `SaveStop`, `Finish` | the stop |
| `Raises`, `Unwind` | an exception at any of the driver's awaits, and the `finally` that takes the grant away |
| `Crash`, `Cancel`, `WriteTopics`, `StoreSource`, `AppendElsewhere` | what moves beside the driver |

Abstractions, all towards fewer details and none towards fewer interleavings: a topic's standing triggers are
told apart by how they rank; acknowledgements, superseded sources and whether new material is linked already
are left out; of the facts only a look is handled twice, as the rows show no other fact's second time;
`looks` saturates at the number the thrash trigger compares it with. `caught_up` also returns at once when the runner has
no manager (`store_base.py:401`): never here, as nothing calls this runner's `rebuild`, and it is stopped after all runs.

### DispatchQueue (over ProjectLease)

| in the module | in the code |
|---|---|
| `queue`, `shown`, `draining`, `task` | `TopicDispatchActivity._pending`, the last frame announced of each press, `_draining`, the await of the newest task in `_tasks` |
| `stop` | a `CancelledError` on its way to that task: it is delivered at the await the task is at when it runs next, and between the two a press may land |
| `turn[p]` | the supervisor's task for the turn, which is shielded: it goes on when the drain does not |
| `status`, `holder`, `custody`, `moved` | the project as ProjectLease has it; `moved` is what the version check of a save compares |
| `Press`, `Cancel`, `Begin`, `NeverBegins`, `Advance` | `start`, `cancel`, the drain's loop with its `finally`, and a task cancelled before its first step |
| `Resolve`, `LoadProject`, `CreateSession`, `SaveJoin`, `FailToJoin`, `Attach`, `StartTurn`, `TurnEnds`, `TimeOut`, `Answered` | `TopicDispatcher.dispatch` from the topic to the turn's answer |
| `LoadHeld`, `NothingToRelease`, `SaveRelease`, `FailToRelease`, `Reread`, `Stop…` | its `finally`, and a cancellation at each of its awaits |
| `Elsewhere` | any step of ProjectLease by other sessions, and a release of the dispatch's session from outside |

The actions of ProjectLease are used as they are, by INSTANCE: what holds here holds for any project that
implements the lease, as ProjectLineage does.

### AuthoringRun

`log[r]` is the fold of a run's stream, `pc[r]` the await of `start` and then of its driver, `work[r]` that of the
task of its target (join, a turn for each phase, the checkpoint, one more attempt, release), `frame`, `tasks`,
`inflight` and `mark` the four registers of `AuthoringActivity`, which all runs of a project share. `Start`,
`Register`, `FailStart`; `CancelRun`, `NextTarget`, `RecordOutcome`, `RecordCheckpoint`, `Settle`, `FailAppend`, `Return`;
`Join`, `PhaseTurnEnds`, `Raise`, `Pass`, `Refuse`, `Release`, `Interrupt`; `OverviewTurnEnds`, the one turn of the last
target of a path run, which is the path itself (`curriculum.py:231`); and `Crash`, after which the registers are empty
and a run that had not settled stays running on the log. `asked`, `shared` and `broken` are history: who was
cancelled, who had a second driver beside it, whose append failed.

### ProjectGraphs and KnowledgeAttachment

| in the module | in the code |
|---|---|
| `store`, `chunks`, `cards`, `lock` | `_stores`, `_chunk_stores` (with co-mentions and card vectors), `_card_stores`, `_locks`, by project |
| `vlock`, `vectors`, `ready` | `_vector_lock`, `_vector_store`, `_vector_ready`; `pools` and `drained` number the pools opened and closed |
| `EnterVectors` … `FailVectors` | `vectors()`: the latch looked at before and under the lock |
| `Enter`, `Fold`, `IndexCards`, `FailBuild`, `CancelOpen` | `open`: found or built under the project's lock; an exception closes what was built, a cancellation does not |
| `Close`, `CloseNext`, `Closed`, `BeginCloseAll`, `TakeVectors`, `ClosedVectors` | `close` and `close_all` |
| `attached`, `over` | `attached_project_id`, and which build the executor's tools are over |
| `BeginTurn`, `Skip`, `GoRetired`, `AskToOpen`, `Attach`, `GoWithout` | `ensure_session_project_attached` of a browser's turn, `open_graph` and attach of a background run |
| `Invoke`, `EndTurn` | `_invoke`, which reads the tools a load or two later, whoever attached them meanwhile |

A store is the number of its build: what one open builds is closed together, but enters its three caches at
different moments.

### SocraticDialogue

The stream (`log`), the registry's entry (`cache`, which `Evict` may take at any time) and the slot of one dialogue;
`TurnsIn` reads the turns of a stream or of a prefix of it. The tables are the dialogue's `row` with its `count`
(`turn_count`) and the turns' rows by position (`stored`); the projection is at the event after its checkpoint (`seen`),
which it has yet to handle, has saved the turn of, or has handled (`handling`). `StoreTurn` saves the turn at the position
that the row counts, `CountTurn` the row, `SaveCheckpoint` the checkpoint, each on its own; `StartRow` and `HandleNote` are
the other handlers, `DropTurn` is a turn that finds no row, `FileEvent` an event that no retry gets through, before or
between the two saves (`MaxLapses` times). `Respond`, `ReadRow`, `ReadTurns`, `Ask`, `ModelAnswers`, `LoadReply`, `SaveReply`,
`LoseReply`, `Remember`, `Finish` are the awaits of one reply; `Abandon` is a reader who leaves; attempts at components
(`BeginAttempt` … `Score`) and the wish to end (`BeginEnd` … `Forget`) write to the same stream without the slot;
`Restart` takes the entry, the slot and everybody who is at work, and leaves the stream and the tables; an event that was
handled past the checkpoint is handled again. `stale`, `excused`, `twice` and `missed` are history: whether a reader left a
turn out of the entry, who was asked with other turns than the stream had, which turns a restart between handling and
checkpoint may have given a second row, and which were filed or dropped. `PositionsAgree` is about the position of the row:
it says where it is the number the answer carried, and claims nothing behind a turn of `twice` or `missed`.

### MediaAcquisition

`status` is the proposal on its stream and `rows` in its table; `run[a]` is a worker, of an accept or of a sweep;
`medium` and `listed` are the record in the corpus and in its table; `blob[d]` is the file of a content (absent, young,
old); `doomed` is what the cleaner has planned to remove. `Fetch`, `Claim`, `Resolve`, `Keep`, `RecordStored`, `Fail`, `GiveUp` are
the worker's steps, `Sweep` and `RunNext` the reconciler's, `Plan` and `Unlink` those of the cleaner, which is a program
of its own. `edit[e]` is a person's request that restores a source or revises it: `Reread` takes the row, `StoreAgain`
saves what was read some awaits later, `Refused` is the request that is turned away or loses its version. `adopted`
remembers the contents the cleaner may take though somebody needs them: those that a `put` found old on disk, those a
rebuild of the table hides, and those an editor restored after row and record had moved on from them
(`RestoredOrphan`). `Disturbed` bounds what is rare: raises, deaths, rebuilds and edits share one budget in the run.

### ApprovalDesk

`gate`, `future`, `timer`, `outcome` are one wait of a turn (`WebApprovals.decide`), `taken` the tabs whose POST was told
that its answer counts; `link`, `frames`, `cards`, `deciding` are a browser tab: its connection, what was announced to it
and not read, the cards it shows, the answer it has under way. `Gate`, `Ring`, `CancelTurn`, `CancelSession`, `Wake` are the
server's, `Open`, `Listen`, `Read`, `Decide`, `Resolve`, `Unresolved`, `Disconnect` the tab's, `Crash` both's.

### ProjectionRunner

`events` is the log of the store, `table` the session list (a count of failed turns beside a column that is only
overwritten), `Derived` the row that a log says a session should have, by counting, not by applying. `checkpoint` and
`filed` are the subscription's two tables, `follower[f]` is a subscription with its position and its connection, `runner`
the fields that every rebuild of a table reads and writes. `Apply`, `File`, `Checkpoint` serve one event; `Rebuild`, `List`,
`Resolve`, `Truncate`, `Reset`, `Close`, `Check`, `Open`, `Follow` are `rebuild` and `start`, one await each, `Resolve` once for
each failure of `left[r]`; `Raise` ends a rebuild at any of these awaits and undoes nothing of it. `dirty` remembers the
rows that may be wrong with nothing filed: those a crash between a row and its checkpoint left to be counted twice, those
whose failure a rebuild has resolved, and all of them between the emptied table and the dropped checkpoint. `broken`
remembers that a rebuild raised and none has gone through since. `RebuildsApart` says that no two rebuilds overlap: of a
run with one rebuilder it is true, in the code nothing sees to it.

## Runs

Passing runs check everything in the right-hand column; the run marked ✗ is expected to find its one property
violated (see [findings](#findings)).

| run | configuration | what it asks |
|---|---|---|
| `project_lineage` | MCProjectLineage | Two concurrent clients, three sessions: `InheritsUpToRecordedPoint` (the chain of files has no gap), `TipOnlyAdvances`, `SecuredWorkIsKept` (files the project took custody of are never lost again and stay readable), `ImplementsLease` |
| `session_turns` | MCSessionTurns | Two turns, of this process or another, a canceller, time-outs, disconnects, an autonomy change or a file write: `OneEntryPerTurn`, `AnswersMatchTheLog`, `NoInterleaving` (a turn is saved over nothing it did not read), `ImplementsLedger`, and under fairness `SlotComesFree` |
| `fetch_grant` | MCFetchGrant | Three calls, a budget of one, two changes of level, cuts at the gate, one turn cut or failed while its calls run: `UnattendedWithinBudget`, `ChargesAreJust`, `ClaimsAreLive`, `ReplayAgrees`, `DecisionsAreObeyed` |
| `research_run` | MCResearchRun | Two runs, two topics, tables that lag, repeat or miss a fact, writers beside the driver, cancel, failures, crash: `BudgetRespected`, `StopsAreJust`, `CancelIsPrompt`, `ReasonsAreCurrent`, and under fairness `RunEnds` |
| `dispatch_queue` | MCDispatchQueue | Presses, cancels at any await of the drain, turns that fail or time out, others who take the project: `HeldOnlyByTheLiving` (no exit but a cut-short release leaves the project held), and under fairness `AttendedPressIsServed` |
| `authoring_run` | MCAuthoringRun | Two runs of one project that may overlap, one of them of the whole path: `AuthoringInv` (driver, target and registers agree), `StatusIsEarned` (of an area's course also that its phases were evaluated), `CancelIsObeyed`, and under fairness `RunsSettle` |
| `knowledge_attachment` | MCKnowledgeAttachment | A browser's turn, a background run and a closer over two projects: `AttachmentInv` (who holds a lock is under it, what is cached as a graph or as cards is open), `OneLiveStore`, and under fairness `OpensEnd` |
| `socratic_dialogue` | MCSocraticDialogue | Replies, an attempt and an end, evictions, readers who leave, and a projection that saves row, count and checkpoint apart, with a filed event and a restart between any two: `DialogueInv` (rows, cache, histories and stream agree), `PositionsAgree` (the number of an answer is its row's position), `AttemptsAreObserved`, and under fairness `NextReplyIsLetIn` |
| `media_acquisition` | MCMediaAcquisition | A worker and a sweep, people at the source, the cleaner, and one disturbance (an edit, a rebuild, a raise or a crash): `RecordsHaveBytes`, and under fairness `AcceptedIsSettled` |
| `approval_desk` | MCApprovalDesk | Two tabs that connect late, lose frames and answer what they still show; a timer, cancels, a restart: `DeskInv` (a tab that has read its frames shows what is parked), `AnswersAreObeyed`, and under fairness `WaitsAreBounded` |
| `projection_runner` | MCProjectionRunner | One subscription, an event that fails for good, two rebuilds one after the other, two faults (a rebuild that raises, a restart): `RunnerInv` (one subscription follows), `DriftIsFiled`, and under fairness `LogIsFollowed` |
| `projection_rebuild` ✗ | MCProjectionRunnerTwo | `RebuildIsSafe`: is the table what the log derives when two rebuilds overlap? |

The type invariants and several properties that TLC found to hold are proved and not run again: `LineageInv`,
`HolderExists`, `TipInStream`, `TurnsInv`, `SettledIsFinal`, `GrantInv`, `RunInv`, `GrantsEnd`, `QueueInv`, `MediaInv`.

Some properties are conditioned, and each condition is the boundary of something the code does not do:
`NoInterleaving` holds of a log without an autonomy change, `ReplayAgrees` and `DecisionsAreObeyed` while nobody
changes the level and no turn ends with its calls running, and `ClaimsAreLive` leaves out the calls whose turn ended
before they began, which FetchGrant counts as `stranded`, and `ReasonsAreCurrent` the topics a look of which was filed
and passed over (see the smaller divergences).
`HeldOnlyByTheLiving` leaves out releases that were themselves cut short, `RunsSettle` runs of which an append
failed or that had a second driver, `PositionsAgree` replies asked from a table that was behind or after a reader
left between a save and the entry, `AcceptedIsSettled` contents too long to be read, `DriftIsFiled` the rows a
crash, or a rebuild that raised, left without a trace until the next rebuild, `LogIsFollowed` the time from a rebuild that
raised to the next one that goes through, or to a restart.

## Bounds

| module | bound | why it is enough |
|---|---|---|
| ProjectLineage | 3 sessions, 2 clients, `MaxAppends` 2, `MaxVersion` 6 | two clients are what a race needs; three sessions give a chain with a middle; an append before and one after a catch-up; six project events are a create, two joins with releases and a lifecycle command |
| SessionTurns | 2 turns, 1 canceller, `MaxAttempts` 2, `MaxBeside` 1 | a retry that succeeds and one that gives up need two attempts (the code has six; each later attempt repeats the second); one write beside is what makes a save lose or a rebase legal |
| FetchGrant | 3 calls in up to three messages, budget 1, 2 changes of level, 1 turn ended while its calls run, cuts at the gate without a bound of their own | one unit for three calls makes them compete in every order; a level must be able to change and change back between the two walks |
| ResearchRun | budget 2 rounds, 3 turns, 2 quiet, 1 failure; 2 runs; 2 topics, of which up to 1 is open at the start; 1 outside write; 1 lapse of the projection | a failed round, two quiet ones and two rounds of any kind each end a run, two limits can be reached in the same round, and a second run meets the stream and the flags the first one left; the write opens the second topic or changes the first; one look is handled twice, or filed |
| DispatchQueue | 2 presses, 2 cancels, 1 other session | a press behind a drain that is leaving, and one behind a drain cancelled twice; one other session is enough to take the project or to release it under the dispatch |
| AuthoringRun | 2 runs, one of a path of 1 area and its overview, 1 phase (2 attempts), 1 crash | two drivers share the registers; the overview after the area is where a cancel is looked at; one phase refused once and twice |
| KnowledgeAttachment | 2 projects; a browser, a run and a closer; 3 builds, 3 pools, 3 operations | a build while another is closed, and one after both; the third operation meets what two left |
| SocraticDialogue | 2 replies, 1 attempt, 1 end, 1 restart, 1 filed event | the second reply is asked with what the first left in the cache, the tables and the stream; a restart or a filed event at the first turn is enough to shift the position of the second, and both may fall on one turn |
| MediaAcquisition | 1 proposal, 2 contents (one too long), 1 sweep, 1 editor, 1 disturbance | the accept's task and a sweep's worker run together and may download different contents; a raise, a death, a rebuild and an edit each change what the others find |
| ApprovalDesk | 2 calls (1 unattended), 2 tabs, 1 drop, 1 crash | two tabs race for a call and one shows the other's; the drop loses frames between two connections |
| ProjectionRunner | 2 sessions, 1 rebuilder, 3 followers, 3 events, 1 lapse, 2 rebuilds, 2 faults | an old, a stopped and a new subscription; the second rebuild meets what the first filed, dropped or, raising, left half done, and a crash may come upon either. The ✗ run: 1 session, 2 rebuilders, 2 events, no fault |

Every bound is a guard of the action that counts; no state constraint is used. The attempts of a retry, the
rounds, turns and failures of a budget, the phases and the number of targets are parameters of the code; the
other numbers only bound the state space. Symmetry is used for the sessions and clients of ProjectLineage, whose
properties are safety properties that name no element; nowhere else.

## Fairness and deadlock

asyncio runs every task that is ready, and the store, the model client and the network either answer or raise;
so a coroutine of this process that is at an await is resumed. That is the weak fairness each liveness property
assumes of the component's own tasks, and of nothing else:

| property | assumed |
|---|---|
| `SlotComesFree` | each turn's own steps; nothing of callers, cancellers, other processes |
| `RunEnds` | the driver's steps; no cancel, nothing of people, and nothing of the projection: a wait that it does not end ends at its deadline |
| `AttendedPressIsServed` | the drain's steps, and that a turn ends (the supervisor has a time-out) |
| `RunsSettle` | the driver's steps and those of its target's task |
| `OpensEnd` | strong fairness of each caller's steps under the locks: asyncio's locks are first come, first served, so a caller is not passed over for ever by others who take the lock between its turns |
| `NextReplyIsLetIn` | the steps of a reply that has the slot |
| `AcceptedIsSettled` | the workers' steps, the sweeps of the timer (which go on for ever), and that the tables follow their log |
| `WaitsAreBounded` | the timer and the parked turn; that a tab which is open connects and reads; nobody must answer |
| `LogIsFollowed` | the subscription's and a rebuild's steps; neither crashes, lapses nor raises are fair |

Deadlock is checked in FetchGrant. The others say `CHECK_DEADLOCK FALSE` because the idle service with every
bound used up really stops: all clients idle, all turns answered, all runs over, nothing queued, parked or open.

## Proofs

What TLC finds on small instances, tlapm proves for every value of the constants, from the named assumptions
in each module (the bounds are naturals, `None` and its like are no element of the sets beside them). No step is
left unproved.

**ProjectLineageProofs.** `LineageInvariant`: `LineageInv` is inductive. `HolderExists`,
`InheritsUpToRecordedPoint` and `TipInStream` are not inductive by themselves, because a save commits a
decision made on an old snapshot. What is missing is what a snapshot is worth: `SnapshotsAreOld` (a snapshot
whose version is still current *is* the project, so a decision on it is a decision on the project),
`JoinersAreFresh` and `JoinersInherit` (a joiner's new session belongs to nobody else and starts with the files
of the offset it will record), `ReleasersReached`, and the shape of the chain itself (`ChainOfCustody`,
`JoinedAtTip`). The argument then has one step for each action; `StreamsGrow` (a stream is only ever extended,
so a prefix once inherited stays what it was) carries the parts about files over every step. From it follow
`TypeCorrect`, `HolderAlwaysExists`, `InheritanceIsExact`, the two action properties `TipAdvances` and
`SecuredWorkKept`, and `ProjectImplementsLease`, the refinement: a `SaveJoin` is an `Acquire`, a release a
`GiveBack`, and every other step a stutter or a lifecycle step of the lease.

**SessionTurnsProofs.** `TurnsInvariant`: `WrittenByPhase` says what a turn at each await can have written,
`SavedIsInTheLog` the converse, `CallsFollowTasks` ties what a caller was told to where its task is. Without
the first, `OneEntryPerTurn` would not survive a retry or a marker. From it: `TurnTypes`, `TurnsEnterOnce`,
`AnswersAreTrue`, `SettledStaysFinal` and the refinement `SessionImplementsLedger`. `TurnsAnswerInOrder` (`NoInterleaving`)
adds `Grounded`: between its load and its save a turn expects the version it loaded, and one that has lost a save finds an
entry it may not rebase over. `TurnsRunOut`: whoever has the slot is a turn at an await, and `ToGo`, the awaits before a
turn's end with three for each save it may still lose, falls with each step of its task and is raised by nobody.

The module then turns to ProjectionRunner. All its theorems assume `[]RebuildsApart`, of the whole behaviour and not of a
constant: any number of requests may rebuild, one after another, and the run `projection_rebuild` shows that the theorems
are false of two that overlap. `OneFollowsTheLog` (`RunnerInv`) rests on `PlacesHold` (whoever rebuilds or starts has the
runner to itself: nobody runs, and its two fields are empty or filled as far as its place says) and `FollowersHold`.
`DriftIsNeverSilent` (`DriftIsFiled`) needs `StartsAreFirst` (a session's first event is its start) for the lemma that what
the handler makes of a row derived so far is the row derived one event further (`DerivedStep`, a lemma about cardinalities),
and `RowFollows`: the row is derived up to the checkpoint, or one event further if that is applied, or if a crash forgot
that it was; an event that is no failed turn may be applied twice (`AppliedTwice`), and the failed turns are among what
`dirty` sets aside, with what a rebuild has resolved or emptied. `RebuildsApartAreSafe` proves the property that run finds violated, `RebuildIsSafe`, of every behaviour in which
rebuilds are apart and nothing fails (`NothingFails`): then an event that is due always finds its row (`DueWorks`), so that
nothing is filed: without an await that raises, overlap is all that is wrong with it. `LogIsServed` adds `IdleFollows`: a start that finds a
manager ends without a follower of its own, and none does, as the rebuild before it has dropped the manager; the awaits left of a rebuild count one for each failure
it listed, and only a rebuild that raises leaves nobody to follow.

**FetchGrantProofs.** `GrantInvariant`: `PaidFor` is the reason the budget holds although `covers` is read
after the response — a call let through by the grant keeps its claim until it has read, and while units remain
every such read was paid for. The cardinality arguments (a walk claims no more than the room there is; a
spend moves one element from `reserved` to `charged`) are lemmas of their own over arbitrary finite sets. From
it: `GrantTypes`, `BudgetHolds`, `ChargesHold`. `ClaimsInv` (a claim is held by a live call at a granted host, or by one
that never began) gives `ClaimsStayLive`. `SteadyInv` is what the first walk leaves for the second: those that interrupted are those
without a claim, and whoever wanted one and has none finds no room; while no turn ends with its calls running, nothing gives room back before
the second walk. Ranks tell the members of a set apart (`PairedIsOwn`), so equal walks pair each decision with its own
call. From it: `WalksAgree`, `DecisionsObeyed`.

**ResearchRunProofs.** `Safety`: `RunInv` says what the driver knows at each await: a run that is driven has an
open stream and the grant (`UnderWay`), what is in flight is the round in hand (`InHand`), a round is begun only
below every limit (`BudgetLeft`), the reason settled on stays the one the counters give (`StopIsEarned`).
`BudgetRespected` and `StopsAreJust` speak of all runs' streams and follow because a step changes only the
current run's. From it: `Types`, `Knows`, `Budget`, `Stops`, `Grants`, `Prompt`. `Reasoned` (`ReasonsAreCurrent`) needs
`ViewInv`, the account of the facts on their way to the tables: only the driver records looks, and after its own it goes on
only once none is on its way (`LooksPassed`); a topic with no look on its way shows its last one, unless one was filed
(`LooksArrive`), which a look that is handled twice does not change; and neither the tables nor what they are to be told is
ahead of the corpus (`CorpusBehind`). So what they raise as a reason is still one on the stream (`ReasonsStand`), whatever
else they lack. `Served` says of the queue what a total order of
the topics gives it (well-founded, as topics are finitely many): while topics wait there is one at the head and one only.
`RoundsRunOut` counts the rounds the budget leaves, and within a round the driver's awaits.

**DispatchQueueProofs.** What a step of the drain does to the queue is one of five things (`DrainMoves`: it
stays within one dispatch, goes on to the next, leaves with the one it was cancelled in, begins, or never begins);
`PressedInOrder` (presses are queued, and therefore run,
in the order they were made) makes `QueueInvariant` inductive. `OnlyTheLivingHold` needs `HeldInside`: a press that
holds the project is the running one, its task is past the save that joined, and its `finally` is still ahead.
`PressesAreReached` follows a press from the queue to its end: while it waits or runs there is a drain at work, and its place
in the queue, then the awaits of its dispatch, fall with each step of the drain and of the turn that it awaits.

The module then turns to AuthoringRun. `AuthoringInvariant` has one part for each of the run's three accounts, proved
separately: `StreamFollows` (at each await of the driver the outcomes on the stream are those of the targets before the one
in hand, and a run that left its loop unmarked has them all), `NotesAdd` (the evaluations an area's task has noted, with
those appended of them, are at least its phases once it ends well, and never more than two for each; `OverviewUnseen`: the
overview's task notes none, and the stream has none of it), and `SlotIsOwn` (a run
that was alone has the slot, the frame and the mark, and its mark is up exactly if it was told to stop). Overlap is
part of it: of any two runs that are driven at once, both are `shared`. From it: `AuthoringFollows`,
`StatusFollowsTheStream` and the action property `CancelledRunsStop`. What is left of a run is six numbers (the targets,
the driver's awaits at one, the stages of a target's task, its phases, whether it tries again, the notes to append), and
`RunsRunOut` proves that their lexical order is well-founded, that each step of the run's tasks goes down in it and that no
other step goes up. `UnsettledRunsAreDriven` is the other half: a run that is open has its driver, but for the broken and the
shared.

**MediaAcquisitionProofs.** `MediaInvariant` is the protocol of a proposal: nothing is worked on that nobody
accepted, and what is settled stays so. `BytesAreKept` rests on an argument about ages: a worker that has put its
bytes and not yet saved its record has a young file (`HeldIsYoung`), so has a record the table does not show yet
(`UnlistedIsYoung`), and a plan names only files that are old and that no row names (`DoomedIsNamedByNone`) — except the
`adopted`, where the code gives no such promise. An editor's save needs no more: the bytes it restores are young, or
record or row still names them, or they are `adopted` by the save itself.

**ApprovalDeskProofs.** `AnswersInvariant`: the tab that was told it counts is the one the future names
(`TakenIsTheAnswer`), what the turn went on with is the future's answer, the end of the turn or the restart
(`OutcomeIsTheAnswer`, `OutcomeOfATab`). From it: `OneAnswerIsObeyed` and `WaitsAreOver`. `DeskInvariant` (`DeskInv`) adds
what the tabs show. `AfterReading`, the cards of a tab that has read its frames, is stated without recursion — of each
call, the last frame about it decides — so that two lemmas carry it: a frame announced at the end changes it as it would
change the cards (`AnnouncedIsShown`), and reading the first frame does not change it (`ReadIsShown`).
`WaitsRunOut`: a parked call that no person need answer is due or has its timer asleep, and only an attended one that
nobody answers has neither.

The module then turns to SocraticDialogue. `DialogueInvariant` is made of five parts. `StreamIsOne`: a worker that has not
saved is not on the stream, and one that is saving read it open. `TurnsAreOne`: each reply has one turn at most, and the one
in the slot that has saved has the last. `HistoriesInOrder`: entry and histories are in the order of the turns, with no turn
twice but for those of `twice`, and none of a reply's history is itself. `EntryFollows`: an entry that no reader left behind is the turns, or the turns but the one that
is being told. `RowsFollow` holds between any two saves of the projection (`Follows`): the rows are of turns the table was
given or of the one that comes, every turn that was not missed is counted, and up to the first that was missed or given
twice the rows are the stream's turns in their places; `StoredFollows`, `CountedFollows`, `MissedFollows` and `AgainFollows`
carry it over the saves, the filing and the restart. What they rest on are lemmas about `TurnsIn`, which numbers the turns by cardinality: the turns of a prefix
are the first turns (`TurnsOfAPrefix`), and a save appends one or none. From it: `DialogueFollows`,
`AnswersKeepTheirPosition`, `ProgressIsObserved`. `RepliesRunOut`: the slot is held by one reply at work, and no worker goes
back over an await, as nobody tries a lost save again.

**KnowledgeAttachmentProofs.** `HomesInv` gives every store one home: a cache, or the hands of one caller that holds a
lock (`LocksHeld`, `HandsHoldOne`, `HomesApart`), with the three caches of a project in agreement (`CachesAgree`: a graph and
its cards enter and leave together, its passages may be there before and after it). `VectorsInv` is the same for the
vector store. `CachedIsOpen` (`AttachmentInv`) follows. For `NoSecondLiveStore` (`OneLiveStore`) one more part is inductive,
`Standing`: a store somebody has is the cached one, or closed, or being closed under the project's lock; and while
somebody holds that lock nothing is cached, so two live ones are one. `NoDeadlock` follows the waits instead of the stores:
nobody takes a second lock while holding one, so a caller that is waited for waits for nobody, and it is at most two awaits
from its release, which no other caller's step delays.

Every invariant and every action property that a passing run checks is stated by one of these theorems; the strengthening of
each was checked by TLC, on the run's constants, before it was proved.

**Only model-checked.** The liveness properties: fairness and ENABLED are beyond the proof system. Of each but one the
safety half is proved, for every value of the constants: who is waited for is at work, and a bounded measure of what is left
falls with each of its steps and is raised by nothing, or only by the steps the theorem names. What TLC alone shows is that
the steps are taken.

| liveness property | its safety half |
|---|---|
| `SlotComesFree` | `TurnsRunOut` |
| `RunEnds` | `Served`, `RoundsRunOut` |
| `AttendedPressIsServed` | `PressesAreReached` |
| `RunsSettle` | `RunsRunOut`, `UnsettledRunsAreDriven` |
| `OpensEnd` | `NoDeadlock` |
| `NextReplyIsLetIn` | `RepliesRunOut` |
| `WaitsAreBounded` | `WaitsRunOut` |
| `LogIsFollowed` | `LogIsServed`, as long as rebuilds are apart and but for one that raised |
| `AcceptedIsSettled` | none: what takes up a proposal whose worker was lost is the next sweep, and the timer sweeps for ever |

## Findings

**A rebuild during a rebuild** (`projection_rebuild`). The projection runner checks once that it has a manager and
a store, and then awaits six times over fields every other rebuild of the table writes. The second request closes
the store the first has just opened; the list and every later rebuild fail until a restart. The route's docstring
says a rebuild is safe to call at any time (quoted in `PROJECT.json`).

Smaller divergences between what the repository says and what the models do, met on the way and without a run:

- *Lineage.* A file the tip session saves between a joiner's catch-up read and its save is listed until that save
  and belongs to no stream of the project after it (`project_binding.py:172`, docstring at `:160`). An archived
  project's files still change: the tip session may go on saving (`project_lifecycle.py:74`).
- *Turns.* `attempt()` reads the stream twice, once to check what landed and once to rebuild the aggregate; what
  lands in between is accepted (`turn_runner.py:108`, `:174`). The supervisor awaits between the check of its register
  and the registration, so two turns of one session may run (`turn_supervisor.py:217`). A canceller that is itself cancelled
  while it waits answers "settled" of a turn that is still unwinding and may write its marker, and takes it off the register
  (`:308`), where the docstring says that "the log already records the attempt" (`:292`). A turn cancelled before its
  executor started leaves no failure marker.
- *Grants.* "Every successful claim must eventually be released" (`grants.py:263`), and only `fetch`'s own `finally` and
  `spend` release one. A turn that is cancelled or times out while its message waits at the gate
  (`deep_agent.py:407`, `turn_supervisor.py:247`, `:302`), or before a call it let through has begun, leaves the claims of
  the first walk in `_reserved`: no budget is overspent, but the run reads that many pages fewer unattended. A level lowered while a message waits for approval makes the resume fail before any tool runs, and the
  claim of the call beside it stays (`deep_agent.py:325`). A level raised between a rejection and the
  resume: the second walk interrupts nothing, and the rejected call runs (`approval.py:95`). With no change of level at
  all, a call of an earlier message that was left in flight when its turn failed may give its claim back between the two
  walks: the second finds room the first did not, fewer calls interrupt than were decided, the resume fails, and the claims
  of the message stay.
- *Research.* The thrash trigger fires on looks that were productive, as the look is recorded after the round's
  findings (`research_run.py:315`, `topic_attention.py:358`). The settle waits for the store's newest position on a
  subscription that moves only on its own events, and can then only time out (`service_wiring.py:196`). It compares
  positions: a look that was filed and passed over (`store_base.py:334`) counts as reached, and the run is handed back the
  topic it has just finished, which `research_run.py:368` says the wait prevents. The position a look is stamped with is
  read after the round, and from the table before the wait (`research_run.py:356`): what the turn itself stored may be
  behind it or not, and then comes back as new material. A look applied again after a lost checkpoint is counted twice
  (`topic_projection.py:150`), where the projection's docstring says a replay re-derives "the same values" (`:55`). `Budget`'s docstring speaks of rounds and turns
  as different limits, but a round always spends one turn. `in_flight_topic`, documented as "the process died
  mid-round", is also left set by an exception at a round's save. A failed round does not reset the quiet ones. One more
  round may begin after a cancel that lands while the queue is being evaluated.
- *Dispatch.* A drain cancelled before its first step leaves the project marked as draining, and later presses wait
  for nobody (`dispatch.py:296`, `:301`); a press that lands while a cancelled drain is unwinding is left behind. After a
  cancel of the drain the turn goes on in a project that was released. The extraction queue has the same drain
  (`extraction_queue.py:229`).
- *Authoring.* The evaluations of a target are lost when a turn raises anything but the checkpoint's exception; two
  starts that overlap give a project two drivers (`authoring.py:154`); a failed append leaves the run running (`:287`).
  The overview of a path is written after every area was tried, also if no area's course came off, though
  `curriculum.py:219-222` says that it is wrong where an area's course does not exist; nobody looks at its file, and it
  alone is enough for a run that says "done" (`authoring.py:290-294`), so `StatusIsEarned` claims evaluations of areas only.
- *Graphs.* A turn runs with the tools of whatever is attached when the executor reads them, which may be another
  project's (`deep_agent.py:263`, against `session_turn_routes.py:93`); a session in no project, or in an archived one,
  keeps what is attached. A cancelled build leaves its stores open; a schema that fails after the connect leaks the pool;
  an index that fails leaves the closed passages cached until the next open; a deleted project's closed store stays
  attached.
- *Socratic.* A reply to a dialogue that was concluded meanwhile still asks the model (`socratic.py:407`, `:431`). A
  cancellation during the save leaves a turn on the stream that the entry lacks, where a comment says nothing can
  suspend between record and delivery. The projection saves a turn at the `turn_count` it finds and then counts it, and
  its checkpoint is a third save, of another connection: a restart between the count and the checkpoint stores the turn a
  second time, at the next position, where the docstring of `SocraticTurnRow.row_id` says that "replaying one event twice
  rewrites a row rather than appending a second copy of the same turn" (`socratic_read_models.py:131-132`), and a reply
  that resumes from the table is asked with it twice. From then on, and after a turn that was filed and passed over
  (`store_base.py:334-345`) or dropped for want of a row, every position in the table is another than the one the answer
  carried, which `socratic_models.py:65-66` calls "the same number"; an attempt is then looked up at another turn
  (`interfaces/web/socratic.py:235-242`). Nothing but a rebuild would mend it, and nothing calls this runner's.
- *Media.* A reading that is too long, and a document nobody knows, are not among the failures that close a proposal,
  so every sweep downloads it again. `put` leaves the age of a file it finds alone, so a sweep between put and save may
  remove it (`blob_store.py:80`; the sweep's docstring says it "sidesteps the window"); so may one during a rebuild of the
  corpus table (`system.py:78`). An editor saves the record it read from the row: if a run stored other bytes meanwhile
  and the sweep planned the first as an orphan, the restored record points at a file that is gone, where
  `corpus_writer.py:138` says it "re-points at the bytes that are already there". A worker lost after its source was stored and then failing on the re-run records a
  failure while the source is there; a re-run restores a dropped source, and a revision of a dropped one undoes the drop.
  Two accepts at once, documented as costing nothing, save one aggregate without a retry.
- *Approvals.* `WebApprovals.cancel` has no caller. An answer accepted after the cancel of an unattended turn is told that
  it counts.
- *Projections.* A rebuild resolves the failures first, as "once it is gone they describe nothing" (`store_base.py:370`); one
  that raises or crashes before the reset leaves a drift with nothing filed, and one whose `reset_checkpoint` raises leaves
  the empty table under its old checkpoint that the docstring calls "a far worse state" (`:356`). Nothing starts the
  subscription it stopped: until another rebuild goes through the rows stand still, and after an await from the reset on
  has raised every other rebuild "has not been started" until the process is restarted. A crash between a row and its
  checkpoint counts a failed turn twice (`session_read_models.py:122`).

## Not modelled

- **Extraction queue**: its drain is topic dispatch's with one task for each document, and its hazards are the same; the
  admission check and the re-queue of a document are left. **Topic seeding**: one join, turn and release, a dispatch
  without a queue. **Ask conversations**: the Socratic reply without the read-through and the attempts.
- **Knowledge ingestion and consolidation, knowledge reads, perception's models**: adapters around external libraries
  and models; what they promise is not in this repository. In ProjectGraphs a fold or an index only succeeds or fails,
  and `open_graph`'s awaits after the open are left out.
- **Media**: curation and ignore lists, derived text, perceive jobs a person starts, the drops of transcripts.
- **Corpus text sources, session, tenant, learner and course aggregates**: small folds with single-append commands.
  Where one matters to a protocol (a session's stream, the corpus position, a medium's record) it appears in the module
  of that protocol.
- **Projections**: the reconciliation of schemas, the rows of other tables; the wait `caught_up` is modelled where a
  run depends on it (ResearchRun). Where another module needs a table it lags behind its stream by any amount; the in-memory bus delivers sooner than that.
- **Authorization, identity, settings, lesson components, rendering, presenters, wiring, the command line**: no
  protocol between concurrent actors.
- **The event store** is an external library. The modules rely on two promises of it: a save is atomic, and it
  is refused if the stream's version is not the expected one.
- **The browser client** is a separate program over the HTTP interface; only the approval feed's hook, which decides
  what a person sees to answer, is part of ApprovalDesk.

The abstractions of a module stand at its head. Those of TopicAttention and ResearchRun are above; in all of them a
detail is left out only towards more interleavings, never fewer.

## Plan

1. The extraction queue as a second instance of the drain of DispatchQueue, with its admission check.
2. The composition of ProjectLease and TurnLedger with a driver: the turn that goes on in a project that its
   dispatch has given back, from the two abstract specifications that the detailed modules implement.
3. Ask conversations, over the slot and the registry of SocraticDialogue.
4. With the extraction queue modelled, whether its drain, the topics' drain and the locks of the graphs can wait for one
   another: `NoDeadlock` is about the graphs alone.
