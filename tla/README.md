# AI-Linux-Assistant: TLA+ models

The program answers Linux questions in chats. Each question becomes a durable
*run*: a row of a Postgres table that an API process creates, that worker
processes claim and execute under a lease, and that users and operators cancel,
pause, resume, fail or requeue while it executes. A run is executed by a router,
which may let a council of three models (MAGI) deliberate, searches documents,
calls one of four model providers and updates the project's memory. The answer
streams to browsers over Redis and the database. Beside that stand the pipeline
that ingests the documents and an evaluation harness that breaks machines, lets
assistants repair them and has judges compare the repairs.

The specifications cover that from the run table to the text on the screen, the
ingestion, and the harness's jobs. They are about what is concurrent, resumable or
bounded, where the program makes promises that tests hardly reach: a question is
answered once, a worker that dies leaves nothing stuck, each piece of the answer is
shown once, a paused council goes on where it stood, what is indexed is the
document's own, a verified scenario has an image, a judges' winner was preferred.

Paths below are relative to `src/Back-end/app/` unless they start with `src/`;
*harness* paths are relative to `src/eval-harness/Back-end/`, *page* paths to
`src/Front-end/src/`.

## 1. Inventory

| Component | State it keeps | Operations | Talks to | What is hard | Correct means | Modelled |
|---|---|---|---|---|---|---|
| Run table (`persistence/postgres_run_store.py`, `postgres_models.py`) | `chat_runs` rows: status, worker id, lease, cancel flag, pause snapshot, sequence number; `chat_run_events`; the chat's messages | create, claim, heartbeat, append, request cancel/pause, cancel queued, mark paused/failed/cancelled, resume, requeue, complete | everybody | transactions of many processes; expired leases; unfenced verdicts of the control plane | one active run per chat, one delivery, status agrees with log, nothing stranded | partly: all transactions, no contents |
| Worker (`chat_run_worker.py`) | slots, one run each; heartbeat thread; text buffers; `ownership_lost_event` | claim loop, turn, except clauses, heartbeat and tick | run table, router, Redis | crash, stall past the lease, two threads per run, exceptions in except clauses | a superseded slot writes nothing; every run settles; text is kept once | partly: all but settings and debug payloads |
| Control plane (`api.py`, run routes) | what a request has read | create, cancel (read, then act, up to three times), pause, resume, fail, requeue | run table | stale reads | an accepted cancel is kept | partly: all but the synchronous wait |
| Run control (`orchestration/run_control.py`) | exceptions that carry a pause or a cancel through the router | raise, catch | router, worker | a pause caught as an error | paused work is kept | in `RunWorker`, `TurnControl` |
| Router (`orchestration/model_router.py`) | state of one turn, tool rounds, evidence pool | `run_turn`, `run_magi_resumption`, `run_auto_name_follow_up` | providers, retrieval, memory, MAGI | error paths out of every state; cancel checks between them | every turn ends in DONE, ERROR, cancelled or paused | partly: all states; no prompts |
| MAGI (`agents/magi/`) | rounds, positions, interventions, snapshot | opening, gate, discussion rounds, closing, arbitration, pause, resume | providers, run table (checkpoints) | pause between any two roles, resumption at the same place | nobody speaks twice or is passed over; the user is heard | modelled |
| Evidence pool, retrieval (`orchestration/evidence_pool.py`, `retrieval/search_pipeline.py`) | searches by fingerprint, pages delivered | search, exclude, cache, record | router, roles | a cached answer that is stale when it is used | nothing is read twice | partly: ranking is a choice |
| Providers (`providers/*_caller.py`) | the conversation of one call | request, retry, fallback, tool rounds, streamed text | remote models | a stream that breaks off is tried again; loops in loops | every call ends; the text is shown once | partly: control of a call; no wire shapes |
| Memory (`agents/memory_*.py`, `persistence/postgres_memory_store.py`) | facts, items, candidates of a project; the turn's snapshot | load, extract, resolve, commit | router | turns of other chats commit in between | a fact changes on the record | partly: no search, no debug dumps |
| Event stream (`api.py` `_stream_*`, `streaming/`) | subscriber position, replay windows | subscribe, replay, forward, poll | run table, Redis, browser | publication out of order, loss, duplicates, reconnect | no gap, no duplicate, one end | partly: one run, one subscriber |
| Browser streams (page `hooks/`, `runStreamSession.ts`) | last sequence numbers, assembled text, animation queues, put-off completions | attach, reconnect, replay, animate, finish | event stream | reload or change of chat in the middle of a run; callbacks of two animations | text on screen equals text stored; the page becomes final | partly: no layout |
| Ingestion (`ingestion/`) | per-document directories, artifact files, provider batches, index | queue, park, submit, poll, merge, finalize, index, clean up, quarantine | provider's batch interface | a pass dies between submit and save; shared files; overlapping passes | what is indexed is the document's own, whole, once | partly: no extraction, no `--force-reingest` |
| Evaluation jobs (harness `api/jobs.py`, `api/main.py`, `persistence/store.py`) | rows of setups, benchmarks, evaluations, judgements; lock per scenario | dispatch, cancel, finish, restart | engines | cancel against finish; a death of the process | a row says what happened; every job ends | partly: the jobs; no listing or generation routes |
| Evaluation engines (harness `eval_harness/orchestration/`) | setup machine, benchmark threads, user-proxy turn, judges | sabotage, verify, correct, scrap, image; clone, converse, check; vet; compare | cloud, models | repair loops, failing threads, a review that sends back, exchanged labels | a scenario is verified before it is used; machines are given back | partly: no prompts, transcripts, ratings |
| Evaluation backends (harness `backends/`, `controllers/`) | instances, images | launch, image, clone, destroy | cloud | slow images | - | partly: as the engines see them |
| Application store, authentication (`persistence/postgres_app_store.py`, `auth/`) | users, projects, chats | row access | API | - | - | no: single statements, no protocol |
| Launcher (`src/run_dev.py`) | child processes | start all, stop all | everything | restart under the same worker id | - | no: its restart is `RunWorker!Restart` |

## 2. Modules

| Module | What it is | Code |
|---|---|---|
| `RunLifecycle` | abstract specification: what one run promises its chat | the lifecycle that store and worker share |
| `RunStore` | the run table; one action per transaction; properties; the refinement mapping | `persistence/postgres_run_store.py` |
| `RunWorker` | slots, heartbeat threads, control plane, faults, on top of `RunStore` (`EXTENDS`) | `chat_run_worker.py`, run routes of `api.py` |
| `TextCheckpoints` | how an answer's text becomes durable: one buffer, two threads, appends after unlock, publications after commit | `_DeltaBuffer`, `_heartbeat_and_flush_loop`, `_publish_live_event`; the checkpoint methods and `_publish` of the run store |
| `EventStream` | how a browser follows that run, on top of `TextCheckpoints` | `_stream_run`, `_stream_via_redis` of `api.py`, `streaming/redis_events.py`, page `runStreamSession.ts`, `api.ts`, `hooks/useStreamingRun.ts` |
| `CouncilPage` | how a page shows a deliberation: role buffers, stream, animations, the put-off end | `_MagiRoleDeltaBuffer`, page `hooks/useCouncilStreaming.ts`, `useTextDeltaAnimation.ts`, `useStreamingRun.ts`, `councilStreamLifecycle.ts`, `runResume.ts` |
| `TurnControl` | the cancel check that every part of a turn is handed | `orchestration/run_control.py` |
| `EvidencePool` | searches of a turn: windows, exclusion, coverage, cached answers | `orchestration/evidence_pool.py`, `retrieval/search_pipeline.py`, `_retrieve_with_pool` |
| `ModelCall` | one call of a model: requests, retries, fallback, tools, text shown | `providers/*_caller.py`, on `EvidencePool` |
| `Council` | abstract specification of a deliberation | what `agents/magi/` promises |
| `Deliberation` | the council with its calls, pauses, snapshot and resumption; the refinement mapping to `Council` | `agents/magi/system.py`, `arbiter.py`, `resume_paused_run` |
| `ProjectMemory` | what turns of a project learn, resolve and commit | `agents/memory_resolver.py`, `memory_extractor.py`, `persistence/postgres_memory_store.py` |
| `RouterTurn` | the router's states over all of these | `orchestration/model_router.py` |
| `IngestStore` | files, directories, index and provider batches | `ingestion/doc_state.py`, `indexer.py`, `providers/openai_batch.py` |
| `IngestQueue` | phase 1: the queue, parking, direct ingestion | `ingestion/pipeline.py`, `ingestion/stages/` |
| `BatchRunner` | phase 2: passes over the parked documents | `ingestion/batch_runner.py`, `stages/context_enrichment.py` |
| `EvalStore` | tables of the harness and the machines it rents | harness `persistence/store.py`, `backends/` |
| `ScenarioSetup` | the setup machine of a scenario | harness `orchestration/scenario_fsm.py` |
| `BenchmarkRun` | a benchmark and its subjects' threads | harness `orchestration/benchmark.py` |
| `JudgeJob` | judges: grading, comparing in both orders, aggregating | harness `orchestration/judge.py` |
| `EvalJobs` | requests, the scenario's lock, cancel, crash and restart over the four | harness `api/jobs.py`, `api/main.py` |
| `UserProxy` | one turn of the simulated user | harness `orchestration/user_proxy_fsm.py` |
| `MC*` | values of the constants for TLC | - |
| `RunProofs`, `EventStreamProofs`, `ScreenProofs`, `CouncilPageProofs`, `TurnProofs`, `BatchRunnerProofs`, `UserProxyProofs`, `EvalProofs` | theorems and proofs, section 4 | - |

Composition: `RunWorker` extends `RunStore`; `EventStream` extends `TextCheckpoints`;
`RouterTurn` extends `Deliberation` (which extends `ModelCall`, `EvidencePool`,
`TurnControl`) and `ProjectMemory`; `BatchRunner` extends `IngestQueue` and `IngestStore`;
`EvalJobs` extends `ScenarioSetup`, `BenchmarkRun` and `JudgeJob` over `EvalStore`. The three
chains of the chat meet in abstractions that are named in the modules: the run of
`RunWorker` sees of the turn its appends, checkpoints and end; `TextCheckpoints` sees of the run
one row and "another slot"; `RouterTurn` sees of the run that it is paused, queued, claimed.

### RunStore

One variable per column, a function from runs to its values; the event rows of a
run are a sequence, so `latest_event_seq` is its length. A run stands for its
idempotency key (chat, `client_request_id`): creating it again is the code's
"reuse", a step that changes nothing. `exchanges` counts the pairs of messages a
run has inserted into its chat.

Every method of the store opens one transaction and locks the row it changes, so
one action per method is exact. A method that raises (`RunOwnershipLostError`,
`RunStateConflictError`, `ActiveRunExistsError`...) or returns early writes
nothing: no action. Time is the three values of `lease`: null, in the future,
past; `ExpireLease` moves from the second to the third. `Heartbeat` moves back,
because `heartbeat` tests the owner and the status and never the time.

`Next` lets any worker and any client call any method for any run at any time. No
protocol between them is assumed, so what is checked and proved of `RunStore`
rests on the fencing in its transactions alone. Two details matter:

* `MayWrite`: a worker's write needs ownership, an active status and a live
  lease; the control plane passes no worker id and needs only that the row exists.
  `mark_failed` and `mark_cancelled` then refuse a completed run and overwrite
  everything else, including another failure or cancellation.
* The claim query finds queued rows and executing rows with a past lease, and keeps
  the status of the latter. A reclaimed run can be `pause_requested` or
  `cancel_requested`.

Event kinds that no property tells apart are `"work"`; `intervention` and
`resumed` are appended together, as in the code.

### RunWorker

| Action | Code |
|---|---|
| `Claim`, `PlanFor` | `_worker_loop` claims; what the row says decides the plan: cancel, stale, resume, fresh (head of `_handle_claimed_run`) |
| `BeginTurn`, `RefuseTurn` | start of the heartbeat thread and the turn; the two early returns |
| `Work` | state and event listeners, and the tick of the heartbeat thread |
| `ObserveCancel`, `ObservePause` | cancel checkpoints of the router, pause checkpoint of MAGI |
| `RouterFails`, `ReportError`, `ErrorUnowned` | a state raises; the router announces ERROR (an append that may raise in turn) |
| `FinishTurn` | the last look at the cancel flag |
| `Flush`, `FlushRaises` | the flush of the text buffers before each terminal write |
| `QueueAutoName` | the naming follow-up, created before the parent is completed |
| `Complete`, `CompleteRaises` | completion inside the `try`, where ownership loss is caught |
| `Terminalize`, `TerminalizeRaises` | `mark_cancelled`, `mark_failed`, `mark_paused` in the except clauses, where it is not caught: the slot's loop ends |
| `Beat`, `NoticeLoss` | the heartbeat thread |
| `Crash`, `Stop`, `Restart`, `Stall`, `LeaseRunsOut` | a process dies; the service stops its other slots after one has raised; a process starts again under the same id; a slot sleeps through its lease; the lease of a run nobody handles ends |
| `Submit`, `CancelReads/Acts/Misses`, `Pause`, `Resume`, `OperatorFails`, `OperatorRequeues` | the routes of the API |

The router's turn is reduced to what the worker and the table see of it: a number of
appended events, the places where it looks at the cancel flag and at the pause
request, an error, or an end. A cancel request is two actions, because the code
reads the row in one transaction and acts in another; `cancelCall` is what it has
read. `superseded` is a history variable: another slot has claimed the run this slot
still handles.

### TextCheckpoints

One run, seen from the buffer of the slot that handles it. A delta is its number in the
order of the pushes, so a text is a sequence of numbers and "lost", "twice" and "out of
order" can be told apart. `TextCheckpoints` repeats a part of the run's row (`status`, the
log, who owns it) instead of extending `RunWorker`: it needs one run, one slot and
"somebody else".

| Variable | Code |
|---|---|
| `log`, `status`, `partial`, `owned` | events, status and `partial_assistant_text` of the row; does the row name this slot with a live lease |
| `buffer`, `window` | `_buffer`, `_window` of `_DeltaBuffer`, guarded by its lock |
| `hand[t]` | the chunk thread `t` has drained under the lock and not yet appended, outside it |
| `outbox[t]` | the event thread `t` has committed and not yet published |
| `rpc`, `verdict`, `lost` | where the router's thread is, how it will end the run, `ownership_lost_event` |
| `pushed`, `first` | history: deltas written, and how many of them earlier claims wrote |

| Action | Code |
|---|---|
| `Claim`, `TakeOver`, `FailStale`, `Crash` | a slot claims with a new buffer; another slot takes the run and fails it as stale; both threads die with what is in memory |
| `PushLive`, `PushBuffer` | the two halves of `push`: the live publication, labelled outside the lock, then the buffer and perhaps a drain under it |
| `Tick`, `NoticeLoss` | the heartbeat thread drains on its interval; its heartbeat is refused |
| `AppendCheckpoint`, `AppendRaises` | `append_text_checkpoint_for_worker` by either thread, and its `RunOwnershipLostError` |
| `Publish` | `_publish` after the commit |
| `EmitEvent`, `EndTurn`, `Flush`, `Terminalize`, `RouterRaises` | the other events, the end of the turn, the flush, the terminal write, ownership loss |
| `RequestPause`, `ResumeRun` | the two routes of the API that append to the log |

### EventStream

The server's generator is `conn` (`none`, `redis`, `polling`) and `stage` (reading the log,
sending the rows it read, waiting for news). `after` and `cur` are `after_seq` and
`current_seq`; `covered` is one more than the highest checkpoint window sent. `channel` is
what Redis holds for this subscription. `Connect` subscribes before it reads; `ReadLog`,
`SendRow`, `RowsSent` are the replay and the polling loop; `Drop`, `ForwardDelta` and
`ForwardEvent` are one message of the channel; `ReadStatus` and `SendStop` are the status
check when the channel is silent and, in a later transaction, the event it sends;
`RedisFails` is the fallback to polling, which starts again at `after`.

The browser is the session of `runStreamSession.ts` (`attached`, `catchup`, `over`), the
sequence numbers it remembers (`seen` in the session's loop, `lastSeen` in the page) and
the text on the screen. `Disconnect`, `CatchUp` and `CatchUpFails` are its loop, `Dispatch`
its handlers, `Reload` and `Resume` the two ways in which a new session begins. A
publication is delivered to the subscription that exists at that moment (`Deliver`), or
lost.

### CouncilPage

Two entries stand for the panel: a role and the arbiter. A role's words are one live delta
(`Push`), one checkpoint, saved by either thread (`Drain`, `SaveCheckpoint`), and one event
that completes the entry (`EndEntry`). The page is a record: `panel` (what the entry's state
holds), `visible`, `queue` (the characters that still run in), `waiting` (completions put
off), `ui`. `Frame` is one animation frame; `RunIn` and `Drained` are the callbacks that decide
which of the two animations was last. `LeaveChat`, `ReturnToChat` and `Reconcile` are the user
and the poll of the list of chats. A character is known by its place, so that a doubled, cut or
swapped text differs from `Said`.

### TurnControl, EvidencePool, ModelCall, Deliberation, ProjectMemory, RouterTurn

A turn is a worker's thread: its steps are its own, and what interleaves are turns of one
project, the user (`AskToCancel`, `AskToPause`, `Resume`, `UserNamesChat`) and the models'
answers, which are choices.

* `RouterTurn`: one action per state of `ModelRouter`; between two of them the cancel check
  (`Cancel`). `HandlerFails` is the set of states that let an exception out: only
  `LOAD_MEMORY`, `RETRIEVE_CONTEXT` and the answering call do; the others swallow it.
  `TakeUp` is `run_magi_resumption`, `NameInFollowUp` the separate run that names a chat.
* `ModelCall`: `Send`, `Delta`, `RateLimited`, `RequestFails` (retry, or again without the
  schema), `ServerPause`, `AskForTools`, `UseTool`, `Answer`; the providers differ in which of
  them they have. The text is followed by offsets, so "once and in order" can be said; offset 0
  is a character that is not of the answer. The arbiter streams JSON: `Extracted` is what its
  listener finds in a half-written text, `FinalText` what the parser makes of the whole, which may
  put text in front of the answer, and `Show` emits what lies beyond the length shown so far, of
  whichever text it is given. `apart` notes that a text was not the answer or a beginning of it.
* `EvidencePool`: a chunk is its source, title and pages. `Bundle` is the window around an
  anchor, `Excluded` the test against what was delivered, `Cached` the reuse by fingerprint,
  `Noted` whether the pool can read the key of a chunk's region, in which the title stands.
* `Deliberation`: the council's place (`at`, `round`, `index`), the rounds as they are spoken,
  the notes the user left; `Pause` writes `snapshot`, `Restored` reads it. `Record` is the
  transcript that the arbiter decides by: for each round, which of the user's words stand
  behind its first `k` positions. `accepted` is a history variable, the positions that had been
  said when the words were.
* `ProjectMemory`: `seen` is the snapshot the store caches for a turn, with its time stamps;
  `Resolve` reads it again if it is stale; `Commit` replaces, keeps or parks candidates.

### IngestStore, IngestQueue, BatchRunner

A content is the file it was made of and whether every chunk has its context. A document has
a directory (`dir`: state, source, batch, prepared and merged contents) and the artifact files
of its command line (`files`, by `site`): documents parked with one command line share them.
`Submit` and `RecordBatch`, `Merge` and `FinalizeOutput`, `PassAddRows` and `PassDocumentRow` are
separate actions because a crash, another pass or the queue may come in between. `StageRaises`
and `CallRaises` are exceptions of a stage and of the provider; `PassCrash` is the process.
`IntakeRaw` chooses
which ranges of pages are read and moves a file away that covers too little. Before chunks are
filed a guard counts the rows whose id begins with the identity (`Skipped`): those of a longer
identity (`Longer`) count too, and a count that raises is zero (`Missed`, the fault `miscount`).
A batch ends `whole`, `unreported` (answers are missing or errors, but not counted) or `failed`.

### EvalStore, ScenarioSetup, BenchmarkRun, JudgeJob, EvalJobs

Rows are keyed by the job that makes them. `staging` and `clone` say what happened to a rented
machine, `ami` what an image was made of: that is what the rows talk about. A machine is `gone` when
it has been terminated and `kept` when the provider was asked to and did not: `Teardown`, `DestroyClone`
and the rollback of `LaunchFails` may end so, the first two by raising; a `Scrap` that raises leaves the
machine to the teardown. Every handler of
the setup machine is an action, and two where it writes two rows. A benchmark is the job's own
thread (`bench`) and one thread per subject (`thread`), which are not joined when one has
failed; `Interrupt` cancels those that are still in the executor's queue. The simulated user's turn is
`ProxyAsks`, `ProxyCallsFail` and `ProxyTurn`: its model asks for calls, which all fail, so that it is
asked again, or work up to the cap and lead to a reply (`UserProxy` has the turn in detail). A comparison by judges is followed for one criterion at a time; `lead` is history: how
many judges prefer A less those who prefer B, by all that each answered. A design (the command
line's `verify-scenario`) is a process that takes no lock; a crash of the API does not touch it. `BuildFails`, `JudgesFail` and
`DesignNotBuilt` end a job before its engine starts, since the configuration is read anew for each;
`RejectDraft` is a generated scenario that does not validate.

### UserProxy

One turn: `Decide` (words or a batch of tool calls), `Execute`, `Reply`, `Vet` (the review and
the host's checks), `DecideAgain` (the one corrective round). A reply is told apart by what the
checks compare: the conversation's opener, the last message, nothing, the fallback, anything else.

## 3. Runs

| Run | Question | Instance |
|---|---|---|
| `run_store` | Do the transactions alone keep the table consistent, whoever calls them, and do they implement the lifecycle? | two message runs of one user in two chats, two workers (symmetric), cap setting 0 (a cap of 1), logs of up to 3 chosen appends |
| `run_worker` | Does every run settle, and does a slot that lost its run stop writing and let go? | one deliberating run, two slots, one crash or missed lease, 4 events |
| `run_chat` | Do two sends and a naming follow-up of one chat stay apart? | three runs of one chat, one slot that may crash and restart, one event each |
| `event_stream` | Is every delta kept once and shown once, does a replay leave no gap, does the session end? | three deltas, or one delta, one other event and one pause; one fault; queries of two rows |
| `stale_pause` | Does a replay of a resumed run go on after its pause? No: finding 1 | one event, one pause, one fault (the reload), queries of four rows |
| `council_page` | Does the panel show what was said, and does the page become final, not too early and not never? | one role and the arbiter, entries of two characters, one fault or change of chat |
| `router_turn` | Does every turn end, with its evidence read once, its user heard, its text shown once, the council's order kept and the project's facts changed on the record? | three settings: a streamed council on OpenAI with a pause, two rounds and texts of two; a council on Anthropic with two searches over four chunks; two plain turns on Google and the local provider that learn about one fact. One retry, one tool round, one server pause |
| `ingestion` | Is what is indexed the document's own, whole and filed once, and does a parked document settle? | seven settings of files, artifact paths, passes and faults: shared and separate paths, two files of one identity, a direct ingestion beside a parked one (also under its identity), one identity that begins with the other, two crashes, raised calls or failed counts, two overlapping passes |
| `eval_jobs` | Is what a row says of images, repairs and comparisons true, and is every machine given back, or at least asked back by somebody? | a job that makes an image (`run_all` with two subjects, or `verify`), one that uses it (benchmark or judge) or a design; one correction, one scrap, two turns, two judges; one cancel or crash |
| `eval_progress` | Does every accepted job end, but for a launch or a user's turn without an end? | the same without crashes |
| `judge_merge` | Does a panel's winner have a majority if judges leave criteria out? No: finding 2 | the same, `JudgesMayOmit = TRUE` |
| `user_proxy` | Is every call answered, every sent reply vetted, and can only failing tools keep a turn going? | responses of up to three calls, a cap of four |

### Bounds

*Run core.* `MaxEvents` limits only appends that a caller chooses to make (work, pause
and resume requests, repeated verdicts); the appends that end a run are always
possible, so no run is stuck because the log is full. `Emit` lets a slot go on when
the log is full. Two workers are enough for one to supersede the other; a third
repeats it. One user suffices because users share no state. `MaxFaults` counts
crashes and missed leases; one is enough for every reclaim path, and restarts are
free. `run_chat` gives up the second slot (interleavings of two slots on one
run are those of `run_worker`) to afford the third run.

*Streams.* `MaxFaults` is shared by all faults: crash, takeover, a publication
lost to an open subscription, a broken connection, a failing Redis, a reload. `Bounds` is a
set of limits `[deltas, events, pauses]` of what the model, the router and the user may
do, one of which (`bound`) a behaviour keeps to; an answer may always be shorter. Three
deltas are one in a hand, one in the buffer and one on its way. `Limit` is the number of
rows of one query (1000 for a replay, 200 for polling and for the browser's list); with two
a log outgrows one query. Polling then asks again; a replay over Redis does not, and what
lies between its last row and the first live event stays unsent until the next connection.
In `CouncilPage` two characters are one on the screen and one still running in, and two
entries are one that waits for the other; the backlog is one query.

*Turns.* One retry, one tool round and one server pause take every loop of a call once
round and out; `MaxText` of two lets a stream break off in the middle. Two searches and
four chunks (two of which touch, one without page numbers, one under a title with a colon) make a window overlap an earlier one. One pause at any of the
pause points, with or without words of the user, between two rounds of three roles; only
turns of one project that run side by side can meet, in its memory, and two do.

*Ingestion.* Two documents share paths or do not; the third file is a copy, a
direct ingestion or both. `faults` in a setting is what may go wrong in one behaviour. One
pass that is begun again and again is what cron does; two are an overlap. `PageBatches` are
the sizes of the page ranges that an intake is read in, 25 and 2, `MinCoverage` is the code's
default of 90 percent: the loss of the small one passes, the loss of the large one does not.

*Harness.* Each budget is one or two: a loop is left by its bound and by its success. Two
subjects are needed for one thread to outlive another's failure, and for one launch to be rolled back
after the other's failure. Raises of the provider are not counted: any call may raise. A benchmark needs a job
that made its image, hence two jobs. `Fragile` names the parts of a job that the configuration may
fail to build, one for each kind of job: a planner, a simulated user, the judges.

The table stops changing once every run is completed, a settled run whose session is
over has nothing left to do, turns end and an empty inbox stays empty, so those configurations
turn the deadlock check off. `EvalJobs` and `UserProxy` are checked for deadlock.

### Fairness

* `FairWorkerSpec`: a slot's own steps (`SlotStep`) and its polling of the table (`Claim`) are
  weakly fair: each is a thread that the operating system schedules and that waits for
  nobody. `LeaseRunsOut` is weakly fair: it is the clock. Nothing is asked of users,
  operators, the heartbeat thread, restarts or faults. `EveryRunSettles` therefore
  says that a run ends or waits for its user if one slot survives.
* Streams: only `StreamStep`, the server's generator and the browser's loop, and in
  `CouncilPage` the browser's frames. The worker need not publish, Redis need not deliver
  and the user need not return.
* Turns: the steps of a worker's thread and the claim of a queued run. Models answer or
  fail (the clients have time limits); nobody has to cancel, pause or resume.
* Ingestion: cron's passes, and the provider, which ends a batch within its window. Nobody
  needs to run the queue.
* Harness: each job's thread and each subject's thread that can step does, because they are
  threads of their own, and a dead process is started again. Nothing is asked of a launch
  (`Launching`): it may build the golden image with packer, whose output is read to its end before the
  time limit is looked at. The model of a simulated user may ask for failing calls for ever; what it
  asks is no matter of scheduling, so fairness does not end it either. `UserProxy`: the turn's own steps.

### Properties

* `ExchangeIffCompleted`: the messages of a run are in the chat exactly when it is
  completed, once. Cancel against complete, reclaim against complete and operator
  against complete are the races.
* `LogEndsAtTerminalEvent`, `StatusMatchesLog`: a client that stops at the first
  terminal event misses no work, and row and log tell the same story. Overwritten verdicts
  add a second terminal event, which the property allows because the code does it.
* `LeaseFollowsStatus`: nothing is stranded. An executing row without a lease would
  match no branch of the claim query.
* `OneActiveRunPerChat`, `ActiveCapHolds`: creation's checks survive resumption and
  reclaiming.
* `PausedRunHasSnapshot`, `PausedWorkIsKept`: a paused deliberation is continued, also
  by the second slot after the first that resumed it died.
* `CancelIsNotForgotten`: the flag is monotone. It holds in spite of `requeue_run`, which
  clears the flag, because that method accepts only queued runs without a log, and
  such a run has never been executing.
* `SupersededWritesNothing`, `SupersededSlotLetsGo`, `EveryRunSettles`: fencing, and its
  progress.
* `ImplementsLifecycle`: `RunStore` refines `RunLifecycle` under `phaseOf`, with
  `exchanges` for `delivered`.
* `TextIsConserved`: while the slot owns the run, every delta of its claim is in the row,
  in a thread's hand, in the buffer or on its way into it, and in one of them only.
* `FlushedBeforeVerdict`: what a verdict finds unsaved is at most a chunk the heartbeat
  thread holds at that moment. The exception is real: the verdict clears the ownership
  that chunk's append needs.
* `NoTextTwice`: a delta reaches the screen live, through a checkpoint, through a list of
  missed events or through the row. The window label, read outside the lock, and `covered`
  together keep it from coming twice, also after a reconnect or a reload.
* `ReplayIsGapless`: what was sent while a stream replays or polls is a gapless stretch of
  the log from where it was opened. Forwarding from the channel promises less: a lost or
  overtaken publication is dropped for good until the next connection, which is why the
  property stops at `stage = "wait"`.
* `EverySessionEnds`: the page learns of the verdict even if its publication was lost.
* `PanelShowsWhatWasSaid`: an entry shows a beginning of what its role said, and all of it
  when it is complete, except when the words were saved late (below).
* `DoneWaitsForText`, `EveryReplyIsFinal`: the page becomes final with nothing left to run in,
  and does become final unless a completion is stranded (below).
* `ImplementsCouncil`: `Deliberation` refines `Council`; a paused council is what is written
  of it. `InterventionsAreHeard`: the user's words stand in the arbiter's record once, at
  the place where they were said. `NothingIsReadTwice`: coverage, exclusion and the cache
  agree; of two searches' results only what the pool cannot note is in both. `OffsetsShownOnce`: a
  stream that breaks off is continued where it stopped; a text that was not the answer (`apart`) is
  excepted, since the code then shows a part twice (below).
  `FactsChangeOnTheRecord`: a fact's old value is kept as superseded, except when
  another turn commits between this turn's resolution and its commit. `EveryTurnEnds`.
* `IndexIsSound`, `EveryDocumentSettles`: see the conditions below. A completed document has
  chunks of its own in the index, or a longer identity has.
* `VerifiedMeansImaged`: the approval travels from the probes to the machine, to the
  image, to the row. `InstancesAreHeld`: a machine is up only while whoever destroys it has
  it, or after the provider was asked and kept it, and then the setup or benchmark that asked has
  failed; no path gives one up unasked but three (`ForsakesClone`, and a job that died): the crash, the
  subject without an adapter, and the subject that an interrupted benchmark drops from the queue of its executor.
  `SettledBenchmarkIsClosed`: a completed benchmark repaired and returned every clone; no evaluation
  is left open, although threads still run. `WinnerHasMajority`: the exchanged order is exchanged
  back. `EveryJobEnds`: loops of repair, scraps, turns, stalls and waits are left and the lock is
  given back, unless a launch never ends or a benchmark waits for good for a subject whose user is
  in a turn of failing calls (`InEndlessTurn`); the job behind it then waits for good, too.
* `EveryCallIsAnswered`, `SentReplyIsVetted`, `TurnEndsUnlessToolsFail`: the turn of the
  simulated user. Failing calls do not count towards the cap, so a model whose tools all
  fail can go on for ever; the property says that it is the only way.

### Findings

1. `stale_pause`. A replay ends at the first `paused` row, also when `magi_resumed` follows
   it (`api.py:914`). A page opened on a run that was paused and resumed shows it as paused
   while it executes. `streaming/STREAMING.md:285` and `orchestration/RUNS.md:303-305` promise
   backlog, then live events.
2. `judge_merge`. When only one of a judge's two answers mentions a criterion, it is taken
   as it stands, also the answer to the exchanged order (harness
   `eval_harness/orchestration/judge.py:79`), although the comment at `:85` says what its labels
   mean. A panel whose only answers prefer one subject then names the other the winner.

### Known behaviour that the properties allow for

These disagree with a document or are worth knowing; a property names each as its exception
or condition, and no run is spent on it.

* A run that was asked to pause and whose worker then stalled or died is reclaimed as
  `pause_requested`, passes the stale test of the handler, which looks for `running`, and is
  executed from its start (`RUNS.md` says stale work is resumed, failed or requeued).
* `mark_paused` overwrites `cancel_requested`: a cancellation accepted after the pause
  checkpoint leaves the run paused. The flag survives, so a resumed run is cancelled at its
  first checkpoint.
* Chunks are appended after the lock is released: window 0 may follow window 1 in the log,
  and `partial_assistant_text` holds them in that order until the final message.
* Once a live delta has been shown the page ignores checkpoints until the session ends,
  also those replayed after a reconnect: what was written meanwhile is missing until the
  final message. A second session may start from a sequence number the first has counted ahead.
* `SavedLate`: the heartbeat thread still holds a role's words when the router completes
  its entry. A page that subscribed before the words and replays after the completion catches
  the text up and then appends the live words again; doubled text is kept because it is longer.
* `Stranded`: Redis fails while a role's text still runs in and its completion is put off;
  polling replays the role from its start, which clears the queue but not the put-off
  completion. No frame applies it, and the end of the run waits for it until the chat is
  opened again.
* `mergeChatsPreservingActiveRunSnapshots` keeps every run the server no longer lists, so the
  poll of the list of chats never reconciles a finished run. Leaving a chat and returning while
  the reply still runs in doubles the reply's text until `done`.
* Project memory: another turn's commit between `RESOLVE_MEMORY` and `COMMIT_MEMORY` is
  overwritten silently. Memory is committed before the run is completed and without an
  ownership test. Automatic naming overwrites a title the user has given meanwhile.
* A pause asked for in the openings is never honoured if no discussion follows. A local
  provider's turn turns a cancel into an error. The retries of a rate limit have no cancel check.
* Artifact paths are shared by default. A document left at `INGEST_VECTOR_DB` is then indexed
  from a file that another document has written since, under its own identity, or fails
  for ever because the file is gone; a crash between submit and save submits a second batch;
  overlapping passes may file chunks twice, like a document ingested at once under the
  identity of a parked one (`Apart`, `Undisturbed`, `OneWay` are the conditions). Parking an
  identity again while its batch is under way loses the batch; a quarantine between
  preparation and parking guts the directory (`Gutted`).
* The guard against filing a document twice counts rows by the prefix of their ids: `linux` is
  skipped when `linux_kernel` is in the index, and is completed without a chunk (`Longer`). A count
  that raises is taken for none, and the document is filed a second time (`miscount`).
* A document whose title has a colon (or, without pages, whose identity has one) is never noted as
  covered: its region key is taken apart at the colons, the page numbers are not numbers, and
  the exception is swallowed (`evidence_pool.py:313-324`). Later searches of the turn bring it again.
* The arbiter's answer is streamed out of half-written JSON and then completed by length. Where the
  parser puts `primary_issue` in front of it (`arbiter.py:212-221`), or the response cannot be
  parsed and is taken as it is, the rest is cut from another text than what was shown: the tail
  comes twice, the beginning never. An escape that a delta cuts in two has a like effect.
* `destroy_handle` raises when the provider refuses or the instance takes long to end. A setup whose
  teardown raises fails, though its rows say `verified` and its scenario can be used; a subject whose
  clone is not taken back fails its benchmark. The rollback of a failed launch reports such
  failures and forgets the machine. `shutdown(cancel_futures=True)` drops a subject that is still
  in the queue, whose clone nobody destroys.
* A simulated user whose model makes only failing calls keeps its benchmark, and with it the
  scenario's lock, for ever. So does a launch that builds an image without an end.
* A cancel request to the harness renames a row that the job renames again; a restart
  leaves `creating_broken_image` rows and judge jobs as they are, and marks the row of a design that
  still runs; an adapter that is not registered leaks its clone; a benchmark's setup run and
  revision need not belong together.

## 4. Proofs

TLAPS checks these for every value of the constants, under the named assumptions of the
module that declares them. `RunStore` and `RunWorker`: `NoWorkerAssumption` (the empty
worker id is no worker), `KindAssumption`, `BoundsAssumption` (the cap and the bound are
naturals), `FiniteRunsAssumption` (used by the cap only), `NoRunAssumption`,
`FollowUpAssumption`, `MagiAssumption`, `FaultsAssumption`. `TextCheckpoints` and
`EventStream`: `BoundsAssumption`, `LimitAssumption` (a page of the backlog holds at least
one row). The turn: `PoolAssumption` (a chunk's pages are a range of naturals), `CallAssumption`
(the providers of a turn are among the four), `CouncilAssumption`, `MemoryAssumption`.
`CouncilPage`: `CouncilPageAssumption`. Ingestion: `QueueAssumption`, `IngestAssumption`.
`UserProxy`: `ProxyAssumption`. The harness: `BudgetAssumption`, `TurnAssumption`,
`JudgeAssumption`, `BoundAssumption`. All of them say that bounds are
naturals of the right kind and that sets are what their names say; TLC evaluates each on
the run of its module.

* **Table** (`RunProofs`). `StoreInv` is the inductive invariant: types, `RowInv` of
  every row, and `OneActiveRunPerChat`. The row's part strengthens the checked invariants with
  what they need to be inductive: an absent row is blank (or creation would inherit a lease or
  a log), a queued run with an empty log carries no cancel flag (or `RequeueRun` would
  forget it), and a log of an active run contains no terminal event (or the next append
  would follow one). `TypeCorrect`, `NothingIsStranded`, `DeliveredOnce`, `LogEnds`,
  `LogAgrees`, `OneActiveRun`, `PausedCanResume` follow from it. Each transaction changes
  one row, so the step is: other rows are kept (`OtherRowsAreKept`), the row's own invariant
  is kept by control calls, worker calls and the clock, and only a creation can add an
  active run to a chat. `CancelRemembered` and `CapHolds` (a cardinality argument)
  use the same invariant.
* **Refinement** (`RunProofs`). `Implementation`: every transaction is a lifecycle
  step or leaves phase and deliveries as they are. It needs `StoreInv`: that an executing run
  has delivered nothing, so its completion does.
* **System** (`RunProofs`). `WorkersUseTheStore`: `WorkerSpec => Spec`, so what is
  proved of the table holds of the system, `SystemDeliversOnce` among it. `SlotInv` adds that
  a handling slot has a run and that a superseded slot is not its owner. Nobody but a claimant
  becomes owner (`NobodyGainsOwnership`), every durable write needs ownership, hence `Fencing`.
  `PausedWorkGoesOn` is `PausedWorkIsKept`; its invariant `PauseInv` says that a run whose log
  holds `paused` deliberates and has its snapshot while it is active, and that a slot heading for a
  pause handles a run that deliberates. Only `MarkPaused` makes a log one of a paused run,
  and what clears a snapshot also ends the run.
* **Text and replay** (`EventStreamProofs`). `TextInv` has three parts: types; `ControlInv`,
  what the threads rely on at each step of the call (the buffer is empty when the verdict is
  written, the router's thread holds no chunk while it pushes or flushes); and
  `PlacesInv`: no delta is in two of row, hands and buffer, and while the slot owns the run
  every delta of its claim is in one of them or on its way. `TextConserved` is its
  consequence, `VerdictIsFlushed` an action property of it. `StreamInv` adds the types
  of the browser's side and `GeneratorInv`, which keeps the generator within what its query
  returned; `StreamTypeCorrect` and `ReplayHasNoGap` follow.
* **Screen** (`ScreenProofs`). `NoDeltaTwiceOnScreen` needs five facts that relate the channel,
  the log and the screen. `LabelInv`: the live message of a delta carries a window label no
  later than the window of the chunk the delta is saved with. `OrderInv`: what was
  published behind a checkpoint is not in that checkpoint's text. `ReplayCovers`: a replay over Redis
  has noted the window of every checkpoint it sent. `SavedInv`: no checkpoint holds a delta
  twice. `CoverInv`: a delta in the channel that is already on the screen has a window below `covered`,
  so the page drops it. Each is kept only because of the others, and all only because of
  `StreamInv`; this is why the label may be read outside the lock.
* **Council page** (`CouncilPageProofs`), for entries of any length. `PanelInv` is `TypeInv`, the
  place of the subscription in the log (`Subscribed`), and one of three things of each entry,
  by what the page has been sent of it: nothing (`Silent`), the live words before their row
  (`Ahead`), or a row (`Shows`, which counts what is visible, what is queued and what a completion that
  was put off will put in its place). That `queue` continues `visible` without a gap or an
  overlap holds only because a session's replay starts where the panel's state came from.
  `DoneWaits` is an action property of the types: `RunIn` and `Drained` both look at what the
  other has left.
* **Ingestion** (`BatchRunnerProofs`), for any files, identities and artifact paths, any
  number of passes and faults. `Inv` follows a content from the file it is made of: what a record
  was prepared from and what was merged for it are files parked under its identity
  (`RecordInv`), a pass reads and adds what was made of a file that was queued (`PassInv`, `FilesInv`,
  `IndexInv`), and what the queue ingests at once is no parked file (`QueueInv`). On top of it
  `IndexedRight` has a part for each condition of the property: `OwnFiles` if paths are apart;
  `InOrder` if they are shared and nothing disturbs the one pass, which then indexes what it has
  merged before it takes another document; `Alone` and `Once`, that a pass adds rows only
  to an identity that has none. `OfItsDoc` follows from either of the first two.
* **Turn** (`TurnProofs`), for any number of turns at work on one project. `ChangesAreRecorded`
  is `FactsChangeOnTheRecord`; `MemoryInv` says that what a turn has read is an
  earlier state of the facts, that a stamp which has not moved since vouches for the
  value read with it, and that a resolution replaces on the record every value it changes. It
  is kept because a commit raises the stamp of each fact it writes (`CommitRaisesStamps`): without
  that a cached snapshot might vouch for a value that is gone. `AnswerInOrder` is
  `OffsetsShownOnce`; `AnswersInv` says that nothing of a council's answer is shown before the
  arbiter speaks, also when the council is paused and begun again, and that while the arbiter
  streams and no other text was taken for the answer, `emitted` equals what was shown, so that a stream taken up again or a fallback to the unstreamed call shows only the rest.
* **Searches** (`TurnProofs`), for any index, windows and number of searches. `SearchInv` has
  three parts, each about the chunks the pool can note. What any answer showed is covered by now. What a
  cached answer holds was not covered by the coverage in its key, and is covered now; so an answer that is
  found again under today's coverage holds nothing that was noted (`CachedIsNotNoted`). No two results
  share a noted chunk. The second part is why the
  fingerprint has to name the coverage: a key without it would bring back what was shown
  (`ReadOnce`).
* **Council** (`TurnProofs`), for any number of rounds, pauses and turns. `InPlace` relates the
  council's place to what has been said there (before a role speaks, those before it in the order have,
  and only those); `Orderly` says that a round is followed by another only if all have
  spoken in it and it brought something new or was held; `Checkpoint` that a snapshot goes on where its
  last round stopped, or in the next. `View` is a council as `Council` sees it, read from the
  snapshot while it is paused. Each of its actions is shown to be a step of `Council` in the view or
  none, to keep the user's words, and to leave what was said before each place as it was
  (`StepsTo`); pausing and resuming are the steps that leave the view alone. `CouncilIsOne` is
  the refinement. The router around it enters a council only at a turn's beginning or from a snapshot
  (`Stood`). `Remembered` ties the i-th words to the positions that stood before their place; with it
  and `WordsHaveAPlace` follows `WordsAreHeard`.
* **Types of the turn** (`TurnTypes`) are the consequence of all these, with `LearnedInv` and
  `AskedInv` for what the memory and the user add.
* **Simulated user** (`UserProxyProofs`). `TurnInv` adds two facts to the properties:
  a batch of calls is begun below the cap, and the machine decides or reviews for the first time
  only while nothing has been sent back. The rest is counting the calls of a batch.
  `CallsAreAnswered`: no request to the model leaves a tool call without an output.
  `ReplyIsVetted`: no reply leaves that its last review sent back.
* **Harness** (`EvalProofs`). `PanelFollowsItsJudges`: under `JudgesMayOmit = FALSE` no
  winner is named against the answers, after labels are exchanged back; its invariant
  `PanelInv` relates votes and halves of votes to the number of judges that prefer each side, at
  each step of a judge. The hypothesis is necessary:
  without it run `judge_merge` has the counterexample. `VerifiedIsImaged`: `ImageInv` carries
  the approval along the job: a review looks at probes, an image is asked of an approved
  machine, what is waited for is that image, and what is recorded is clonable; no cancel, failure
  or restart in between breaks the chain.
* **Rented machines** (`EvalProofs`). `StagingInv`: a staging machine is up only where a
  teardown follows, or its job is lost; a teardown that does not get it back ends without success; a job that nothing was asked of is not lost, or a new setup
  might start with a machine up. `CloneInv` relates, for each subject, its thread, its row and its clone to the place
  of the job's own thread: subjects below `next` have been handed out, and while it collects, the
  threads below `next` have ended well. A thread that ended well has closed its row and returned its
  clone, so a run settled as completed has too; a clone that was kept belongs to a thread that raised or to
  a launch that failed; an interrupted run's list of open rows covers
  all that are still open, however its threads go on. `MachinesAreHeld` and
  `BenchmarksAreClosed` follow.

Only model-checked:

* liveness (`EveryRunSettles`, `SupersededSlotLetsGo`, `EverySessionEnds`, `EveryReplyIsFinal`,
  `EveryTurnEnds`, `EveryDocumentSettles`, `EveryJobEnds`, `TurnEndsUnlessToolsFail`):
  fairness and `ENABLED` are out of the prover's reach.

Every invariant, every refinement and every action property that the passing runs check is
stated by a theorem. Two of them have conditions, in the property itself (`IndexIsSound`) or in
front of the theorem (`PanelFollowsItsJudges`).

## 5. Left out, and why

* Contents: text of messages and events, normalized inputs, error messages, council
  entries, timestamps, prompts, transcripts, ratings. A text is the set or sequence of its
  deltas. The order in which the claim query prefers rows is left open.
* Methods that only tests call: `request_cancel`, `append_event` and the checkpoint
  methods without a worker id. Reads that serialise rows; listing routes; the routes that
  generate a scenario's draft.
* Database errors. A transaction either commits or did not happen; a lost connection is a
  crash of the slot before or after the commit. In the harness no write to the database raises, nor
  does starting a thread: an exception in the loop that hands out the subjects would leave the
  remaining clones up, and one in an `except` clause a row open.
* `EventStream`: a second tab, a change of chat, a run that does not exist or cannot be read.
  Animation frames are in `CouncilPage`, which in turn has a reliable database.
* `join(timeout=2)`: a heartbeat thread is taken to end with its handler. A thread that
  outlives it by a slow query could renew the lease of a run its slot has left; the
  renewal needs the slot's worker id in an active row, which a terminal write has ended.
* An empty `pause_state`: MAGI always raises with a snapshot, so `mark_paused` sets one.
* The synchronous wait of `POST /runs` (a poll for a terminal status).
* Retrieval: ranking, embeddings and filters are a choice of pages; the wording of the
  evidence gate and the judgement of usefulness are a choice of answers; scopes are one scope.
* Memory: search, candidates' wording, debug dumps.
* Providers: the shapes of requests and streamed events. What counts is when a call is
  tried again, falls back, runs tools or ends.
* Ingestion: extraction, chunking and enrichment of text. Identity extraction is a function
  of the file (`DocOf`), which a document with the same text and metadata gets again.
  `--force-reingest` is left out; a batch that ended without output, in part or by a
  terminated job counts as failed, as the runner treats them.
* Evaluation: weights of judges, margins and the Bradley-Terry estimate are pure arithmetic
  after the votes; a sabotage plan and a probe's output are a choice of outcomes.
* Application rows, authentication, memory search: request and response in one statement.
* The launcher: it starts and stops processes. Cloud backends appear only as the engines use
  them (`LaunchStaging`, images that become available or fail); a launch that raises has rented
  nothing, and closing a controller does not raise, since it catches what its sessions raise.

## 6. Plan

Done: the run core; text, stream and council page; the turn with its council, searches,
calls and memory; ingestion; the harness and the simulated user. All of them have proofs of
their safety properties. What is left, in the order of its worth:

1. Safety lemmas towards the liveness properties: that a turn's counters only run one way
   (`EveryTurnEnds`), that a failing pass leaves a document where the next one finds it
   (`EveryDocumentSettles`).
2. A theorem over `RunWorker` and `TextCheckpoints` together, whose slots are modelled apart.
3. The synchronous wait, a second tab, and the harness's routes that generate drafts.

## 7. How to run

    tlc -config MCRunStore.cfg MCRunStore
    tlc -config MCRunWorker.cfg MCRunWorker
    tlc -config MCRunChat.cfg MCRunWorker
    tlc -config MCEventStream.cfg MCEventStream
    tlc -config MCStalePause.cfg MCEventStream      # finds a violation, finding 1
    tlc -config MCCouncilPage.cfg CouncilPage
    tlc -config MCRouterTurn.cfg MCRouterTurn
    tlc -config MCBatchRunner.cfg MCBatchRunner
    tlc -config MCEvalJobs.cfg MCEvalJobs
    tlc -config MCEvalProgress.cfg MCEvalJobs
    tlc -config MCJudgeMerge.cfg MCEvalJobs         # finds a violation, finding 2
    tlc -config MCUserProxy.cfg UserProxy
    tlapm RunProofs.tla
    tlapm EventStreamProofs.tla
    tlapm ScreenProofs.tla
    tlapm CouncilPageProofs.tla
    tlapm TurnProofs.tla
    tlapm BatchRunnerProofs.tla
    tlapm UserProxyProofs.tla
    tlapm EvalProofs.tla

`PROJECT.json` lists the runs, the properties with a faulty variant of a definition each (the
operators marked "Faulty" in the modules) that TLC must find violated, the map from
definitions to source lines, the hazards and the theorems.
