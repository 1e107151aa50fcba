# Gooberberg Terminal in TLA+

A verification project for the Gooberberg Terminal: a FastAPI control plane, a
desktop client (React in a Tauri shell), polling workers and services around
Redis and Postgres. Paths below are relative to `src/`; `api/` stands for
`apps/api-control-plane/app/`, `desktop/` for `apps/desktop-tauri/src/` and
`gb_core/` for `libs/py/gb_core/src/gb_core/`.

1. [Inventory](#1-inventory)
2. [Modules](#2-modules)
3. [Runs](#3-runs)
4. [Proofs](#4-proofs)
5. [Where the code and the repository's claims part](#5-where-the-code-and-the-repositorys-claims-part)
6. [Other things the models show](#6-other-things-the-models-show)
7. [What is not modelled](#7-what-is-not-modelled)
8. [Plan](#8-plan)

## 1. Inventory

### 1.1 Parts that keep state and talk to each other

| Part | State | Operations | Talks to |
|---|---|---|---|
| Run and job routers (`api/api/routers/{jobs,training_runs,backtest_runs,parameter_sweeps,testing_runs}.py`) | latest event and envelope of each job in memory (`api/jobs/store.py`), event log, run rows and artifact rows in Postgres | create job or run, post event, cancel, retry, get | Redis list `gb:jobs:queue` (RPUSH), WebSocket manager (broadcast after every event), workers (HTTP) |
| Workers (`services/worker-training`, `services/worker-research`) | the job at hand; `attempt_count` in a Redis hash; files under a directory per job | BLPOP, requeue a foreign envelope, run the pipeline, post events, give up after `JOB_TIMEOUT_SECONDS` | Redis list, `POST /jobs/{id}/events`, disk |
| Admission (`api/api/routers/{model_configs,training_runs,backtest_runs}.py` with `api/domain`) | model configs, templates | preflight, create, update | Postgres |
| Artifact table (`api/persistence/repositories.py`) | summary rows | record, read, prune | Postgres |
| WebSocket manager and endpoint (`api/ws/manager.py`, `api/api/routers/ws.py`) | sequence number, retained window, sockets and their topics | publish, subscribe, replay, unsubscribe, ping, heartbeat | desktop sockets |
| Topic stream of the desktop (`libs/ts/@gb/api-client/src/index.ts`, `desktop/hooks/useResumableTopicStream.ts`) | cursor, expected number, items, polls, back-off | open, receive, resync by polling, reconnect, fall back | `/ws`, REST polling |
| HTTP transport of the desktop (`requestJson` in `libs/ts/@gb/api-client/src/index.ts`) | breaker state, probe budget; the attempt of each call | begin, attempt, back off, end | the API |
| Risk execution (`services/service-risk-exec`, `gb_core/risk.py`) | overrides, audit trail, counters of each strategy's turnover; executions and totals | consume an intent, decide, publish; simulate a fill, book an execution | Redis pub/sub `strategy.intent`, `risk.decision` |
| Event log (`gb_core/event_log.py`) | records, key index, archive | append, query, retention, segments | its callers (tests today) |
| Paper execution (`gb_core/paper_execution.py`) | progress and result of each intent | process an intent, again | its callers (tests today) |
| Portfolio state (`services/service-portfolio-state`, `api/api/routers/portfolio.py`) | Redis streams of fills and orders; the last snapshot in memory | put a snapshot together, publish, answer | Redis |
| Market data (`services/service-data`) | feed state; parquet parts and manifest; coverage, missing ranges, references | ingest a tick; fetch in chunks, store, register | provider, disk, Postgres |
| Data requests (`api/domain/market_data`) | catalog rows and partitions | request, batch, look up, tell the coverage | Postgres |
| Alerts (`api/api/routers/alerts.py`) | alerts, lifecycle, suppression times | emit, acknowledge, resolve, list (which escalates) | WebSocket manager |
| Strategies and overrides (`api/api/routers/{strategies,risk}.py`) | instances and the control plane's own risk authority | create, start, stop, override | WebSocket manager |
| Deployments (`api/api/routers/models.py`) | deployments | create, activate, deactivate | WebSocket manager |
| Topology graph (`api/persistence/repositories.py`) | node and edge rows | seed, topology, neighbourhood | Postgres |
| Start of the control plane (`api/persistence/db.py`, `apps/api-control-plane/alembic`) | the schema and its version | migrate, repair, stamp, create the tables that lack | Postgres |
| Backtest replay (`api/domain/backtest_runs/replay.py`), splits and leakage checks (`services/worker-training`) | none between calls | replay, validate; split, fold, walk | their callers |
| Connection supervisor (`desktop/connectivity`) | breaker state shown next to a topic | record, mark | the topic hook |
| Inference (`services/service-inference-live`) | intents so far | publish one intent per instance | `strategy.intent` |
| Orchestrator (`services/orchestrator`) | Redis hash | BLPOP, write status | the same Redis list |

### 1.2 How a job travels

`POST /jobs` and `POST /parameter-sweeps` record a queued event, push an envelope on
the Redis list and broadcast the event. `POST /jobs` takes a job type, which decides the
worker, and a run and a run type, which decide the row its events write; the three are
chosen apart and nothing compares them with a row. Both workers pop the same list; a
worker puts an envelope of another type back at its end. A worker posts RUNNING events
and a terminal one, each an HTTP call it waits for (three seconds at most). The
control plane records an update in memory and in the log, broadcasts it, and only then
brings the run row and the artifact table up to date; an update may name a run and a
run type of its own (`api/api/routers/jobs.py:211-212`), and then the row and the gate
go by those. A success named as of a training or backtest run has to pass the success
gate there. Cancel and retry are requests of their own that look at the latest event, and
nobody tells the worker. The desktop's page of the job lists what a poll brings.

**Three of the routes that create runs always fail at this commit.**
`POST /training-runs` and `POST /testing-runs` commit the row, and then `_to_dict`
(`api/persistence/repositories.py:140-141`, `185-186`) reads `deterministic_mode` and
`scenario_id`, which these tables do not have: the answer is 500, the row stays queued,
and there is no event, broadcast or envelope. Reading or listing such rows raises
likewise. `POST /backtest-runs` raises before it stores anything, since `research_qa`
(`api/api/routers/backtest_runs.py:209`) is no column of `BacktestRunRow`
(`repositories.py:96`). The model has these routes as they are: a row and nothing
else (`OrphanRun`), or nothing. Jobs of training and backtest runs therefore come from
`POST /jobs`, with the id of a row if the caller has one: the rows an earlier release
stored, and those the failing routes leave.

### 1.3 What is hard

* **Interleavings at awaits.** The control plane is one asyncio loop. Between
  `job_state_store.upsert` and the row update lies a broadcast, so the steps of
  two handlers for one job mix; alerts and deployments have the same shape.
* **Threads.** Synchronous routes run on threads with sessions of their own:
  between a look and an insert another may commit (data requests, graph).
* **At-most-once hand-over.** Persist and push are two steps, BLPOP removes the
  envelope before the work starts, and posts are not repeated.
* **Restarts.** Job states, envelopes, sequence numbers, turnover, paper orders
  and alerts live in memory. The production compose file restarts every
  container, and a start may crash half way through bringing the schema up.
* **Two writers.** Two fetch jobs share a manifest, two containers one database, and two
  callers a primary key. A reader of the bar files meets those a job is writing.
* **Replay next to live sends.** Live sends are tasks, the replay loop awaits
  each send, and the client compares numbers with two different expectations.
  On the page the effects of React run again at every render, and an answer to a poll
  replaces whatever came before it.
* **Posts given up on.** The worker's limits on a post and on a job cancel the await, not
  the thread that posts: what was given up on may still arrive, after a later event.
* **Retries under a shared breaker.** Concurrent calls of one client count on one
  breaker, and calls from before it opened end while it is open or half-open.
* **Limits.** The retained window, the length of the page's list, a strategy's daily turnover,
  the retention policies, the probe budget, the pruned set of tick keys, the
  windows of fills and orders a snapshot reads.

The list of hazards, each at its line and with the properties that watch it, is
in `PROJECT.json`.

### 1.4 What makes each part correct

* Jobs: one owner of an envelope, delivered at most once, memory agrees with the
  log, no row becomes a success without the gate, an open job is always carried
  by someone, a job ends, an update never undoes a terminal one unless something
  failed.
* Training: a job is told as it went, with one verdict but for one exception that is
  named; no artifact of what the gate refuses, no leak between the parts of a split.
* Admission: no way around confirmation, leakage checks or qualification.
* Artifacts: one row per content of a run and type, kept as long as promised.
* WebSockets and page: a resumed connection brings everything after its cursor;
  what is lost is noticed; a loss the page noticed is repaired or there is a reason.
* HTTP transport: the breaker opens on failures only and moves on; its probe budget
  is kept; what is not idempotent has one effect.
* Risk: approvals stay within the limit, blocked stays blocked, every intent is
  decided. Fills follow the queue; totals are those of the events.
* Event log: nothing is lost, a key has one record, an append is idempotent.
* Paper execution: never more than the intent asks for; the same intent, the same fills.
* Portfolio: what a snapshot says of a stream is true at the offset it names; the
  cache catches up.
* Market data: what was fetched is where readers look; a duplicate tick is dropped
  and a late one noticed; an accepted request is found.
* Alerts, strategies, deployments: suppression holds, a rung at a time, starts by
  an approval of their own, a status that can be followed.
* Schema and graph: who serves has the schema its classes name; the graph is what
  the tables hold.
* Replay: a lost or doubled fill is told, and what is told is explained.

## 2. Modules

| Module | What it is |
|---|---|
| `JobLifecycle` | run and job routers, Redis list, workers, event posts |
| `JobDelivery` | abstract: what happens to an envelope, delivered at most once |
| `JobRefinement` | `JobLifecycle` under the mapping to `JobDelivery` |
| `TrainingPipeline` | what the training workers do with one job |
| `BacktestAdmission`, `ModelQualification` | what the control plane takes on |
| `DatasetSplits` | entity split, purged folds, walk-forward windows |
| `RunArtifacts` | worker files, summary rows, retention |
| `WsReplay` | WebSocket manager and endpoint with the client's cursor |
| `TopicStream` | the desktop page of one job: hook, socket, polls, renders |
| `ApiTransport` | the api-client's calls with their retries and circuit breaker |
| `RiskExec` | intents, risk authority, runtime guard, decisions |
| `PaperExecution`, `ExecutionEngine`, `ExecutionAnalytics` | paper orders; fills of the simulated market; totals of executions |
| `PortfolioState` | snapshot and its cache |
| `BacktestReplay` | replay of an event log and its validation |
| `EventLog` | the idempotent log with retention |
| `FeedIngest`, `BarCache`, `DataRequests` | ticks; bars on disk with their catalog; requests for them |
| `Alerts`, `StrategyControl`, `Deployments` | routers of the control plane that keep state in memory |
| `SchemaStartup`, `GraphView` | the database at start; the graph seeded from it |
| `JobLifecycle_proofs`, `JobRefinement_proofs`, `RiskExec_proofs`, `ApiTransport_proofs` | theorems about one module, checked by TLAPS |
| `LiveUpdates_proofs` | theorems about `WsReplay` and `TopicStream` |
| `ControlPlane_proofs` | theorems about the training pipeline, splits, admission, qualification, artifacts, deployments, strategies, alerts, the schema and the graph |
| `Services_proofs` | theorems about the execution engine, portfolio, feed, data requests, bar cache and event log |
| `Accounts_proofs` | theorems about what folds over its past: paper adapter, execution analytics, replay |
| `MCJobLifecycle`, `MCWsReplay`, `MCApiTransport`, `MCTrainingPipeline` | instances of one component |
| `MCTraining` | instance of the training pipeline with admission and splits |
| `MCJobPage`, `MCLiveUpdates`, `MCServices`, `MCControlPlane` | instances of several components that rest while one moves |

The modules talk to each other in the system, and where they do one takes what
the other may send as an input, any of it at any time: a job reaches
`TrainingPipeline` once, as `JobDelivery` says, the reports `RunArtifacts` takes are
those of workers and of any client, the messages of `TopicStream` are those of
`WsReplay`, a fill comes to `PortfolioState` from the bridge. They share no variables.
Four instances therefore put components side by side under a constant variable `part`
that names the one which moves: their state spaces add up and one run asks for all of them. A
disjunct of `Next` is conjoined with `part` and the other components' variables
rest, so each component's behaviours are exactly those of its own `Spec`.

Definitions marked "Mutant of X" are plausible bugs of X. They are not part of
any specification; replacing X by one shows that the run's property depends on X.

### 2.1 Jobs

**JobLifecycle.** `store` and `envelopes` are the two in-memory stores, `db` the
latest row of each job's event log, `rowType`/`row` the run tables, `queue` the
Redis list, `attempts` the counter in the Redis hash, `worker` the loop of each
worker, `posts` the HTTP posts under way, and `calls` what remains of every
handler that waits at an await. `jobType`, `jobRun` and `runType` are what the envelope
names; an event has a status, a run and a run type. `passed` and `raised` are history
variables: for which run a success of which job passed the gate, or made it raise. A
handler is cut at its awaits:

| Code | Actions |
|---|---|
| `create_job` | `CreateJob`, `Push` / `PushFails` |
| `create_parameter_sweep` | `CreateSweep`, `Push` / `PushFails` |
| `create_training_run`, `create_testing_run` | `OrphanRun`: up to the exception |
| `create_backtest_run` | none: it stores nothing (`BacktestAdmission` has its checks) |
| `publish_job_event` | `Deliver` (a worker's post) or `Publish` (another client), then `Sync`, or `GateFails` and `GateRow`, or `GateRaises` |
| `cancel_job` | `Cancel`, `EndRow` |
| `retry_job` | `Retry`, `Push`, `EndRow` |
| `get_job` with an empty store | `Read` |
| `run_worker`, `handle_with_timeout` | `Claim`, `ForeignRequeue`, `PipelineRaises`, `JobAbort`, `PostAborted`, `WorkerCrash` |
| the pipelines and `post_event` | `PostRunning`, `PostVerdict`, `Ack`, `PostTimeout`, `PostLost` |
| restart of the control plane | `ApiRestart` |

An update carries its status and `evidence`: whether it brings lineage the gate could
accept, none, or one with a seed that is no number, on which the gate raises
(`GateRaises`). Workers never send lineage, so their posts have none; `GateFails` may also
refuse evidence that is sound, since the gate compares it with the run. `NeedsGate` goes
by the run type the event names and by the row there is (`HasRow`), as the code does.
Whether an update brings a result reference is open (`SaveArtifact`). A retry sends the
envelope in memory again or rebuilds one from the training row the latest event names
(`Provenance`). The training worker ends with FAILED, since its preflight accepts no
request, and the research worker with SUCCESS; either may raise on a payload it does not
accept. The latest row of the log is found by time stamp in the code; the clock is taken
not to go back. A crash loses what is after an await, never half of what is before it.

**JobDelivery** says where an envelope is (`place`) and that one which was started
or is gone never returns; **JobRefinement** computes `place` from the handlers'
pending pushes, the list and the workers' loops, and `started` from the counters.

**TrainingPipeline** is what the worker does with one job between claim and the next
job, cut at every await: the job is popped once and a retry has another id, so there is
one execution and a directory of its own. The stages of `run_training_pipeline` are
`LoadIntent`, `ParsePayload`, `Preflight`, `EnsureDataReady`, `MaterializeSplits`,
`FitPredict`, one `WriteArtifact` per file (or `NoParquet`), `Evaluate`,
`PersistArtifacts`, `SealManifest` and `Return`. Each `Announce` or `Fail` begins a post, and
the next stage waits until that post was carried out (`PostArrives`), failed
(`PostFails`) or was given up on (`PostGivenUp`, after three seconds). `TimeOut`
cancels the pipeline at any await inside `wait_for`, that of the verdict's own post
included, and then `Catch` posts a failure next to the verdict; `Raises` stands for an
exception of Redis, of the disk or of an answer that does not validate, and
`WorkerDies` may happen anywhere. `posts` is the order in which the worker began its posts,
`arrived` that in which the control plane carried them out, `abandoned` those it did
not wait for. A digest is what it was taken of, so the comparison of
`_preflight_lineage` is made by what it does: with the digest of the whole request,
which no request that contains it can satisfy. The instance keeps one payload that
satisfies it nevertheless, so that the stages behind the gate are checked as well.

**DatasetSplits** takes one input at a time. A process walks a Python set in an
order of its own (`hashOrder`), the same seed shuffles alike (`shuffle`). A row is a
position of the input and every list of rows is `Listed`, a stable sort of a set of
positions by a key: time, the order rows came in, or the rank a process's hash gives. A
share is `int(n * ratio)` of a float: 90 entities at 0.7 give 62 rows and not 63, and
`RoundedDown` has the sizes where a product comes out below an integer (below 200 only
90, 170 and 180, at 0.7). `Fold` and `Walk` are one turn of a splitter's loop, on rows
that passed `enforce_feature_timing`; nothing in the worker calls the three in one
place yet, its tests do one after another. A walk with a size or a step of zero
fails on an empty slice or never ends, and is left out (`TimeAssumption`).

**BacktestAdmission** (`PreflightBacktest`, `CreateBacktest`) and **ModelQualification**
(configs, templates, preflight, run creation) apply the checks in the code's order;
the answer names the first that refuses. A backtest that passes them all is answered 500
and leaves nothing; `Passed` is what the properties are about, since the checks are in
force whatever the repository does afterwards. A training run that is "taken" has been
validated and its row committed; the handler raises after that.

**RunArtifacts**: the rows the events make (`rows`), filed under a run, a run type and a
checksum, the history of reports and reads (`touched`), the days. `WorkerSucceeds`
reports, records and prunes in one step as the handler does; `ClientReports` is
another client's event, which names any run and type, a checksum or none, and a
retention class. Without a checksum the sha256 of the reference stands in, so it is
the reference. Retention looks at `accessed`, which `ReadArtifact` renews.

### 2.2 Live updates

**WsReplay.** `seq`, `buffer` and `topicOf` are the manager's, `conn` the endpoint's
coroutine of each client, `pending` the send tasks that have not run, `wire` what is in
the socket, `cursor` and `expected` the two numbers the client compares with. `received`,
`noticed` and `base` are histories. `publish_topic` numbers an event, puts it in the
window and picks the sockets in one go, and the sends run later as tasks (`PublishTopic`,
`LiveSend`); asyncio runs the tasks of one socket in the order they were made. The
endpoint acknowledges a subscription before it replays (`Subscribe`, `StartReplay`,
`ReplaySend`), so live events may overtake replayed ones; what is left to replay is a set,
taken from the lowest number up. On the client `Receive` makes the two gap checks,
`ReceiveReplayRequired` gives the cursor up, `Drop` and `Remount` lose the connection (the
second with the hook's new closure). A resync poll counts as done once started: `noticed`
is the latest event at that moment.

**TopicStream** takes that poll apart, for one page. `Render` commits what setState
queued and runs the effects whose dependencies changed: `pollFallback` and
`pushToast` are new functions at each render of the page and of App, so a render
closes the socket, opens a new one and starts the interval again. `polls` has each
poll with what asked for it and the server's answer, which arrives whenever it
likes or fails; the server answers with its `log` of the job. Events are of the page's job,
of another job or of another topic. `EventArrives` moves the cursor and makes the gap checks
for every event, and shows it only where the parser accepts its fields (`Parses`): the
broadcast lacks two of them (`BroadcastFields`, `LifecycleFields`), so no event is shown
live and `items` is what polls brought. `Slice` keeps the first `maxItems` of an answer,
and the log is listed oldest first. `resync` is the newest event when the hook last noticed a
loss; `excuse` is why the page may lack events up to it: no slot was free for the poll, the
poll failed, an older answer came after a newer one, or the log outgrew the list.
`LossRepairedOrExplained` says that nothing else leaves a noticed loss unrepaired.

**ApiTransport.** `call` holds a record for each place of a concurrent call (where
it is in `requestJson`, its attempt, and what the server made of it), `circuit` is
`circuitState`. `failed` and `wasted` are histories. `Begin` is
`assertCircuitAllowsRequest` with its three ways through (a call turned away changes
nothing and is no step); then come the await of the credentials (`Send`,
`HeaderFails`), of the answer (`AnswerOk`, `AnswerRefused`, `AnswerServerError`,
`NoAnswer`), of the body (`ReadBody`, or `NoAnswer` again) and of the back-off
(`NextAttempt`). A server error that ends the call is counted twice: it is thrown
inside the `try` whose `catch` counts too (`Counted(2)`). The clock is what remains
of the cool-down. Whether the server carries a request out is chosen when it is
sent, so a late effect counts for its attempt. The mark `probe` is dropped from
older calls when a new half-open period begins.

### 2.3 From an intent to the books

**RiskExec.** The `channel` between the publishers and the one subscriber, the
guard's `turnover`, the authority's `audit` trail, the decision at hand (`pending`:
the publish is awaited) and the published `decisions`; `approved` is a history. An
intent is a strategy, a quantity and one flag for the authority's other rules.
`Consume` is everything `_consume_intent_payload` does before its await;
`Malformed` payloads end the consumer (`Reject`); `Start` is a new process with
empty memory. Drawdown, concentration and slippage are read with `getattr` from
an intent that has no such fields, hence always 0: only the turnover rule can
fire, and `de_risk` is out of reach.

**PaperExecution** has one action, `ProcessIntent`, with the slices, the queue
ahead and the stored result, and `RestartEngine`. **ExecutionEngine** is
`process_fill` as an operator applied to every order, event, policy and model of
the instance. **ExecutionAnalytics** keeps the sums (`BookEvent`) and books all
again in time order (`ReconcileFull`); the stable sort gives each event the place that
the events before it leave (`Earlier`, `Placed`), and the history `arrived` counts what
came in. **PortfolioState** reads Redis group by group
(`ReadSome`) while the bridge, which is outside the repository, writes (`Write`).
**BacktestReplay** runs a session and, next to it, the log that will be replayed
with one event lost, doubled or late; both books are the operator for
`replay_backtest` applied to their logs.

### 2.4 Stores

**EventLog.** The list of records is the set of its records, since they are ordered
by their offset and a purge keeps the order; `Index` recovers a record's place in
the list. `AppendNew` and `AppendAgain` are the two branches of `append`,
`ApplyRetention` archives and then purges, `Tick` moves the clock.

**FeedIngest**: a tick is new, repeated or invalid (`IngestNew`, `IngestDuplicate`,
`IngestInvalid`). One without an `event_time` happens when it is received, so the same tick
received again at another time has another key and is a new event; `NoDoubleEvent` is
about ticks that have a time. When the set of keys grows over its limit any
subset of the size to keep may stay, since the code keeps what a Python set gives.

**BarCache**: a job fetches in chunks, then writes day by day part and manifest,
each a step, and registers; any job may die anywhere (`DieInJob`). A part is written in
place, so it is first half a file (`half`), on which every reader of the tree raises
(`Readable`), and then whole; after a death it stays half. Rows of a file are
told apart by the chunk they came with, which is what makes two copies of a bar two.
Truncating the manifest and writing it are two steps, as `write_text` makes them.

**DataRequests**: each request is a look at the catalog and a commit, on threads. The
primary key of a row is the key the client chose or the id of the data set, and both are
strings a client may send: the properties except the answers whose key, or whose data
set's id, a client used for another data set (`Clashes`). The training router's own
requests for missing ranges come after the exception of section 1.2 and are no part of it.

### 2.5 Control plane

**Alerts** (an alert awaits its routing before it is published), **Deployments** (the
log line is written after the await, from the status by then), **StrategyControl**
(no awaits: each handler is a step). **SchemaStartup**: `Boot(p)` is the next
statement of process `p`'s start, `Fall(p)` a crash or redeployment; columns that come
together are one group. **GraphView**: a seeding reads table after table, then inserts;
`enforced` says which database it is. A neighbourhood changes nothing stored: it is the
function `Search`, whose value after `k` is the queue and the distances after `k` turns of
the request's loop (`Visit`). The order of the neighbours of one node is any order,
where the code sorts them by name; the property does not depend on it.

## 3. Runs

Deadlock is not checked in any run: requests, events, intents and time are bounded,
and the system may stop when clients do. A property of a large instance is often the
conjunction of a component's named parts (`BreakerSound` of `ReopensAtOnce`,
`OpensOnFailures` and `ProbeSlots`; `SplitsClean` of five); the parts are defined
above it in the module, each with what it says.

| Run | Question | Bounds |
|---|---|---|
| `jobs_operator` | is an envelope ever in two places (`SingleOwner`), lost (`OpenJobCarried`), or an ended job set back (`NoStepBack`)? Does a run row disagree with the log for any other reason than a race of handlers (`RowErrsByRaceOnly`)? On the page that follows a job, is a noticed loss repaired, or is there a reason (`LossRepairedOrExplained`)? | two jobs, one run, both workers, one RUNNING stage, five requests of seven kinds, three bodies of `POST /jobs` (a job of each worker for a training row, one no worker takes), no faults; a page with three events of three kinds, a window of one, two polls at once, a list of two |
| `jobs_faults` | do memory and log agree (`TypeOK`, `StoreCoherent`), can anybody get a success past the gate (`RowSuccessGated`), is a success decided while nothing has failed (`SuccessDecided`), and is every envelope delivered at most once (`DeliversAtMostOnce`, the refinement)? | two jobs, one run, research worker, three requests of seven kinds (sweeps and posts of other clients among them, with sound, malformed or no evidence, that name the job's own run, a training row or a sweep's), one fault of six kinds |
| `live_updates` | does every job of a consumed type end (`JobsEnd`)? Is a resumed stream complete or the loss noticed (`StreamComplete`), and does every event reach the client (`EventReaches`)? | jobs: two, one of a type nobody takes, two stages, slow posts and time-outs (two faults); stream: window of two, four events of two topics, two lost connections, one restart |
| `services` | from an intent to the books: `GuardHeld`, `IntentDecided`, `OrdersKept`, `RealizedAtOffset`, `CacheCatchesUp`, `FillsFair`, `AnalyticsTrue`, `ReplayTells`; the stores: `LogKept`, `FeedTrusted`, `CacheFaithful`, `RequestsKept` | a limited and an unlimited strategy, three intents, one stop; three paper calls of sizes 5 to 7 behind a queue of 5, one restart; three writes under a snapshot, one restart; one fill of every kind; three executions; four replayed events; log of three keys, archive after 1, purge after 2, clock to 4; two streams of six ticks, one without a time, clock to 3; two fetch jobs over three times in two days, one retry; two callers, two answers, eight payloads (two of them keyed by what is another's primary key) |
| `control_plane` | `BreakerSound`, `BreakerMoves`, `CreatedOnce`; `AttemptsClean`, `AdmissionGuarded`, `RunsQualified`, `SplitsClean`, `ArtifactsKept`; `StatusTraceable`, `StartsGuarded`, `AlertsOrderly`; `SchemaServed`, `LegacyIsServed`, `GraphExact`, `TopologyServed` | two calls under the default policy (threshold 4, two probes, two retries), cool-down one; one training job of five payloads, one post given up on and two that fail; thirteen backtest requests, six data sets and seven configs; two jobs with artifacts of one run under one type or two, two days; two deployments, five events; two overrides and decisions; four alerts, a ladder in two units of time; two API processes with two falls, any legacy schema of eight groups; two requests that seed, depth three |
| `runs_enqueued` | violated: `RunsEnqueued` | one training run |
| `ws_restart` | violated: `OutsideWindowAnswered` | three events, one lost connection, one restart |
| `stream_fallback` | violated: `FallsBackToPolling` | one page whose socket fails, back-off below the interval |
| `event_log_again` | violated: `AppendIdempotent` | three keys, clock to 5 |
| `training_preflight` | violated: `MatchingLineageAccepted` | as `control_plane` |
| `transport_retry` | violated: `NoDuplicateEffects` | one retry of a job |
| `fresh_database` | violated: `FreshIsServed` | two processes, one fall |

Why the bounds are enough: two jobs are the least for a retry (a second id on the
same run) and for one envelope to rotate while another waits; five requests allow a
row, a job of it, cancel, retry and one more; one fault of each kind, at every point of
every sequence, shows what that fault does alone; the proofs of the same invariants
cover any number of them. A window of two with four events lets a cursor be inside
it, at its edge and beyond it; a page with a window of one is refused a replay after
two events, and a list of two is outgrown by the third. Three intents give the sequence
accepted, blocked, smaller one after.
The instance deals ten entities at most, none of a rounded-down size: the theorem covers
those. Three keys let a record pass every cutoff while younger ones remain. Two concurrent
calls let one from before the breaker opened meet a probe, and fill the probe
budget; the number of calls is not bounded. One post given up on can arrive after any
later one. A key limit of two
with one kept prunes at the third tick. Two fetch jobs overlap in every way a third
could; two days have a boundary. Four alerts are the two the store is seeded with
and two that meet in the suppression window. Two processes and two falls let a
process fall while the other is at any statement. Symmetry is declared only where no
temporal property under fairness is checked.

Fairness. `JobLifecycle!Fairness`: the event loop runs every handler on, the network
delivers what it does not lose (losing is a bounded fault), and a worker with
something to do does it; these are the loops `while True` of the workers and
asyncio's scheduling. It is weak, and enough for one worker type: with two types
polling one list each could pop only the other's envelopes for ever, which only
strong fairness excludes, and Redis does not promise that; `live_updates` therefore
has one worker next to an envelope nobody takes. `WsReplay!WsFairness`: send tasks
and the endpoint run on, and the client reconnects and reads. `RiskExec!LiveSpec`:
the consumer loop runs on; that the service is started again is not assumed.
`ApiTransport!Fairness`: every await ends (an attempt's by its timer, a back-off's by
its timer; the token storage is taken to answer or fail), and the pages poll, so
some call is made again and again. `PortfolioState`: the service's loop and the
control plane's reader task go on. `SchemaStartup!SchemaFairness`: a container
that exits is started again (its restart policy) and its start goes on.
`GraphView!GraphFairness`: a request that seeds goes on, and comes again.
`TopicStream!StreamLiveSpec`: React renders, a socket opens or fails, timers fire.

## 4. Proofs

All theorems hold for every value of the constants that satisfies the module's
assumption on them (sets of any size, bounds of any size). Most, `RequestConstants` among
them, state only the types of the constants and that `NoRun`, `NoJob` and `None` are no
real values. Those that say more say what the code or its configuration gives: the
default chunk of the provider fits one answer (`ChunkFits`; an environment variable can
break it), a checksum a client reports is never the digest of a reference
(`ArtifactConstants`), a parameter has one value in a request
(`QualificationConstants`), the base columns are no late group (`SchemaConstants`), a
shuffle permutes and a process ranks every entity (`EntityAssumption`), only a share of
at least one is rounded down (`ShareAssumption`), a walk has sizes and a step above zero
(`TimeAssumption`), and the jobs of the cache, the ticks of a feed and the tickers of the
analytics are finitely many.

Each theorem is an invariant of its component's specification by the same argument: a
stronger formula holds at the start, is kept by every action, and implies the property.
The parts of it that TLC can evaluate were tried on the component's instance
first. No property of section 3 is inductive alone; what each needs is said here.

### 4.1 Jobs

`JobLifecycle_proofs`, for any faults: `TypeCorrect`, `MemoryAgreesWithLog`
(`StoreCoherent`), `OneOwner` (`SingleOwner`), `AtMostOneStart`, `SuccessIsGated`
(`RowSuccessGated`), gathered in `InductiveInvariant`. Types need how far a worker is in
its posts (`WorkerCounts`) and what a waiting handler may still write (`CallShapes`).
One owner needs that nothing mentions an id before it is minted (`Untouched`: a retry
must not find its new id anywhere), and one start needs that a started envelope never
waits again (`StartedIsGone`). The gate's invariant rests on `CallShapes`: only `Sync`
can write a success on a row, that of the run its event names, whoever named it.

While nothing has failed: `SuccessAlwaysDecided` (`SuccessDecided`), with any clients: a
success in the log has passed the gate, is on its way through it, or made it raise.
`NoJobLost` (`OpenJobCarried`), `RowsErrByRace` (`RowErrsByRaceOnly`) and `NoJobStepsBack`
(`NoStepBack`) are about `"publish" \notin Requests`: no client but the workers posts
events. It is needed, not convenient: any client may post `failed` for a job that waits,
`queued` for one that has ended, or a status for the row of another job's run, and then
each of the three is false; the run `jobs_operator`, which checks them, has no such posts
either. They follow from `CalmInv`: an event names what its envelope names (`NamesOwn`); a
job with an end was started (`StartedFirst`); a worker has one post or one handler of it
under way (`OneUnderWay`), so the log ends with its last post (`EndsLast`); what is still
to be written by a cancel is cancelled, by the gate failed, and by a retry queued, with
the names of an older job (`LateWrites`); and a row holds the status of a job that names it or of a
handler that is still to write (`RowFollows`).

`JobRefinement_proofs`: `ImplementsDelivery` (`DeliversAtMostOnce`). Initial states map to
initial states, and each action of `JobLifecycle` maps to a step of `JobDelivery` or a
stutter; the inductive invariant above is what makes `PlaceOf` a function of one place (an
envelope in the list is with no worker).

### 4.2 Live updates

`LiveUpdates_proofs`: `StreamCompleteHolds` (`StreamComplete`). Of each client: its queues
are in order except while a replay mixes with live sends (`Ordered`), its cursor is not
ahead of the server within one life of it (`CursorCounts`), and each event after the
one it began with, up to the cursor, was received or lies before a number whose loss it
noticed (`Accounted`); a
client without a cursor has all since it subscribed (`FreshComplete`).
`LossesRepaired` (`LossRepairedOrExplained`): while there is no excuse, every event of the
job up to the loss noticed last is `Coming`: on the page, or in a poll begun for a loss
that is still to be answered or was answered with a log that has it. It needs that no event gets on
the page by itself (`NeverParses`), so that no live event can push one off the list, and
that the log is in order (`PageTyped`).

`ApiTransport_proofs`: `TypeCorrect`, `ReopensFromProbe` (`ReopensAtOnce`),
`OpenedByFailures` (`OpensOnFailures`), `BudgetKept` (`ProbeSlots`), together
`BreakerIsSound` (`BreakerSound`), and `SingleEffect` (`CreatedOnce`), from
`InductiveInvariant`. `OpensOnFailures` needs that a failing call counts at most twice
(`CountedTwice`); `CreatedOnce` that the effects of a call never run ahead of its attempts,
nor the attempts ahead of its limit (`CallShapes`).

### 4.3 Control plane and training worker

`ControlPlane_proofs`:

| Theorem (property) | What the inductive invariant adds |
|---|---|
| `AttemptsStayClean` (`AttemptsClean`) | which posts are under way and which the worker waits for: what it does not wait for has arrived, failed or was given up on (`FlightTrue`); what has been posted by each stage, the verdict and what may follow it (`StoryTrue`); what has been written by each stage, and that a refused lineage never gets past the preflight (`BackedTrue`) |
| `AdmissionAlwaysGuarded` (`AdmissionGuarded`) | the client's tokens are those of estimates, and an answer is that of its request and token (`AdmissionInv`), so that a request answered 500 has passed each check (`PassedChecks`); what an estimate counts (`UnitsNamed`), and that two requests with one token ask for the same size, symbols and days is a lemma on the estimate |
| `RunsStayQualified` (`RunsQualified`) | stored configs are valid and an accepted run was judged by its own config and data (`TakenWell`) |
| `ArtifactsStayKept` (`ArtifactsKept`) | reports and reads are on record with their day (`Kept`), under whichever run and type they name; and a row whose checksum is that of a reference names that file and the job that wrote it (`OwnReference`) |
| `StatusAlwaysTraceable` (`StatusTraceable`) | the topic ends with the present status (`TopicEnds`), the log does or a handler is still to write it (`LogEnds`) |
| `StartsAlwaysGuarded` (`StartsGuarded`) | overrides are the trail newest first (`NewestFirst`), each decision is that of the override in force (`DecidedWell`), and starts and stops of an instance alternate in the log (`LogInOrder`) |
| `AlertsStayOrderly` (`AlertsOrderly`) | the latest emission is the one noted (`EmissionsNoted`), and the records of a climb stand in a row (`ClimbStands`) |
| `SplitsStayClean` (`SplitsClean`) | a process holds nothing or the one deal of the request and its seed, in which the hash order does not occur (`Dealt`, `DealsHeld`, `DealsAgree`); the folds so far test the rows they cover once each and give up exactly the near ones (`FoldsMade`, with `Cover` for how far the folds have come); the windows so far are those of the sorted list (`WindowsMade`) |
| `GraphStaysExact` (`GraphExact`) | a run a request has read names a model config that is there, and what it will insert needs no node but those stored and its own (`Prepared`); that a search is exact is a lemma for any finite set of edges, seed and depth (`SearchIsExact`) |
| `SchemaAlwaysServed` (`SchemaServed`) | for each way a database began, what its version tells of its columns (`NobodyStands`, `LegacyStands`, `ManagedStands`) and what a process that has come so far in its start may assume (`StartsStand`) |

The lemmas under the last two do what a test cannot. `ListedInOrder`: `Listed` is a
bijection onto its set, sorted and stable (a place is the number of members ahead, and
these numbers differ). `ShareFits`: the shares of the parts never exceed the entities, also
where one is rounded down. `CutApart` and `GatherExact`: the parts are disjoint and
together everything. `CoverGrows`, `AllTestedOnce`: the borders of the folds meet, with
fewer rows than folds too. `BetweenCount`: between two times of a window lie as many
rows as its places. For the search, `SearchTurns` and `ReachedTurns` show by induction
over the turns that both recursive functions exist and do what they say (a function
defined on `0..n` by its predecessor needs `LoopExists`); `VisitKeeps` is the invariant of
breadth-first search (`Exploring`: the queue is in the order of distances, nothing
visited is more than one behind its head, and what has left it has given all its
neighbours); `SearchEnds` counts: each turn takes a node that was never taken before
(`Paired`), so there are no more turns than nodes and the queue is empty at the end.

### 4.4 Services

`RiskExec_proofs`: `TypeCorrect`, `LimitKept` (`TurnoverHeld`) and `BlockedIsFinal`
(`BlockedStays`), together `GuardIsHeld` (`GuardHeld`). What was approved has been counted
(`ApprovedCounted`), and a blocked strategy is beyond its limit, where it stays because
refused intents count too (`BlockedExceeds`). The decision at hand belongs to the sequence
of decisions (`BlockedRefused`).

`Services_proofs`:

| Theorem (property) | What the inductive invariant adds |
|---|---|
| `FillsStayFair` (`FillsFair`) | the last call is one of the engine's; the rest is arithmetic of the fill, with monotone integer division, for any two events of which one is busier |
| `RealizedStaysAtOffset` (`RealizedAtOffset`) | a build that has read the fills holds the sum up to the offset it read (`BuildTrue`), which stays true when the stream grows |
| `FeedStaysTrusted` (`FeedTrusted`) | the keys a stream remembers are those of its events, and it forgot some only after there were more than the limit (`MemoryTrue`); calm events come no further than the highest number (`CalmBelow`); an answer leaves a heartbeat of its interval (`HeartbeatsKept`) |
| `RequestsAlwaysKept` (`RequestsKept`) | a row is what some look asked for, under its key or its data set's id (`RowTrue`, `PlaceTrue`), with its partitions (`PartitionsTrue`); a caller about to insert and every answer were looks (`AskedTrue`, `AnswersTrue`); so a row under the key or the id of an answer is of its data set, or a client's key stood for two (`FoundOrClash`) |
| `CacheStaysFaithful` (`CacheFaithful`) | how far each job is in its fetch, its files and the catalog (`FetchTrue`, `PartsTrue`, `RefsTrue`), that a half file is that of the part its job is at (`HalfTrue`), that the chunks of a job do not overlap (`Spaced`), and that a writer whose writing overlaps nobody's has read all of the manifest (`ManifestTrue`); copies of a bar are counted by mapping them to jobs one to one |
| `NothingIsLost` (`NothingLost`), `KeysAreUnique` (`OneRecordPerKey`), together `LogIsKept` (`LogKept`) | the index still names the record of a key after the record was purged, and an offset is given out once (`IndexNames`) |

`Accounts_proofs`. Sums and folds of the community modules are recursive functions over
sets that pick an element by CHOOSE; by induction over the cardinality they exist
(`SumExists`, `FoldExists`) and do not depend on the order of the picks
(`SumInAnyOrder`), from which follow the facts the components need: a sum when one term
changes, is added or taken away (`SumChanged`, `SumOneMore`, `SumAppended`).

| Theorem (property) | What the inductive invariant adds |
|---|---|
| `OrdersStayKept` (`OrdersKept`) | what a life answered is what it keeps under the key (`AnswerTrue`), and every kept result is an order filled in equal slices or not at all (`KeptOrder`); that the slices stay within the order is arithmetic (`SlicesAlike`) |
| `AnalyticsStayTrue` (`AnalyticsTrue`) | each total is a sum over the events (`SumsTrue`) and each point of the curve an integer; reconciliation permutes the events (`Placing`: the places of a stable sort are a bijection) and books them in turn (`RunIsTrue`); the drawdown is the deepest fall by induction over the points (`DepthHolds`) |
| `ReplayStaysTold` (`ReplayTells`) | positions, cash and both checks of a book agree with its orders (`Balanced`), which every event keeps that replaces no filled order; ids nobody chose are within the number of orders (`IdsFollow`); the two books are equal, or have the same ids and are one fee apart (`FaultKnown`), and equal ids charge equal fees from then on |

### 4.5 Model-checked only

Liveness under fairness is out of the prover's reach: `JobsEnd`, `EventReaches`,
`IntentDecided`, `CacheCatchesUp`, `BreakerMoves`, `LegacyIsServed`, `TopologyServed`.
Every invariant and every action property of a passing run has a theorem. The
properties of the runs that expect a violation are false, and nothing is proved of
them.

## 5. Where the code and the repository's claims part

* **A training run is stored and nothing follows** (`runs_enqueued`). The row is
  committed, then the answer is built from columns the table does not have: 500, no event
  and no envelope, and the row stays queued; `docs/architecture.md:138-139` has the row
  followed by both. Testing runs fail alike.
* **A cursor from before a restart is taken as up to date** (`ws_restart`).
  `docs/adr/ADR-ws-http-connectivity-contract.md:51` promises `replay_required`.
* **A page whose socket fails need not poll** (`stream_fallback`). Every render
  begins the connection and the interval of polls anew;
  `docs/runbooks/tauri-backend-connectivity-baseline.md:14` says the hook falls back.
* **An append after a purge returns another record or raises** (`event_log_again`).
  The class calls its appends idempotent (`gb_core/event_log.py:51`).
* **No lineage a client can compute passes the training preflight**
  (`training_preflight`). The digest is compared with that of the request that
  contains it; the worker's orchestration test expects success.
* **Retrying a job may create two** (`transport_retry`). The path of the retry
  request has a prefix of the list of retryable POSTs, and each carried-out request
  mints a job; `docs/adr/ADR-transport-contract-v1.md:104` rules duplicate side
  effects out.
* **An empty Postgres never comes up** (`fresh_database`). Migration 0006 alters
  `testing_runs`, which no migration creates; all of it rolls back and the container
  starts again for ever. `docs/runbooks/server-deploy.md:62` starts a new host so.

## 6. Other things the models show

No run is about these; where one is an exception to a property, the property names it.

* **Jobs.** Nothing compares the run and the run type of `POST /jobs` with a row or with
  the job type, and a client's event may name another run than its job's: it writes that
  run's row. Evidence with a seed that is no number makes the gate raise after the success
  was recorded: the answer is 500, the log says success and the row was not touched.
  A worker's success fails the gate, since workers send no lineage, although
  `docs/architecture.md:141` has it mark the run. A lost terminal post leaves a job
  running. A parameter sweep does not store its submission, so it cannot be retried.
  Cancel leaves the envelope in the list and the job runs on, and any status may follow
  any other, although
  `docs/architecture/deterministic-pipelines.md:21` calls transitions forward-only.
* **Backtests.** A request that passes every check is answered 500: the run handed to the
  repository names a column the table does not have. Nothing is stored, while
  `apps/api-control-plane/tests/test_backtest_runs_api.py:58` expects 201.
* **Transport.** A half-open breaker whose probes all end in a refusal (a 401, a 404)
  or without credentials turns every call away from then on, unless an older call
  still under way succeeds or fails: `BreakerMoves` names exactly this exception. Two
  calls ending in a server error open a breaker whose threshold is four.
* **Training.** A time limit that strikes while the post of the verdict is awaited adds
  a second one: a job gets success and then failed, or failed twice (`OneVerdict` names it).
  A RUNNING whose await was cancelled may arrive after the failure and is then the job's
  latest event.
* **Page.** No live event of a job is ever shown: the parser asks for two fields the
  broadcast lacks (`LifecycleFields`, `BroadcastFields`), and an event it refuses moves the
  cursor without a gap, so nothing polls for it; `desktop/pages/JobsPage.tsx:20` announces
  live updates. An answer to a poll replaces newer events that came after it was asked, and
  of a log longer than the list the oldest events are kept. After an effect ran again
  the next event asks for a resync although nothing was missed; the count of attempts
  never grows, since each render begins a
  new connection.
* **Risk.** A restart gives every strategy its whole limit again. The audit trail
  keeps "approved" for a decision the guard turned down and published as refused.
* **Paper and portfolio.** Fills take their share of the whole free quantity although
  a queue was ahead, and the sum of floating-point slices decides whether a filled
  order also ends as canceled. The production path reads the oldest 500 fills, the
  other the newest 200.
* **Splits.** Two processes that materialize one request give each part the same rows
  (`SameSeedSameParts`) but in different orders, since each part is read off a Python
  set of strings; the docstring calls the split deterministic. A walk-forward step of
  zero would walk for ever.
* **Strategies.** A newer override with only a notional hides an older one with a
  quantity.
* **Requests.** A reused key with other contents is answered `already_exists` and
  names a data set that is not stored, and so is a key equal to another data set's id
  (`Clashes`). Partitions are made of the first resolution only.
* **Artifacts.** The run type is part of a row's key, so one content of one run is kept
  twice where events name two types, and a client can file a job's file under any run.
* **Market data.** While a part is being written, and for good after a death, whoever
  scans the tree of bars meets a file that does not parse. A tick without an event time
  is a new event whenever it comes again.
* **Schema.** A database that came by migrations lacks columns that only the repair
  adds and has constraints the defaults of the classes violate; `ServesItsModels`
  names it.
* **Graph.** Two backtests of one strategy and model give one edge key twice, and
  topology fails from then on (`TopologyServed` has it as a condition). The graph stays
  as it was first seeded; the neighbourhood of a node whose edge leads to a model
  without a row fails.

## 7. What is not modelled

* Query service, connection supervisor, orchestrator and inference: they read, or
  show, or run beside the rest; `PROJECT.json` says why for each. The orchestrator
  pops the same list as the workers but the production compose file does not start
  it; where it is started, envelopes it takes are lost to `JobLifecycle`.
* Create-and-read routers with one row per request (parameter sets, catalog, task
  catalog, lineage records), authentication, audit log, health and logging.
* Model adapters and research metrics: numerical code without state.
* Desktop pages, the Tauri shell, and the deployment files.

Within the modelled parts: database exceptions and the mode without Redis in
`JobLifecycle`; unsubscribe, ping and heartbeat of the endpoint; the page of all jobs,
which has no poll and, as its parser drops every event, shows nothing; health counters and
monitors of the risk service; costs, latency and calibration of the execution engine;
average prices and rounding of the replay; statistics of a materialized bundle; downgrades
of the schema; dataset nodes of the graph. Prices are left out wherever no comparison uses
them.

## 8. Plan

Modelled: every part of the inventory but those of section 7, and every invariant the
runs check is proved. What is left, in the order of its worth:

1. `TopicStream` as the client of `WsReplay` in one composed instance, with the page
   of all jobs.
2. The orchestrator as a third consumer of the list.
