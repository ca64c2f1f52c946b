# TaskOwl: specifications, model checking and proofs

TaskOwl consumes the event stream of a Celery cluster, keeps it in two
append-only tables, answers queries about tasks and workers from them, and runs
user-defined *automations* on the events. This directory holds TLA+ models of
the parts of it whose behaviour depends on interleaving, failure and time, the
TLC runs that check them, and proofs of their main invariants for TLAPS.
Every definition is translated from the Python source (paths below are relative
to `src/taskowl/`); `PROJECT.json` maps each one to its lines.

## 1. Inventory

| Component | State | Operations | Interacts with |
|---|---|---|---|
| Ingest handlers (`consumer/handlers.py`, `models.py`) | rows of `task_events`, `worker_events`; unique `dedupe_key` | eleven `handle_*`, all one `insert_event` | called by the consumer as coroutines; PostgreSQL's unique index |
| Retention (`maintenance.py`, `maintenance_cli.py`) | none of its own | `prune_events`: batched deletes of three tables | the consumer's daily loop and the `taskowl-prune` command, possibly at once |
| Workflow engine (`workflow.py`) | rows of `automation_runs`; `_offline_notified` in memory | `evaluate_event`, `evaluate_periodic`, `mark_online`, the `_fire_*` actions | called once per handled event and by the periodic loop; reads `automations`, posts webhooks, calls the task actions |
| Automations (`automations.py`) | rows of `automations` | create, update (read, merge, validate, write), toggle, delete, status, seed | HTTP API, MCP tools, consumer start (seeding) |
| Consumer (`consumer/receiver.py`) | `running`, `shutdown_event`, `connection`, `recv`, two loop tasks | capture thread with reconnect, `_handle_event`, the loops, signal handler | everything above, across a thread boundary |
| Queries (`queries.py`) | none | current state of tasks and workers, orphans, chains, summaries | reads both event tables |
| Task actions (`actions.py`) | none | revoke, retry, execute | reads the event tables, sends messages to Celery |
| Metrics (`metrics.py`) | none | one scan per scrape | reads all tables |
| Alerting payloads, live inspection, queues, HTTP API, auth, MCP, config, database | none, or I/O only | formatting, pass-through | - |

What is hard about it:

* **Concurrency.** The capture thread schedules one coroutine per event; they
  interleave at every await with each other, with both periodic loops, and with
  operators who work through another process.
* **At-least-once delivery.** Events come twice, late and out of order.
* **Check-then-act.** The engine's cooldown, rate limit and circuit breaker ask
  the committed run log and record their own firing only at the end of the
  evaluation. Update and toggle of an automation read, then write.
* **Partial failure and crashes.** Handlers roll back; an exception leaves an
  evaluation between a dispatch and the record of it; a consumer dies in the
  middle of all this.
* **Time.** Retention counts in event time, runs in the start time of their
  transaction; worker liveness and orphan detection compare with the clock.

What makes each component correct:

* ingest: one row per key, and no event lost to a row that is then rolled back;
* retention: only expired rows go, all of them go, and no live task changes its
  current state;
* engine: the safety knobs hold as far as the concurrency allows, every dispatch
  is recorded, periodic automations keep to their schedule and are all served;
* automations: a definition in the table is always a valid one, the status view
  agrees with the run log, seeding twice creates nothing twice;
* consumer: a stop request ends the process, a broken connection is retried;
* queries: one current event per task, the same in every view; a task is
  orphaned only when its worker is gone.

## 2. Modules

| Module | Contents |
|---|---|
| `RetainedLog` | the abstract promise of the event tables: `Record`, `Expire`, `Tick` |
| `EventLog` | ingest transactions, prune passes, crashes; implements `RetainedLog` |
| `MCEventLog` | instances of it for TLC |
| `EventLogProofs` | its theorems |
| `WorkflowEngine` | evaluations of automations, with operators and crashes |
| `MCWorkflowEngine` | instances of it for TLC |
| `WorkflowEngineProofs` | its theorems on types, the cooldown of one process, and how evaluations advance |
| `WorkflowEngineLimitsProofs` | those on cooldown, rate limit and circuit breaker across processes, and on what they need of the run log |
| `WorkflowEngineLogProofs` | those on the run log and the schedule |
| `OfflineSweep` | the `check_workers_offline` action beside the handlers of worker events |
| `OfflineSweepProofs` | its theorems |
| `AutomationTable` | the abstract promise of the `automations` table: `Add`, `Change`, `Remove` |
| `Automations` | requests of operators and seeding consumers, statement by statement; implements `AutomationTable` |
| `MCAutomations` | an instance of it for TLC |
| `AutomationsProofs` | its theorems |
| `Consumer` | the consumer process: threads, signal handler, broker outages |
| `MCConsumer` | an instance of it for TLC |
| `ConsumerProofs` | its theorems |
| `TaskViews` | the queries, the metrics gauge and the task actions over the event tables |
| `MCTaskViews` | an instance of it for TLC |
| `TaskViewsProofs` | its theorems |

### EventLog

| Model | Code |
|---|---|
| `rows` | committed rows of `task_events` and `worker_events` |
| `handler[h]` | a `_handle_event` coroutine: its event, and the uncommitted row it `wrote` |
| `pruner[p]` | a pass of `prune_events`: cutoff, table, batch selected by the running `DELETE` |
| `due` | history: what had expired when the pass started |
| `nextId`, `now` | id sequence, clock |
| `Deliver` | capture callback: `run_coroutine_threadsafe(_handle_event)`; a missing timestamp becomes the current time |
| `Insert`, `Commit`, `Fail` | the two statements of `insert_event`; the `except` of `_handle_event` with the session's rollback |
| `StartPrune`, `SelectBatch`, `DeleteBatch` | `prune_events`; subquery and effect of the `DELETE` in `_prune_table` |
| `Crash`, `Tick` | end of the consumer process, which rolls back open transactions |

The insert models PostgreSQL's behaviour: an insert of a key that an open
transaction holds waits (`KeyLocked`), and then finds the key stored or free.
The selection and the effect of one `DELETE` are separate steps because the
statement works from its snapshot: rows deleted by another pass in between are
not counted. The eleven handlers differ in the columns they copy, which no
property tells apart; an event is a record with a table, type, subject, host and
timestamp, that is, with what its key is built from. Two parsing failures that
make a handler raise before its insert (a malformed uuid, a missing hostname)
are instances of `Fail`. Event times may lie before, at or after the clock, and
both kinds of skew the retention guide mentions occur.

### WorkflowEngine

| Model | Code |
|---|---|
| `exists`, `enabled`, `Config` | rows of `automations` (one of `AtStart` initially), their flag, their (fixed) definitions |
| `runs` | committed rows of `automation_runs` |
| `proc[p]` | one evaluation: its step, its `now` (`at`), the loaded automations still `todo`, the one under decision, and the `pending` runs of its open transaction |
| `del[d]` | a request that deletes: its step, automation, and the runs its `DELETE` has taken |
| `fired`, `late` | history: dispatches that reached the outside world; runs committed after their automation had gone |
| `HandleEvent`, `StartPass` | `_handle_event` after the insert; one turn of `_periodic_automation_check` |
| `Load` | the `SELECT` of enabled automations and `now = datetime.now(UTC)` |
| `ConditionsPass/Fail/Raise`, `NotDue` | the head of the loop of `_evaluate_event` and `_evaluate_periodic` |
| `CheckBreaker`, `CheckCooldown`, `CheckRate` | one query each against the committed runs |
| `Dispatch` | `_dispatch_actions`, then `session.add` |
| `CommitRuns` | `session.commit()` |
| `Fail` | a query or the commit raises, up to the `except` of `_handle_event` or `_periodic_automation_check` |
| `SetEnabled` | commits of update and toggle |
| `AskDelete`, `DeleteRows`, `CommitDelete`, `FailDelete` | `delete_automation`: the look-up, the two `DELETE`s, the commit, or the session closed without one |
| `Crash`, `Tick` | the consumer process ends; time passes |

Some points of the translation deserve a word. `created_at` is the server
default `now()`, in PostgreSQL the start of the transaction, which the load
opens: a run carries the time of its evaluation, not of its commit. The `now` of
the decisions is Python's clock when the load has returned
(`workflow.py:155`, `163`). The model takes the two as one instant, so that the
knobs and the spacing are claimed up to the latency of that query. The runs an
evaluation has added are flushed to its own transaction but concern automations
it does not consider again, so only committed runs matter to the checks. And
`actions_fired = None` on a JSON column is stored as a JSON `null`, for which
`IS NOT NULL` is true (`ActionsColumn`, `CountedRuns`): this is what SQLAlchemy's
`JSON` does for an explicit `None` unless `none_as_null` is set, and it makes
every run count as one that fired.

An automation's list of actions is one step: an action that raises is caught
inside `_dispatch_actions` and still listed. One that fails in the database
leaves the transaction aborted, and the next query or the commit raises: this is
`Dispatch` followed by `Fail`, which takes the record of the dispatch with it as
any failing query or commit does.

A deletion is a transaction of two `DELETE`s: the automation's row is locked by
the first (`Locked`), the runs that go are those the second finds (`doomed`), and
until the commit everybody else still sees both. Runs committed in between
survive, as many as there are, because evaluations still load the automation;
those committed after it are at most one for each process (`late`,
`OneLateRunEach`). The model takes the two `DELETE`s as one step: between them an
evaluation can commit a run that the second one then takes. What a condition computes is abstracted to whether it holds
for the event, fails, or raises (a `matches` whose pattern does not compile).
The conditions of a periodic automation are evaluated on an empty event.

### OfflineSweep

| Model | Code |
|---|---|
| `stored` | rows of `worker_events`, reduced to worker, kind and time |
| `notified` | `WorkflowEngine._offline_notified` |
| `handler[h]` | a `_handle_event` coroutine of a worker event, before its insert or before `mark_online` |
| `sweep[s]` | an execution of `_fire_check_workers_offline`: its `now` (`at`), the hostnames left, the one at hand |
| `told`, `repeats` | history: workers alerted about since their last sign of life was stored; alerts since the last `mark_online` |
| `Deliver`, `Store`, `MarkOnline` | the handler's insert, and the lines of `_handle_event` after it |
| `StartSweep`, `LoadHosts`, `Pick`, `Query`, `Alert`, `EndSweep` | the sweep, cut at its awaits |
| `Prune`, `Crash`, `Tick` | retention, a restart with an empty `_offline_notified`, time |

Online and heartbeat events have the same effect here. `_worker_stale` orders by
timestamp alone, so a tie is answered either way (`StaleAnswers`). `WebhookClient.send`
never raises: `Alert` is the attempt. Sweeps are more than one because any
automation may carry the action, not only the seeded periodic one.

### Automations

| Model | Code |
|---|---|
| `table`, `nextId` | committed rows of `automations`, the id sequence |
| `client[c]` | a request: its operation, body, step, and the row it has `seen` |
| `seeder[s]` | a consumer's `seed_alert_automations`: the built-in at hand, the rows flushed so far |
| `ever`, `raced`, `removed`, `taken` | history: ids used, rows updated on outdated columns, built-in names operators removed or took |
| `Valid` | `_validate_automation`, for the columns it checks together or against a range |
| `AskCreate`, `CheckName`, `Insert` | `create_automation`: validation, lookup of the name, insert and `IntegrityError` |
| `AskUpdate`, `AskToggle`, `AskDelete`, `Read` | the request and its read of the row; validation of `Merge` |
| `Write`, `Delete` | the flush and commit |
| `Start`, `CheckBuiltin`, `Flush`, `CommitSeed` | `_seed` and `_ensure`, one transaction |
| `Crash` | the consumer dies while it seeds |

An `UPDATE` statement sets the columns that differ from what the session has
loaded (`Dirty`), and no others: this is SQLAlchemy's unit of work, and what
`OnlyRequested` hangs on. A flushed name excludes other inserts of it until its
transaction ends (`HeldBy`). The conditions and the actions of a definition are
left out: they are validated each by itself, and the interplay of columns is
what a race can break.

The model shows three things that a user may not expect. Two updates that each
are valid beside what they read can leave an invalid definition (`raced`). Two
toggles that overlap act as one. And a consumer whose seeding meets a built-in
name that an operator has taken in the middle of it seeds none of the built-ins
at that start.

Seeding validates nothing: with `ALERT_WORKER_CHECK_SECONDS=0` (`config.py:67`) it
stores a sweep that no request could create and that the engine never runs.
`CheckSeconds` is any integer in the model, 0 in the run, and a row that fails the
validation has either raced or is, but for toggles, as it was seeded or found
(`Unvalidated`, `Sound`).

### Consumer

| Model | Code |
|---|---|
| `main` | the coroutine `start()`: seeding, awaiting the thread, cancelling the loops, gone |
| `thread` | `_capture_events`: `test` of the loop, `connect`, `receiver` (being constructed), `open`, `capture`, `error`, `wait`, `finally`, `leave` (the `break`), `end` |
| `handler` | `handle_signal`: the receiver, then the connection |
| `stopping` | `not running`, and `shutdown_event` |
| `recv`, `should_stop` | `self.recv`, and the flag of that receiver |
| `checks`, `prune` | `_periodic_automation_check`, `_periodic_retention` |
| `broker` | whether the broker can be reached |
| `fate[e]` | `early`, `missed`: emitted without a capture; `dropped`: by the wrapper of the callback; `scheduled`, `handled`, `failed`, `lost`: a coroutine |
| `captured`, `heard` | history: capture has run; a signal found something that will stop |
| `Emit`, `HandleEvent` | the wrapper of the capture callback; `_handle_event` |
| `Start`, `CancelChecks`, `Exit` | the parts of `start()` between its awaits |
| `Signal`, `StopReceiver`, `CloseConnection` | `handle_signal`, with the capture thread going on between its lines |
| `BrokerDown`, `BrokerUp`, `ConnectionFails` | the broker, and errors of a connection |

A signal handler runs on the main thread, to its end, so the event loop stands
still meanwhile (`LoopFree`); the capture thread does not. What Celery and kombu
do is assumed as the module's head says.

The model shows a *deaf* consumer. A signal that falls between the test of
`running` (`receiver.py:102`) and the assignment of `self.recv` (line 114), an
interval that waits for the broker, finds no receiver to stop. If closing the
connection does not make that thread fail, it goes on to capture, drops every
event because `running` is false, and leaves only at the next connection error
or a second signal; its loops keep running on tables nothing is added to.
`heard` marks the signals that are not of this kind, and `StopHeard` is about
those. A stop that is heard still waits for the broker if the thread is in the
middle of opening a connection, as that retries without a look at the flags.

### TaskViews

| Model | Code |
|---|---|
| `log`, `beats` | committed rows of `task_events`, `worker_events` |
| `link` | per task that has been sent: root and parent, as its message carries them |
| `phase`, `wire` | what its worker last did with a task; events sent and not yet stored |
| `reader[r]` | a request: its step, and what its earlier statements returned |
| `ListTasks`, `GetTaskStates`, `Summary` | the state of a task in `list_tasks`, `get_task`, `get_task_summary` |
| `WorkerStatus`, `OfflineAnswers`, `OfflineMap`, `MetricsGauge` | whether a worker is offline: `get_worker_status`; `_worker_is_offline` and the same lines of `actions.py`; `_workers_offline_map`; `_populate_worker_metrics` |
| `Execute`, `Work`, `Store`, `StoreBeat` | `execute_task`, the cluster, the handlers |
| `PruneTask`, `PruneWorker` | deletes of `_prune_table`, in the order of ids |
| `AskOrphans`, `ListOrphans` | the two statements of `list_orphaned_tasks` |
| `AskRetry`, `ReadWorker`, `Send` | `retry_task`: task, worker, message |
| `AskChain`, `ReadFamily`, `ReadOrder` | the three statements of `get_task_chain` |

A statement sees one snapshot, two statements see two: between them events are
stored, out of order, and rows deleted. Views of one statement are operators
over the tables. An `ORDER BY timestamp` without an id leaves ties open (`Last`,
a set), one with the id does not (`Newest`). Celery sets the root of an original
task to its own id.

The model shows where views may differ: on equal timestamps, and in the metrics
when the offline timeout is not the 30 seconds written there. An orphan list may
name a task that ends between its two statements, as `docs/usage/tasks.md:82`
grants, and `NoFinishedOrphans` claims only what was on record before. Prune
batches go by id, so that an expired task whose events came out of order may
lose its end before its start and look stuck until the next batch. A task runs
once in the model: one that Celery retries by itself, which goes on under the
same id after its `task-retried`, is outside of what the views are checked for.
A chain shows
a member other than the one asked about with its received event, because only
that event carries the root. In the metrics, which are not modelled beyond the
gauge, the counters are recomputed from the tables at each scrape and shrink
when rows are pruned.

## 3. Runs

Passing runs:

| Run | Instance | Shows |
|---|---|---|
| `event_log` | 2 handlers, 1 pass, 3 events of both tables (one without timestamp), 3 deliveries, batch size 1, clock to 2, 1 fault | `TypeOK`, `OneRowPerKey`, `NoSilentDrop`, `PassIsComplete`, `PruneKeepsCurrent`, refinement of `RetainedLog`, `HandlersFinish`, `ExpiredRowsGo` |
| `knobs` | 2 handlers, 1 automation with a cooldown of 2 ticks, or 2 firings in 2 ticks, or a breaker of 1 in 2 ticks; 4 events, clock to 3, 1 crash or failure | `StreamCooldown`, `CooldownOvershoot`, `RateOvershoot`, `BreakerOvershoot` |
| `pair` | 2 handlers, 2 automations, 2 deleting requests, 3 events, 2 edits, 1 crash or failure, the clock stands | `TypeOK`, `DispatchesRecorded`, `OneLateRunEach` |
| `periodic` | the periodic loop, an automation beside one whose conditions fail or raise, clock to 4, 2 edits, 1 crash or failure | `PeriodicSpacing`, `PeriodicServed`, `EvaluationsFinish` |
| `offline_sweep` | 1 worker, 2 handlers, 2 sweeps, 2 events (late or repeated), timeout and retention of 1 tick, clock to 2, 1 crash | `TypeOK`, `NoOutageSwallowed`, `AlertsBounded`, `SilentWorkersAlerted` |
| `automations` | 2 requests at once, 2 consumers, 1 row at the start, the offline built-ins with a schedule of 0, 2 requests, 2 starts | `TypeOK`, `ValidUnlessRaced`, `SeedComplete`, `OnlyRequested`, refinement of `AutomationTable`, `RequestsEnd` |
| `consumer` | 2 events, 2 signals, 2 failures of the broker, 1 exception | `TypeOK`, `ExitIsClean`, `GapsHaveCause`, `StopHeard`, `Recovers`, `KeepsServing` |
| `task_views` | 1 original task, 2 retries, 1 worker, 1 request at a time, grace 0, timeout and retention of 1 tick, clock to 2, 4 events, of which 2 of the worker, any retries and 1 other request | `TypeOK`, `TaskViewsAgree`, `WorkerViewsAgree`, `NoFinishedOrphans`, `RootsAreOriginal`, `ChainComplete` |

One worker is enough for the sweep: it treats its hostnames one after the other
in any order, and what other workers add is only time between two steps, which
the interleaving has already. Two handlers are enough for the races: each of them is between two evaluations
or two transactions. In `automations` the bodies
are those that can collide: two updates that are valid one by one and not
together, a rename to a built-in name, a creation under one, an invalid
creation; two built-ins are as many as it takes to die or fail between the
first and the second. `consumer` needs its second signal for the case that the
first is not heard, and its second failure for an outage during the stop.
In `task_views` a retry of a retry is the shortest chain in which root and parent
differ; four events are a task that starts and ends beside a worker that speaks
and falls silent, and two ticks are enough for a row to expire while its worker's
last sign of life has become too old. The limits are chosen so that they are reached and passed:
a backlog of several batches, redelivery after pruning, a cooldown and windows
that end within the clock's bound, more events than the limits allow firings.
`AtStart` lets one run start from several tables of automations, so that each
safety knob is studied by itself. `MaxDeliveries`, `MaxTime`, `MaxFaults`,
`MaxEvents` and `MaxEdits` bound counters that only exist for the bound; no
property mentions them except `ExpiredRowsGo`, which ranges over the ids that
the deliveries can use, and `DispatchesRecorded`, which claims nothing once a
consumer has crashed or an evaluation has failed. The clock of `pair` stands
still because none of its properties compares times. Handlers and deleting
requests are symmetric in the engine's safety runs, and the ids of retries in `task_views`, whose properties are all
invariants. Those runs, and `automations` and `consumer`, switch deadlock
checking off: without a periodic loop the engine rests when no event is left,
requests come to an end, and a consumer that was told to stop exits.

Runs that find a violation, each of a sentence of the documentation or of a
docstring, quoted under `findings`:

| Run | Property | What happens |
|---|---|---|
| `overlap` | `OverlapIsRedundant` | five rows, batches of two: each of two overlapping passes takes a batch the other has deleted from for the end of the table, and leaves a row that either alone would have deleted |
| `cooldown_doc` | `CooldownRespected` | two evaluations pass the check before one of them has committed its firing |
| `cooldown_null` | `CooldownFollowsFiring` | a run that fired nothing counts as fired (JSON `null`), with a single handler |
| `audit_doc` | `DispatchesRecorded` | one automation raises; the runs of those that fired before it are rolled back |

The passing counterparts say what the code does guarantee. `CooldownOvershoot`,
`RateOvershoot` and `BreakerOvershoot` bound what the first race can add, by the
number of processes that evaluate the automation (`Evaluators`); the rate limit
and the breaker have it too. `OneLateRunEach` bounds the runs that an
automation can still receive once its deletion has committed, and
`PeriodicServed` excuses the loop only while an automation that raises is
enabled: such an automation ends every pass that comes to it, and those after it
are not served.

### Fairness

`EventLog`: weak fairness of each handler's steps (the event loop runs every
coroutine that is not waiting; a wait for a key ends with the transaction that
holds it) and of each pass's steps, its start included (`_periodic_retention` is
an endless loop that survives exceptions). Nothing forces deliveries, faults,
crashes or time. `WorkflowEngine`: weak fairness of each evaluation and of the
start of periodic passes (`_periodic_automation_check`, the same shape). The
order in which an evaluation takes its automations is not assumed fair, as the
query has no `ORDER BY`; that is why one broken automation can starve another.

`OfflineSweep`: weak fairness of each handler's and each sweep's steps, the start
of a sweep included: the seeded automation is periodic.

`Automations`: weak fairness of every request and every seeding transaction that
has begun; none begins by force, and a consumer may die. `Consumer`: weak
fairness of the capture thread, of the main thread, of the signal handler and of
each coroutine (two threads, and an event loop that runs what is ready), and of
`BrokerUp`: an outage ends. The failures are finite in number by their bound,
which `Recovers` needs: a broker that fails for ever at the same point would keep
any client from capturing. `TaskViews` has no fairness and no liveness property:
its requests wait for nothing.

## 4. Proofs

`EventLogProofs`, for any sets of events, coroutines and passes and any batch
size and retention:

* `TypeCorrect`: `Spec => []TypeOK`.
* `UniqueKeys`, `NothingDropped`: `OneRowPerKey` and `NoSilentDrop`, from the
  inductive invariant `IInv`. Neither is inductive alone. `NoSilentDrop` has to
  know that a prune pass only holds rows older than the retention window
  (`PassesAreOld`), and that a row and the handler that deferred to it have the
  same time (`RowTimes`, `HandlerTimes`); the latter follows from equal keys.
* `PruningIsInvisible`: `[][...]_vars` from the same invariant; the current row
  of a subject with a live row is itself live (`LiveRowDecides`), and a batch
  deletes no live row.
* `LonePassIsComplete`: under `Alone`, that no two passes exist to overlap,
  `Spec => []PassIsComplete`. `PruneInv` says what a pass has settled at each
  step: what was due in the table it has left behind is gone, and the batch in
  hand is full or has all that is due in its table (`BatchDecides`, by the lemma
  `BatchFullOrAll`). With a second pass a full batch need not stay full, and two
  passes can both end too early, which is the run `overlap`.
* `ImplementsRetainedLog`: `Spec => RetainedSpec`. `Commit` maps to `Record` (or
  a stutter), `DeleteBatch` to `Expire`, `Tick` to `Tick`; `Record`'s guard needs
  `UniqueIds` and `OneRowEach` besides `OneRowPerKey`.
* `NoCircularWait`, `WaitsEndStored`, `HandledEventsStored`: the wait of one insert
  for another's key. A holder is past its insert and waits for nothing, there is
  one holder of a key, and nobody waits for a key that is stored; a wait ends
  with the event stored, or by a fault; and a handler that commits leaves its
  event in the table, by whichever handler, or it was too old to keep. `WaitInv`
  adds to `IInv` that uncommitted rows are apart from each other and from the
  table, and of the event of their handler.

`WorkflowEngineProofs`, for any automations, coroutines and loops:

* `TypeCorrect`.
* `CooldownPerStream`: `StreamCooldown`. The invariant adds, for each process,
  what its checks have established so far (`StreamOK`): its pending firings, and
  the one it may be about to make, are a cooldown away from every firing it has
  recorded, and its `at` is not in the future. `ColumnsOK` ties the run log's column to the reason:
  without it a firing could escape the cooldown's query.
* `EvaluationsOnlyAdvance`: each step of an evaluation ends it, shortens its list
  or takes the next decision (`Advances`), so that with finitely many automations
  no evaluation is endless. This is the safety half of `EvaluationsFinish`.

`WorkflowEngineLimitsProofs`:

* `RateBounded`, `BreakerBounded`: `RateOvershoot` and `BreakerOvershoot`, from one
  inductive invariant (`LimitInv`): in any window, the firings that are committed
  and the evaluations in flight that have passed the check are together at most
  the limit plus the processes that evaluate the automation less one. `LimitInv`
  extends `LogInv`, by which a run is by a process that evaluates its automation.
* `OvershootBounded`: `CooldownOvershoot`, by counting: within one cooldown the
  map from firings to the processes that made them is injective.
* `LoneCooldown`, `LoneLimits`: under `LoneEvaluators`, that no two processes
  evaluate the same automation, `CooldownRespected` holds as the documentation
  has it, and the rate limit and the breaker are exact (`LimitsRespected`). That
  is a periodic automation of a single consumer, or one event at a time;
  `cooldown_doc` shows the cooldown without it.
* `DispatchCooldown`, `DispatchLimits`: the same bounds for `fired`, what was
  dispatched, instead of the run log. They join the above with
  `RecordedUnlessRaised`, and so hold under `NoneRaises` until a crash or a
  failed evaluation; the automations deleted meanwhile are left out, as their runs go with them.
* `RetentionKeepsDecisions`: about one state and the operators of the decisions.
  If a pass removes only runs older than every knob of an automation reaches back
  from the start of an evaluation (`NothingBefore`), `CircuitOpen`, `CoolingDown`,
  `RateLimited` and `Due` answer as before. It says how far the engine model's
  undiminished run log is from the real one: not at all with such a retention.

`WorkflowEngineLogProofs`:

* `LoopsKeepSchedule`, `LateRunsBounded`: `PeriodicSpacing` and `OneLateRunEach`,
  from `LogInv`: only a process adds runs of its own, so what its query told it
  stays true until its commit, and an evaluation that still has an automation
  that is gone (`Begun`) has no late run of it yet. Automations with late runs are
  gone for good (`LateGone`), so no new evaluation begins with one.
* `RecordedUnlessRaised`: `Spec => [](NoneRaises => DispatchesRecorded)`: if no
  automation's conditions raise, whatever was dispatched is pending or recorded,
  unless a consumer crashes or a query or commit of an evaluation fails. The run `audit_doc` is what `NoneRaises` excludes.

`OfflineSweepProofs`, for any workers, handlers and sweeps:

* `TypeCorrect`.
* `OutagesAreTold`: `NoOutageSwallowed`, inductive together with `TypeOK`. The
  disjunct about the handler that is about to mark the worker is what carries it
  over the gap between the insert and `mark_online`.
* `RepeatsBounded`: `AlertsBounded`, by the invariant `Counted`: the alerts sent
  about a worker and the sweeps still about to send one are together no more
  than all sweeps.
* `SweepsRaiseNoFalseAlarm`: a sweep works with the time of its start, and still
  never finds stale a worker whose last events are recent now: its clock is behind
  (`SweepWork`), which delays alerts and invents none.
* `SweepsOnlyAdvance`: each step of a sweep that has its hostnames lowers
  `StepsLeft` or ends it. This is the safety half of `SilentWorkersAlerted`.

`AutomationsProofs`, for any requests, consumers, bodies and settings:

* `TypeCorrect`, `InvalidOnlyByRace` and `Seeding` state `TypeOK`,
  `ValidUnlessRaced` and `SeedComplete`; `NoLostUpdate` states `OnlyRequested`;
  `ImplementsAutomationTable` the refinement. The invariant has for each request
  what its validation is worth at its step (`RequestOK`), that names differ in
  the table and among flushed rows (`NamesDiffer`, `FlushedOK`, `Apart`), and for
  each seeding consumer that every built-in it has passed is in the table, among
  its flushed rows, or was removed (`ProgressOK`).
* `SeedersWaitUphill`, `SeedersNeverDeadlock`: a seeding transaction holds several
  names at once and may wait for one of another's. Whoever is waited for is
  further down the list of built-ins, whose names differ (`BuiltinsDiffer`), so
  that one of the transactions can always go on; requests wait while they hold
  nothing.

`ConsumerProofs`, for any events and bounds: `TypeCorrect`, `Clean`
and `Gaps` state `TypeOK`, `ExitIsClean` and `GapsHaveCause`, from an invariant
that says what each place of the thread implies (`Asked`, `Causes`, `Awaited`): it
ends only if told to, and the main thread gets past it only when it has.
`HeardSignalStays` is the safety half of `StopHeard`: once a signal was heard, the
thread never makes another receiver, and the one it has is stopped.
`HeardThreadAdvances` and `HeardThreadIsFree` add what else safety can say of it:
from then on each step lowers `Rank`, from at most 8, and none waits for anything
but the broker while a capture is being opened.

`TaskViewsProofs`, for any tasks, workers, requests, times and bounds:

* `TypeCorrect`; `OneFamily` states `RootsAreOriginal`; `StatesAgree` and
  `WorkersAgree` state that the views agree for every content of the tables that
  events and prunes can produce. The newest row of a finite table exists and is
  unique, because ids of one subject differ (`FiniteHasTop`, `NewestExists`,
  `NewestUnique`).
* `OrphansAgree`: the orphan list and the task it names agree with `get_task` and
  `retry_task`, which ask about task and worker by queries of their own: what
  these must take for an orphan is listed, and what is listed they may take for
  one; without a tie of timestamps the two are the same.
* `OrphansUnfinished`, `ChainsComplete`: what a request has read at its step is
  tied to what was on record when it was made (`OrphansOK`, `ChainOK`), through
  all that is stored and pruned in between. What makes them true is the order in
  which a worker works, whatever the order of storing: an end is the last event
  of its task, and a task is received once (`WorkOK`).

Assumptions are those the modules name: the bounds are naturals, processes and sweeps are
finite in number and handlers are not loops, `None` and `NoTime` are no numbers,
batch size and retention are positive (a retention of 0 switches pruning off).

Theorems without a property of a run (the waits, the advances, the dispatches,
the retention of runs, the orphan views) state definitions of the proof modules.
A theorem about advancing says that nothing can undo or prolong the work; that
the work is taken up at all is fairness, and is left to the runs.

Every invariant and every action property that a passing run checks is also
proved: `PassIsComplete` under `Alone` and `DispatchesRecorded` under
`NoneRaises`, which are the conditions their runs have. Model-checked only are the
liveness properties (`HandlersFinish`, `ExpiredRowsGo`, `PeriodicServed`,
`EvaluationsFinish`, `SilentWorkersAlerted`, `RequestsEnd`, `StopHeard`,
`Recovers`, `KeepsServing`), which are out of the prover's reach.

## 5. Plan

Done, the most consequential behaviour first: event tables, workflow engine,
offline sweep; automations with their writers; the consumer process; the views
and the task actions; the proofs of all their invariants, and of the safety
halves of several liveness properties.

Left, each of less consequence than what is there:

1. Retention of `automation_runs` as an action of the engine. A retention shorter
   than a cooldown or a window makes the knob forget (nothing compares them,
   `maintenance.py:109`); that a longer one changes no decision is proved
   (`RetentionKeepsDecisions`).
2. The operators of `evaluate_condition` as pure functions against a reference
   definition: they have no interleaving, and unit tests reach them well.
3. The counters and histograms of `metrics.py`, sums over one scan.

## 6. Not modelled

Payload formatting and webhook transport (`alerting.py`): what the engine sees of
it is an attempt that never raises, so no property says that an alert arrives
(`workflow.py:537`). HTTP and MCP routing, authentication, configuration, session
construction, migrations, and the live inspection of workers and queues keep no
state of their own. Of the queries, pagination, the raw event list and columns
that only are displayed; of the automations, the status and circuit views, which
no decision reads (`automations.py:337`); of retention, its dry run; of the
consumer, `stop()`, which nothing calls. SQLite, which the tests use, serialises
writers and stamps runs at the insert; the models follow PostgreSQL, the database
of the deployment.
