# Verification of Aim's tracking core and explorers

Aim records the metrics, parameters and objects of training runs in a repository
of embedded databases, locally or through a tracking server, and shows them in a
web interface.  Two sides of it are hard to test.  On the writing side threads
queue writes, a worker retries them over a websocket, a server may crash, a lock
must survive the death of its owner, a reporter thread races with its callers,
and a tracker keeps an overview of a sequence apart from its values.  On the
reading side the explorers are single-threaded, but everything in them waits: a
search, an alignment or a live result comes back to a page whose configuration,
rows and objects the user has changed meanwhile, and the stream it comes in is
decoded by three generators that pull from each other.  This directory models
both sides in TLA+, checks them with TLC and proves the most important
properties with TLAPS.

## 1. Inventory

Paths are relative to `src/aim/aim`.

### Writing side

| Component | State | Operations | Talks to | What is hard | What makes it correct |
|---|---|---|---|---|---|
| Request queue (`ext/transport/request_queue.py`) | a `queue.Queue` with `unfinished_tasks`, `current_memory_usage`, `_shutdown`, `_needs_reconnect` | `register_task`, `worker`, `_try_exec_task`, `_put_front`, `wait_for_finish`, `stop` | producers; the client's `_run_write_instructions` | memory limit tested and charged in two critical sections; put-back behind `Queue`'s back; notification before the memory is freed | order, no loss, exact accounting, joins that drain |
| Remote client, tracking server (`ext/transport/client.py`, `tracking.py`, `router.py`, `heartbeat.py`) | websocket, handlers held by the client, `resource_pool`, heartbeats | `ws`, `_run_write_instructions`, `_run_read_instructions`, `reconnect`, `_reinitialize_all_resources`; server handlers; the watcher | storage; the request queue | a reply lost after the write was executed; crash of the server in a message; expiry of a connected client | writes applied in order, at least once; readers read their own writes |
| Run lock (`sdk/lock_manager.py`, `storage/locking.py`) | `<run>.softlock` with machine and pid; container locks of old versions | `get_run_lock_info`, `is_stalled_lock`, `lock`, `release`, `release_locks` | every process that opens a run for writing | test and unlink by name; creation and naming in two steps; dead owners, other machines | one writer; remote owner respected; `lock()` ends |
| Status reporter (`sdk/reporter/`) | `counter`, `last_check_ins`, `physical_check_ins`, `timed_tasks`, `queue`, `stop_signal`; check-in files | `check_in`, `report_progress`, `flush`, `stop`; the writer | callers, writer thread, status watcher through the files | three dictionaries shared without a lock; notifications without waiters; resuming | indices unique, newest check-in kept, first report written |
| Run tracker (`sdk/tracker.py`) | overview per sequence, values per step, `sequence_infos` | `track`, `_track`, `_update_sequence_info`, `load_sequence_info` | storage views; task queue | automatic steps; type changes in the middle of a dictionary; death between writes | overview covers the values; a counted step does not overwrite |
| Tracking task queue (`ext/task_queue/`) | `queue.Queue`, worker, `_shutdown` | `register_task`, `wait_for_finish`, `stop_worker` | tracker, resource tracker | several threads tracking one sequence | order, drain on finish |
| Status watcher, notifier (`sdk/run_status_watcher.py`, `ext/notifier/`) | cache of check-ins polled, notification queue, statuses sent | `start_watcher`, `poll_events`, `detect`, `notify` | files of the reporter | late and vanished files | no false "failed", no repeated notification |
| Status manager (`sdk/run_status_manager.py`) | progress files, heartbeats | `check_and_terminate_stalled_runs`, `_is_run_stalled`, `_mark_run_as_terminated` | progress files, check-ins, containers | check while a run finishes | an ended run is not revived, a live one not ended |
| Index manager (`sdk/index_manager.py`) | indexing queue, checksums, observers | `start`, `stop`, `add_run_to_queue`, `index` | containers | corrupted runs, events during indexing | a changed run is indexed in the end |
| Containers (`storage/`) | RocksDB stores, union of containers, index | reads, merging iterators, writes, commits | all | several stores hold one prefix | merged order, right store wins |
| Run life cycle, repository (`sdk/run.py`, `sdk/repo.py`) | repository pools, run trees, auto-clean | open, close, `delete_run`, `RepoAutoClean` | everything above | order of close; partial failure of deletion | closed run loses nothing; deletion leaves nothing half |
| Resource tracker, log capture (`ext/resource/`) | buffered terminal lines | `start`, `stop`, `_collect_logs` | tracker | buffer shared by threads | lines in order, none lost |
| Structured DB (`storage/structured/`) | SQL rows and caches | row access, sessions | SQLAlchemy | external | — |
| Tree views, query engine, web API, CLI, adapters, objects, deployment | none beyond a call | — | — | — | data conversion or thin layers |

### Web interface (`web/ui/src`)

| Component | State | Operations | Talks to | What is hard | What makes it correct |
|---|---|---|---|---|---|
| Live update service (`services/live-update/`, the bridge in its `examples/`) | the bridge's flag; the worker's stream, timer and settings | `start`, `stop`, `clear`; `startUpdateCall`, `stopUpdateCall`, `close` | explorers; the search endpoint | a stop meets a call in flight, whose timer is not known yet; two calls overlap | polls until stopped; results only of queries that were started |
| Runs explorer (`services/models/explorer/runsModelMethods.ts`) | config, rows, table, selection, request, flags | search, endless scroll, abort, table edits, selection, tags, archive, delete, live update | live update; server | a page of an aborted search; a config copied at the start of a request; a deferred table update | rows are one stretch of one query; edits survive; selection is visible |
| Metrics explorer (`metricsModelMethods.ts`) | config in five places, rows, request, alignment requests | search, alignment, density, grouping, chart and table handlers, history | live update; server | answers out of order onto a changed config | address, storage, data and config agree; aligned by the metric selected |
| Params, scatters explorers (`paramsModelMethods.ts`, `scattersModelMethods.ts`) | the same without alignment | the same | live update; server | copies that differ where a search ends | the same; live update goes on after a search |
| Images explorer (`services/models/imagesExplore/`) | the same with ranges, stacking, `queryIsEmpty` | search, ranges, grouping, stacking, history | server | a search sets the config object it holds back into the model | the same |
| Shared handlers (`utils/app/`) | none: they read and set the model | `on*Change`, `setDefaultAppConfigData`, `updateURL` | models, address, `localStorage` | some change an object in place, some replace it | every place is told of every change |
| Result streams (`utils/encoder/streamEncoding.ts`, `utils/app/getRunData.ts`; `storage/treeutils.pyx`, `storage/encoding/`) | buffers of three generators | `decodeBufferPairs`, `decodePathsVals`, `iterFoldTree`; `unfold_tree`, `encode` | explorers; server | chunks cut anywhere, early end | objects arrive whole, in order, undelayed |
| Base explorer engine (`modules/core/`) | stores, query pipeline with cache, blob loader | `search`, `group`, `update` | server | cache by reference | a cached stage is that of the config |
| Pages, tables, charts, `RunDetail`, `services/api` | component state | rendering | models | — | drawing; the request wrapper is in the modules that call it |

## 2. Modules

| Module | Models | Remarks |
|---|---|---|
| `RequestQueue` | `request_queue.py` whole | one action per critical section or unlocked access |
| `OrderedDelivery` | the abstract promise of remote tracking | writes enter a log in their order, each at least once before the next begins; a message of a dead connection may be late; may give up |
| `RemoteTracking` | EXTENDS `RequestQueue`; `task_f` becomes the websocket exchange | with the server's handlers, expiry, crash, reconnection |
| `RunLock` | `lock_manager.py` whole | one action per file-system call |
| `StatusReporter` | `RunStatusReporter`, its writer, `file_manager.py` | time abstracted to due / not due |
| `SequenceTracker` | `RunTracker.track` on a local repository | one action per group of writes; death between any two |
| `RunStatus` | `run_status_manager.py` with the opening and closing of a run, its container's progress file and `ScheduledStatusReporter` | composes four files of the code through the files they share |
| `LiveService` | the abstract live update | what an explorer may rely on |
| `LiveUpdate` | worker, bridge and ports of the live update | implements `LiveService`; one task of an event loop is one step |
| `RunsTable` | the runs explorer with its search bar and table | uses the live update as `LiveService` describes it |
| `ExplorerConfig` | the configuration of an explorer and the handlers of `utils/app` | objects have identities |
| `MetricsExplorer` | EXTENDS `ExplorerConfig` | search and alignments under way together |
| `ParamsExplorer`, `ScattersExplorer`, `ImagesExplorer` | each EXTENDS the one before, the first one `ExplorerConfig` | which page it is, is chosen in `Init`; they share their handlers, not the endings of a search |
| `StreamCodec` | integers, paths and sentinels of the encoding | a byte has `Base` values; loops are recursive functions |
| `StreamDecoding` | EXTENDS `StreamCodec`; the server's objects and frames, the three generators, `getRunData` | bytes are counted, not kept; a generator is at a node |
| `MCRequestQueue`, `MCRemoteTracking`, `MCRunLock`, `MCSequenceTracker`, `MCRunsTable`, `MCStreamDecoding` | — | the functions and finite sets TLC needs |
| `RemoteTracking_proofs` | — | the theorems about the queue, then those about the whole path |
| `RunLife_proofs` | — | the theorems about `RunLock`, `RunStatus` and `SequenceTracker` |
| `StatusReporter_proofs`, `StreamDecoding_proofs` | — | the theorems about these |
| `RunsPage_proofs` | — | the theorems about `LiveUpdate` and about `RunsTable` |
| `ExplorerConfig_proofs` | — | lemmas about the shared handlers, for the next two |
| `MetricsExplorer_proofs`, `ImagesExplorer_proofs` | — | the theorems about the metrics explorer, and about the params, scatters and images explorers |

### Correspondence

**RequestQueue.** A producer's `ppc` is its place in `register_task`: `checked`
(past `_shutdown`), `waiting`/`woken` (on `not_full`), `admitted` (below the
limit), `charged`, and then `Put`.  The worker's `wpc` is its place in `worker`
and `_try_exec_task`: `get`, `exec` (with `retry` and `_needs_reconnect`),
`uncharge`, `task_done`, or `died` when an exception other than
`ConnectionClosedError` leaves the thread.  The closing thread is
`wait_for_finish` then `stop`, whose read of `qsize()` is a step of its own.
`accepted`, `delivered`, `stopMark` are history variables.  `NotifyNotFull` is the
notification of `Queue.get`, which wakes one waiting producer and comes before
`Uncharge`, the return of the popped task's memory (line 57): the woken producer may find
the limit exceeded still and wait again.  `Stranded` is the state in which no
other wakeup comes.

**RemoteTracking.** `Connect` is the property `ws`; `Send`, `Receive` and
`FindClosed` are the halves of `_run_write_instructions`; `Reconnected` is
`Client.reconnect` with `_reinitialize_all_resources`; `Handle` is the server's
`run_write_instructions`, which has no `await` between its instructions and so is
cut in two only by `HandleRaises` or `Crash`.  `Expire` is the heartbeat watcher
dropping the resources of a client whose websocket is connected.

**RunLock.** `CheckExists`, `Inspect`, `Unlink` are `get_run_lock_info`,
`is_stalled_lock` and the unlink of `release_locks`; `Create` and `WriteOwner` are
the two steps of `SFRunLock.lock`; `Timeout` is the exception of the soft lock
(external), `Release` its unlink by name.

**StatusReporter.** `CheckIn`, `Number`, `Reschedule`, `Flush` are the steps of
`_check_in`/`_increment`/`flush`; `Sleep` ... `TestStop` are the writer's loop,
with `Touch`, `Pop`, `Record` for `_touch_flag`.  Every access to a dictionary
shared with the writer is in a step of its own, as no lock covers it.

**SequenceTracker.** `Track` opens a call of `track` with a value or a dictionary;
`BeginValue` with the type test, the writes of first step, last step, value and range, and
`AddValue` are the order of `_track`; `Reopen` is a new tracker that loads
the overview from storage, after a close or a death at any point.

**RunStatus.** A writer's `wpc` goes through `BaseRun.__init__` (`locked`,
`touched`, `opened`), `BasicRun.__init__` (`booting`, `running`) and the two
clean-ups, of the run (`ending`, `released`) and of its container (`closing`);
`hpc` is its heartbeat thread.  `mpc` is the manager's place in
`check_and_terminate_stalled_runs`, which opens the container as a writer does
(`ManagerTouches`, `ManagerOpens`) and whose container is cleaned up like a
writer's (`ManagerCloses`, `ManagerCleans`), also after it was refused.

**LiveUpdate.** `BridgeStart`, `BridgeStop` and `BridgeStopped` are the bridge's
`start`, `stop`/`clear` and the continuation of their `await`; `WorkerCommand` is a
message taken by the worker; `StartUpdateCall` is a timer that fires and runs up to
the first `await` of the call; `CallFails` and `CallSucceeds` are the endings of a
call, with the promise continuations each releases in the same task.  A status of 400
or more is a call that fails: `api.ts` reads the body of such an answer twice, and the
second reading throws.
`schedule` is what the worker can clear, `timers` what its event loop still holds:
they differ while a call is in flight.  `starts` and `lost` are ghosts.

**RunsTable.** A run is its place in the order of the server, so that "one stretch"
can be said.  `request` is the newest call of `getRunsData` with what it took from the
model at its start: `shared` says that its array is still the model's, `config` the
version it will set back.  An aborted call is gone but for its reader, which fails
later (`failing`) and touches the flags.  A lost connection and a refusal end alike
(`RequestFails`).  `sources` stands for the live update, of
which a result may come at any time as `LiveService` allows.

**ExplorerConfig.** The config is kept in the model, the address, `localStorage`, the
shown data and the requests that hold a config object while they wait.  `held[h].same[l]`
tells for each level of the object (config, select, grouping, chart, aggregation)
whether the request's object is still the model's own.  `Write(new, replaced)` changes
the model's config: at the levels named in `replaced` a copy takes the object's place,
at the others the shared object is assigned to, so that holders see it (`Follow`).
`Return` makes the config a request held the model's again; `Release` drops it.
Handlers have the names of the code.  `overtaken` is a ghost: an answer met a config or rows
newer than its own and put back older ones.  The handlers show that data, address
and storage agree up to then, not after.

`Grouped0` are the fields the page groups by when it is new or reset: the metrics page
groups charts by name, with the aggregation disabled until rows come or the grouping is
changed (`AggregationNeedsGrouping` says so).

**MetricsExplorer.** `GetMetricsData` is the search up to its first `await`;
`ResponseBegins`, `RequestCompletes`, `StreamBreaks` and `RequestFails` are its continuations,
`AlignmentAnswered` and `AlignmentFails` those of an alignment.  Two alignments can be
under way.  The rows say which metric they were asked with (`x`), whether the values
are their own or an alignment wrote those of other rows at their places (`own`), and what
lacks values (`lacking`): a search asked with a metric may bring rows without values of
it, which the page only tells the user; an answer to an alignment that
lacks some takes the alignment back (`Realigned`).  `AlignmentFails` sets the config its request
held and does not touch the aggregation.  `ControlsEnabled` is the progress bar, which
disables the form, the groupings and the bar on top.

**ParamsExplorer, ScattersExplorer, ImagesExplorer.** `HoldCopy` is the spread of the
config at the start of `getParamsData`.  The grouping handlers of the params page
(`ParamsGrouping`) call the shared ones, which write the address, and then put a copy of
the config and its chart, without the brush, in the model (`AssignAndDropBrush`); those of the
scatters page are the shared ones.  A search of the params page starts the live update
again when its rows have come, its reader fails, or it fails or is refused
(`ParamsArrive`, `ParamsBreak`, `ParamsRefused`), one of the scatters page only with rows; the images
page has none.  One that is aborted before its response begins never settles.
`silent` is a ghost for the endings after which the code starts nothing,
`unwritten` for a search without a query on the images page, which resets the
grouping but not the address.  `manageSystemMetricColumns` is an effect of the page's
component and part of every action that brings rows.

**StreamDecoding.** `Send` is the server with a run or a progress report, which
`unfold_tree` turns into nodes.  A node has a record on the wire unless it is an object
whose children tell that it is there.  `TakeHeader` and `TakePayload` are the two halves of
the loop of `decodeBufferPairs`, for a path and then for its value, `Await` the place where
the buffer is too short; `Chunk`, `StreamEnds` and `ReaderFails` are what the reader may
answer.  A stream that ends before a header ends silently, inside a payload with an error.
What is complete goes on through the generators that pull: `DecodeRecord` is a round of
`decodePathsVals`, which adds the objects without a record, `YieldNodes` hands
the list to `iterFoldTree` (which takes the root alone first), and `FoldNode` and `FoldMore` are
a round of its loop and its end.  `pc` says which generator runs.

## 3. Runs

| Run | Instance | Shows |
|---|---|---|
| `RequestQueue` | 2 producers with 2 tasks each, of size 1 and of size 2, limit 4, 2 attempts, every outcome of the call | `TasksConserved`, `Accounting` (count and memory), `JoinDrains`; `BlockedProducerGoesOn`, `EventuallyDelivered` |
| `RemoteTracking` | 2 producers with 1 task each, 2 faults of 5 kinds | `ImplementsPromise` (`OrderedDelivery`); `EndsAgree`: acknowledged writes are applied, and repeated only after faults; `ReadsOwnWrites`; `EventuallyApplied` |
| `RunLock` | 3 processes on one machine and 1 on another, 1 crash, force, an old lock | `LivingLockKept`, `MutualExclusion` until a process was robbed of its lock, `RemoteOwnerKept`, `LocksEnd` |
| `StatusReporter` | 2 callers, 2 flags, 2 indices, 2 starts, async and block, `stop`, crash | `CheckInsAgree`: indices unique, files as recorded, an unwritten flag keeps a task; `NewestKept`; `BlockedCallReturns`, `FirstReportWritten` |
| `SequenceTracker` | 2 names, 3 values of all types, steps given or automatic, 2 reopenings | `OverviewHolds`: it covers and types the values; `CountedStepAppends` |
| `RunStatus` | 2 writers, 3 openings, 3 heartbeats told apart, crashes anywhere, the manager | `LiveHasNoEnd`, `ClosedEndKept`, `RunsSettle`: a live run is marked again if its mark is taken, a dead one is ended |
| `LiveUpdate` | 2 queries, 4 timers, 2 calls at a time, 2 starts, 1 message per port | `TimersUnderControl`, `PollingContinues`, `ImplementsService` |
| `RunsTable` | 2 queries, pages of 1 run, 3 runs, 1 edit, 3 requests | `PagesFit`, `SelectionIsShown`, `LoadingHasRequest`, `OnlyLiveUpdateMixesQueries`, `EditsAreKept` |
| `MetricsExplorer` | a search and 2 alignments at a time, 2 kinds of grouping with one the default, 4 operations of the user | `UrlShowsConfig`, `ViewShowsConfig`, `StoredTableIsConfig`, `AggregationFollows`, `AlignedBySelectedMetric` |
| `ImagesExplorer` | each of the three pages, 2 queries, 2 versions of the repository, 4 operations | `PlacesAgree` (address, data, rows, and the ranges of the images page), `SwitchIsTrue`, `LiveUpdateResumes` |
| `StreamDecoding` | 3 objects (nested objects and arrays, an empty run, a progress report with an index that contains the sentinel) in any order, every cutting into chunks, every end | `DeliveredAsSent`, `NothingHeldBack` |
| `StreamIntegers` | every integer of 8 bytes, each with 4 values, below the warning | violation: `IntegersDecode` |

### Bounds, and why they are enough

* `RequestQueue`: two producers with two tasks each are the least that lets tasks of
  two threads interleave, one wait at the limit while the other is admitted, and a
  put-back have something behind it.  With sizes 1 and 2 and the limit 4 a task of 1
  fits beside any other, but two tasks of 2 do not fit together (their sum reaches the limit): both a thread that is
  stranded by the early wakeup and one that is not are there.  With one size of 1 for
  all and the limit 3 nobody is stranded.
* `RemoteTracking`: two faults give each ordered pair: a crash during the reconnection
  after a loss, a loss after an expiry.  A third repeats one of these for another task.
* `RunLock`: one crash of a lock owner is what there is to take over; the other two
  processes of its machine race for it, the fourth one looks on from another.
* `StatusReporter`: two starts cover the resumption; two indices are one check-in and
  the one that replaces it.
* `SequenceTracker`: two reopenings let a sequence be damaged by a death, go on, and be
  damaged again; three values over two names cover a dictionary and a call after it.
* `RunStatus`: two writers and three openings let a run be closed or lost, reopened by
  another process, and lost again, with the manager anywhere in between; three
  heartbeats are none seen, an old one and a new one; from the bound on a heartbeat
  looks old, which only makes the manager try more often.
* `LiveUpdate`: two starts without a stop give two chains of timers, each with a call in
  flight and a timer to come: four timers, two calls.
* `RunsTable`: with three runs and pages of one, a query has a first, a middle and a last
  page, and runs are created and deleted in front of, between and behind the loaded ones.
  Three requests are one that is aborted, one that replaces it and one after it.
* The explorers: a hazard is a request that starts, an operation that makes it stale
  and its answer; four operations let a second request start after such an
  operation and a third come between.  The three pages also pass with five
  operations (2.4 million states), beyond the time of the regular runs.
* `StreamDecoding`: four values of a byte are the least with two for names, the sentinel and
  the one above it; an index then needs two bytes from 4 on, and integers use all of
  their eight.  A header of two bytes can be cut in the middle.  Three objects give one
  that is finished, one in the middle of its records and one behind it.

All bounds are guards on the constants commented as "bound"; there are no state
constraints.  `CHECK_DEADLOCK` is off throughout: producers, processes, runs and
pages may be done or give up, and the bounds end the rest; that something goes on
is stated by the liveness properties.

### Fairness

Weak fairness of a thread's own steps is the scheduler of the operating system.
Strong fairness of `Reconnect(TRUE)` and `Call("ok")` in `RequestQueue` is the
assumption that a server tried again and again is reached in the end;
`RemoteTracking` does not need it, because its faults are bounded.  A process
that began `lock()` goes on, but nobody is required to start or to release:
`LocksEnd` therefore relies on the timeout.  For the reporter,
`SF(Inspect(TRUE))` says that a task comes due in the end; its waiters are woken
only by notifications, never by fairness of their own.  In `RunStatus` the
heartbeat threads and the manager's loop run, and `SF(Look(TRUE))` says that time
passes between two looks at the same heartbeat; writers need not open, close or
die.  In `LiveUpdate` the two event loops handle their messages, the server or the
network ends every call, and a timer fires; that one is strong, because a timer
waits where the bound on overlapping calls is reached.  The user's actions are fair
nowhere.  `RunsTable`, the explorers and the stream are checked for safety only.

## 4. Disagreements between the code and what is said of it

`StreamIntegers` checks the one statement of the repository that concerns the data
itself.  `decode_q_le` warns of integers whose two high bytes are in use ("Only 52-bit
integers are supported now."), but shifts and complements in 32-bit arithmetic, so
that among the integers it does not warn of, those with the top bit of the low half
set are decoded to other numbers.

The following statements are not runs of their own.  Each is a definition of its module and
is refuted by TLC within the instance of that module's run, if its name is added to
the configuration.

| Definition | Add as | What refutes it |
|---|---|---|
| `RequestQueue!NoPendingTasksLeft` | INVARIANT | `stop()` trusts `qsize()`, which does not count the task in flight |
| `RequestQueue!WaitersGoOn` | PROPERTY | two tasks that do not fit together: the second producer is woken by the pop of the first task, before its memory is given back, waits again, and is never notified |
| `RunLock!NoConcurrentWriters` | INVARIANT | `release_locks` unlinks by name a lock it inspected earlier; two processes that both find the stalled lock both get the run |
| `StatusReporter!BlocksUntilFlushed` | PROPERTY | a blocking check-in returns when its flag was touched by somebody else |
| `StatusReporter!WriterOutlivesWaiters` | INVARIANT | `stop()` waits for a writer that has left |
| `SequenceTracker!AutoStepAppends` | PROPERTY | the automatic step of a dictionary is computed for its first name and used for the others |
| `ImagesExplorer!ReloadKeepsBrush` | INVARIANT | the grouping handlers of the params page drop the brush after the address was written: a reload brings it back |
| `LiveUpdate!StopPauses` | INVARIANT | a stop that meets a call in flight leaves the timer that call has set |

What was met on the way and belongs to no property, because it concerns what the models leave
out or a single operation:

* `RequestQueue.register_task` drops a task after `stop` with a debug message
  (line 36), and a task as large as the limit waits for ever (line 40).
* `Repo.atomic_track` (line 936) has no `try`/`finally`.
* A check-in numbered while the reporter's writer finds its flag up to date is not written
  until the flag is reported again.
* `LiveUpdateBridge.stop` clears the flag when the answer comes, also if a start came
  in between (line 56 of the example file).
* `onSortFieldsChange` of the params explorer and `manageSystemMetricColumns` change the
  table without saving it; this is why `StoredTableIsConfig` is checked for the metrics
  explorer only, and allows for system metrics the page has hidden by itself.
* On the images page a search without a query keeps `rawData`, so that later handlers show
  the old images again, and leaves stacking on; a search whose page is left before
  its answer writes its address onto the page that follows.

## 5. Proofs

The first part of `RemoteTracking_proofs` is about the queue, for any finite set of
producers, sizes, memory limit and number of attempts:

* `TypeCorrect`: `Spec => []TypeOK`.  `TypeOK` includes who holds a task at each
  place (`ProducersHold`, `WorkerHolds`), without which `Put` and `TaskDone` are
  not typed.
* `Conservation`: `accepted = delivered \o InHand \o queue`.  The step
  that needs care is the put-back: the task leaves `InHand` and enters the queue's
  head, so the concatenation does not change; the lemmas on `\o` state this for
  sequences of tasks.
* `CountersAgree`: `Spec => []Accounting`.  The memory counter is argued byte by byte, not
  task by task, so that no sum over a set is needed: each task that is charged is a set of
  as many bytes as it is large (`BytesKept`), and the sets of two tasks have nothing in
  common, because a task is in one place (`PlacesApart`, from the numbers threads
  give their tasks).  The bound on `mem` follows from `RoomLeft`: the threads that passed
  the unlocked test leave room for a largest task of each other one.  `mem = 0` is
  an alternative of its own only for a limit of 0, where nobody is admitted.
* `Draining`: `[][Returns => delivered = accepted]_vars`, from the inductive
  invariant `QInv == TypeOK /\ TasksConserved /\ UnfinishedCounted`: with
  `unfinished = 0` both the queue and the hand are empty.

Its second part is end to end, for any threads, writes, attempts and faults of all kinds:

* `PromiseKept`: `RTSpec => ImplementsPromise`, the refinement the run checks.  The
  invariant `RInv` adds to `QInv` that tasks differ (`Numbered`), that only tasks delivered or
  in the worker's hands were ever sent or applied (`OnlyStarted`), and that a message on
  the open websocket is the one the worker waits for (`ReplyAnswers`).  The turn of a
  started write has come because all delivered before it are applied; nothing after it
  is begun, unless its message is of a dead connection.
* `OwnWritesRead`: `ReadsOwnWrites`, from `RInv` and the argument of `Draining`.
* `EndsInAgreement`: `RTSpec => []EndsAgree`.  That repetitions in the storage need
  faults is a matter of counting: the copies of tasks on the wire and in the storage, less
  the tasks themselves, are paid for by the connections after the first one
  (`RepeatsPaid`), and those by the faults (`ConnectionsPaid`).

The theorems need `Outcomes` to name all three outcomes of a call, which the assumption
of the module states; every step of the network is then a step of the queue, whose
lemmas are used as they are.

The first part of `RunLife_proofs` is about `RunLock`, for any processes, machines and number of deaths, with force:

* `LivingKept`: a living process loses its lock only by force or in the race of two that
  take over a dead one's lock on their machine.
* `Exclusion`: until somebody was robbed in that way (`robbed`), one process at a
  time has the run.  The inductive invariant says that a holder owns the file
  (`HolderOwnsFile`) and that a file with a name was named by its creator
  (`NamedByCreator`), so that the test for a dead owner speaks of the one who made the file.
* `RemoteKept`: the same for a lock of another machine.

Its second part is about `RunStatus`, for any number of writers, openings and heartbeats:

* `TypeCorrect`, which includes that the container is open for exactly the writer
  or the manager whose place says so.  This is RocksDB's exclusion carried through
  openings, closings, refusals and crashes, and the part of the invariant the
  other two theorems need.
* `LiveRuns`: a run that is written has no end time.  The step to argue is
  `ManagerEnds`: the manager has the container, so no writer runs.
* `ClosedEnds`: the manager never replaces the end time a run wrote itself.

Its third part is about `SequenceTracker`, for any names, values, steps and reopenings:

* `OverviewTrue`: `STSpec => []OverviewHolds`.  The tracker decides by its own copy of an
  overview, the reader by the stored one; `Agrees` says that the two have the same
  count and extremes always, and type and version from the first last step on.  Before it, a death between
  the writes of a first value leaves a type or a version of a sequence that
  has no values, which the next first value replaces: `Covers` is about sequences with values.
* `CountingAppends`: `STSpec => CountedStepAppends`: the step a tracker counts by itself is
  behind every stored one, because the count is one more than a last step that covers.

The first part of `RunsPage_proofs` is about `LiveUpdate`, for any queries and any bounds:

* `PollingUnderControl`: `LUSpec => []TimersUnderControl`.  The inductive invariant
  `LUInv` adds to the type that the messages on the port to the worker are counted
  among the starts of the bridge (`StartsCounted`), since a timer is paid for by the start
  that is consumed, and that a worker which never met an overlap has at most one call
  in flight (`OneCallAtMost`), whose timer the schedule learns when it settles.
* `ServiceImplemented`: `LUSpec => Service!LSSpec`, the refinement the run checks.  `Sources`
  shrinks or stays in every step but `BridgeStart`; a result is posted only by a
  call that is not aborted, whose query is therefore in `Sources` before the step.

Its second part is about `RunsTable`, for any queries, page sizes, runs, edits and requests:

* `PagesAlwaysFit`: `RTSpec => []PagesFit`.  A *stretch* is a list of runs of the query,
  newest first, without a run left out between its ends.  The inductive invariant says that
  the rows of the page are one, and so is the whole a request makes of the rows
  it has received and those still to come.  The server's page lengthens a stretch
  whose last run it is asked to go on behind (`PageBehindStretch`); runs that are
  created or deleted meanwhile leave it one (`StretchAsRunsChange`); that the
  list was received to its end (`isLatest`) means that it has the oldest run.
* `TableShowsQuery` and `EditsAreNotLost`, the two action properties, from the parts of the
  same invariant that say whose rows are shown and what localStorage has.
* `ShownIsSelected` and `IndicatorsTell`, which are inductive with the type.

`StatusReporter_proofs` proves, for any callers, check-ins and starts and any finite set of
flags (`flush` schedules a task for each, and the queue must stay finite for a new task to
get a number of its own):

* `ReporterSound`: `Spec => []CheckInsAgree`.  Indices are unique because a start goes on
  above every file and `Number` above `counter` (`Numbers`: files and `last_check_ins` of
  two flags have nothing in common).  That an unwritten flag keeps a task needs three facts
  about the unlocked dictionaries: the writer pops a flag only once it is on disk
  (`PopsWritten`); a task is overwritten only when another is scheduled for its flag
  (`Replaced`), so a task put back over a newer one is no loss; and what is in
  `timed_tasks`, unwritten, is pending (`TimedPending`), which lets `_increment` skip the
  scheduling.
* `NeverBack`: `Spec => NewestKept`: a touch adds a file and the clean-up keeps the newest.

`MetricsExplorer_proofs` proves, for any finite set of alignment requests and any queries,
metrics, groupings, versions of the repository and number of operations:

* `MetricsInvariant`: `MESpec => []MInv`, where `MInv` has the types (`MTyped`, `MServer`), the
  places that show the configuration (`Places`) and the values of the alignment (`Aligned`).
* From it `AddressShowsConfig`, `PageShowsConfig`, `TableIsStored`, `AggregationIsSound`
  and `AlignmentHasValues`, the five invariants of the run.

The crux is which object an answer changes.  A request holds the model's object or
one the model has dropped meanwhile, and knows which (`HeldSound`).  That and the handlers
are the subject of `ExplorerConfig_proofs`, which has lemmas only:

* The objects have numbers, and `NumberLeft` shows that there is always one left for an
  object that is dropped, since each stands for an object that a request still holds.
  `AfterWrite`, `AfterHold`, `AfterReturn` and `AfterRelease` carry `HeldSound` over the four
  things that happen to objects.
* The handlers of the controls are more than thirty, but alike in what matters:
  `HandlerStep` says what they have in common, and one lemma per kind
  (`GroupingHandled`, `ChartHandled`, `TableHandled`, `SelectHandled`, `ResetHandled`)
  shows it of each.

For the metrics explorer one lemma shows that such a step keeps the invariant
(`HandledKeeps`).  Searches, answers, the live update, the Back button and
the reopening of the page have a lemma each.  That the aggregation follows the grouping must be
carried one step back into the address (`previous`), where the Back button gets the
configuration from.  `AggregationIsSound` holds for any default grouping (`Grouped0`): grouped lines
that cannot be aggregated are grouped as the default is.  `AlignmentHasValues` is about the metric
rows were asked with, whatever they lack: `RowsOf` brings rows with and without values, and
an alignment that was denied some has taken the alignment back before the page is at rest.

`ImagesExplorer_proofs` proves, for any queries, groupings, versions of the repository and
number of operations, about whichever of the three pages is open:

* `PagesSound`: `ISSpec => []ISInv`, the inductive invariant.
* `PlacesAlwaysAgree`: `ISSpec => []PlacesAgree`, from it and a second invariant, that on the
  images page the address has no range which the page has not (`ExtentShown`).
* `SwitchTells`: `ISSpec => []SwitchIsTrue`.
* `LiveUpdateGoesOn`: `ISSpec => []LiveUpdateResumes`: a refused search of the params page
  starts the live update like any other ending, and is not excepted.

On the params and the scatters page a search holds a copy of the configuration and
puts it into the address, or back into the model, when it ends.
`CopiesAgree` is why this is sound: as long as the user has done nothing since
the search began, only the live update has changed the configuration, and nothing in it
that the address shows, so that the copy agrees with it there and in the switch; otherwise the
end of the search makes the page `overtaken`, of which the properties say nothing.
The images page needs no such fact, as its search holds the object itself and knows
(`HeldSound` again) whether it is the model's still.  `PagesAgree` is stronger than the two
first properties in what it says of the shown rows and of the switch, and
`ServiceSound` says that localStorage and the service tell the same, which is what a new
visit starts from.  A step of a control is summed up as `PageStep`, and
`PageStepKeeps` is proved once; the grouping handlers of the params page, which change the
objects twice (`WrittenTwice`), are such steps as well (`BrushDropped`, `ParamsGrouped`); `ImagesDrawn` and `ImagesKept` show it of the images page's own
handlers, and `Unstacked` of the one case in which the shared object is changed twice in a
step, when no field to group by is left and the images are unstacked.
`LiveUpdateResumes` is inductive with these.

`StreamDecoding_proofs` proves, for any number of values of a byte, any objects the server may
send (any names, nesting, arrays and sizes), any number of them and any size of a header:

* `PathsRoundTrip`: `splitPath(encode_path(p)) = p` for every path `p`.  A name ends at the
  first sentinel, an index has a fixed size whatever its bytes are, and the four high bytes
  and the top bit of an index are 0, so that the signed shift of `decode_q_be` does no harm: the
  fault of `decode_q_le` (section 4) does not reach paths.
* `StreamInvariant`: `SDSpec => []SDInv`, with one conjunct for each stage of the way of an
  object.  `Sending`: the nodes are those of the objects in their order, each object with
  its own key.  `Receiving`: the bytes in the buffer and on their way are as many as the
  frames not taken have, counted by a bijection; hence a frame is complete exactly when it can
  be taken.  `Decoded`: what decodePathsVals has yielded, and what waits, are the nodes up to the last record,
  those of objects without a record included; here the parents it restores from two
  neighbouring paths are shown to be the nodes `unfold_tree` passed over.
  `Turns`: which generator may run while nodes wait for another one.
  `Folding`: what iterFoldTree is building is the first part of the tree of an object
  sent, and what it has given away are the objects before, whole.
* `ObjectsDelivered`: `SDSpec => []DeliveredAsSent`.  At the silent end of a
  stream whose bytes have all come `Receiving` says that every record was taken, and the other conjuncts
  that it was decoded and folded; an end before leaves a part of the last object.
* `ObjectsNotHeldBack`: `SDSpec => []NothingHeldBack`: a generator waits for bytes only when those
  behind it have nothing left to do.

The loops of the codec are recursive functions over the naturals.  As no induction theorem of the
library can be used, the module proves from the least-number principle what it needs: that a set
of numbers with 0 and every successor has all (`Induction`), and that a definition
by recursion has a solution (`Recursion`).  The lemmas on loops instantiate these with sets
and functions of their own.

Assumptions.  The theorems rest on the named assumptions of the modules: that bounds are
numbers, that sets counted over are finite, that the value for "none" is none of the
others (`NoneIsNoRequest`, `NoneIsNoImagesRequest`, ...), that a page of params, scatters
or images has one search at a time (`OneSearch`), and that the server's runs and matches are
what their names say (`RunsInitial`, `RunsMatch`).  TLC checks them for the constants of
every run.

Every invariant and every action property of the runs that pass is a theorem, and so are both
refinements.  Only model-checked: the liveness properties, which need fairness and ENABLED
(`BlockedProducerGoesOn`, `EventuallyDelivered`, `EventuallyApplied`, `LocksEnd`,
`BlockedCallReturns`, `FirstReportWritten`, `RunsSettle`, `PollingContinues`); and the violations of
section 4, which are counterexamples.

## 6. Limits of the models

* The worker of the request queue that dies of an exception hangs every later
  join, in the code as in the model; liveness is stated up to that.
* `RemoteTracking` has one client, whose resources are created and dropped
  together, and one message per task.  Storage survives a crash of the server.
  Version handshake, batches and the sender of heartbeats are left out.
* Process ids are not reused in `RunLock`.
* `StatusReporter` has no clock: a check-in may or may not be stricter than a task
  already scheduled, a later task may or may not be due.
* `SequenceTracker` has one tracking thread, no contexts, and orders the writes of
  the overview and of the values, not the batches of RocksDB.
* `RunStatus` has one run, takes the run lock as exclusive (`RunLock` says when it
  is), and does not let the file system reorder what one process does.
  `RunsSettle` leaves out a run the manager once met in use: it is in
  `_corrupted_runs` and never looked at again, also when it was only opening and
  had no heartbeat yet.  A dead run whose progress file the manager's late
  clean-up removes is not found either, hence the condition that the manager is
  idle.
* `LiveUpdate` has one worker per page; its delay and endpoint do not change.
* `RunsTable` does not compute columns or values; a page stays or is left and opened
  again in one step.  `PagesFit` is stated as long as the server knows the offset:
  when the run a page ends with was deleted, the server sends none (`skipped`).
* In the explorers a setting that is only stored and shown is one bit (`look`, `deco`,
  `cols`, `size`), so that a change and its loss are told apart, not the values.
  Properties say nothing after `overtaken`: there the code does put older settings
  back, and address and data show newer ones than the model has.
* A range or a brush (`extent`) is one bit, and no property of the address compares it, but for
  the images page: a step back in the history keeps a range the address lacks, and the
  params page drops its brush without writing the address (`ReloadKeepsBrush`, section 4).
* The overview of a sequence also has the last value (`last`).  The model of the tracker
  writes it with the last step, and no property checks it.
* A request whose token was renewed after a 401 stays pending in the code until the
  page is loaded again; it is left out.
* `StreamDecoding` has no strings or floats: leaves are opaque.  The names in a path are
  bytes below the sentinel, as those of UTF-8 are, and an index is below 2^31.  Objects of one
  stream have different keys, as hashes and numbered reports do.

## 7. Not modelled, and why

RocksDB, SQLite, websockets, filelock, React and the browser are external, modelled
only by how the code uses them.  Tree views, the query engine, the web API, the command
line and the adapters keep no state between calls.  Tables, charts and pages are
drawing code: their handlers are modelled in the explorers' modules, their layout is
not.  Bookmarks, export, notifications and the selection of rows in the explorers other than
the runs explorer are single assignments or requests whose answer changes
nothing else.  The task queue, the status watcher, the index manager, the resource tracker, the
deletion of runs and the base explorer engine have behaviour worth a model and
are next in the plan.

## 8. Plan

Done: the writing side (queue, remote tracking, lock, reporter, tracker, status manager),
the live update and its refinement, the runs, metrics, params, scatters and
images explorers, the result streams.  Next:

1. The base explorer engine: the pipeline's cache by stage, the query state, the blob
   loader's queue, for the figures, audio and text explorers.
2. The status watcher over the files of the reporter: cache, detection of failure,
   notification once.
3. The index manager, over runs that start, finish and die.
4. `delete_run` across the lock, the index, the progress file, the containers and
   the structured database, with a failure between any two steps.
5. The tracking task queue composed with the tracker: two threads that track one
   sequence, with and without the queue's worker.
6. The resource tracker's buffer and its collector; a timed model of the reporter's writer.
