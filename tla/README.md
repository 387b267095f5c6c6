# Formal models of multisite_crawler

TLA+ specifications, TLC models and TLAPS proofs for the crawler in this
repository. Source paths below are relative to `src/multisite_crawler/`.

## 1. The system

A scheduler process sends source ids to two Celery queues (`http`, `browser`).
Workers run one task per message; a task collects one source under a Redis
lease, so that runs of a source exclude each other. Adapters fetch, parse and
normalize a response; the repository turns a complete collection into records
and change events in PostgreSQL. Circuit breakers, retries and a rate limiter
shield the sources. Browser sources need a profile that operators refresh by
hand and an Edge process that is closed after every operation. Run events,
metrics, alerts and failure snapshots report what happened.

The task bodies at this commit are placeholders: `run_http_task` and
`run_browser_task` run an operation that returns the source id. The adapters,
the repository, the breakers and the browser parts are libraries that tests and
command line tools call. The models take each part at its interface and let its
callers do what that interface allows: any number of tasks, any interleaving of
transactions, any number of concurrent requests.

| Component | State | Operations | What must be right | Module |
|---|---|---|---|---|
| Lease, heartbeat, run wrapper (`locking.py`, `tasks.py`, limits of `queueing.py`) | lease key and its expiry in Redis; main and heartbeat thread; run events and metrics | acquire, renew, release, run, record, limits, crash | operations of a source do not overlap; leases and runs end; one owner; one account per run | `SourceLease`, `SourceExclusion` |
| Scheduler (`scheduler.py`, `scheduler_service.py`) | one JSON schedule per source in Redis | register, tick, pause, manual trigger, cycle, restart | at most one dispatch per interval; pauses hold; one source does not block another | `Scheduler` |
| Record repository (`record_repository.py`, `hashing.py`, `models.py`) | records, change events, fetch state; database locks | persist a collection | atomic and serializable collections; events tell the content; activity follows absences | `Collections`, `RecordRepository` |
| Circuit breakers (`resilience.py`) | failures, opening time, half-open mark; in memory or in Redis | allow, record failure, record success | one probe; rejection ends; failures are counted | `CircuitBreaker`, `RedisCircuitBreaker` |
| Retry (`resilience.py`) | attempt | call, classify, sleep | a refusal is final; waits are bounded | `Retries` |
| Rate limiter (`resilience.py`) | window of a source, per process | allow | two windows' worth at most in the length of one | `RateLimiter` |
| Task delivery (`queueing.py`, task declarations of `tasks.py`) | queued copies, unacknowledged deliveries | send, deliver, give back, acknowledge, retry | what a message can be lost to | `TaskDelivery` |
| Adapter pipeline (`adapters/`) | none | fetch, parse, normalize, fingerprint | failures classified by stage; complete collections or none | `AdapterPipeline` |
| Browser session (`browser_session.py`) | one Redis value per profile | observe, refresh, read | the value is the one of the last use; a refresh can be read | `BrowserSession` |
| Edge runtime (`browser_runtime.py`) | page, context, pending error, artifact | enter, launch, operate, close | the cause reaches the task; the profile is released | `EdgeRuntime` |
| Failure artifacts (`browser_artifacts.py`) | two parsers with their stacks | validate, sanitize | what is removed stays out, the rest of the table stays whole | `SafeFragment` |
| Edge worker supervision (`browser_worker.py`, PowerShell scripts) | restart count, health file | start, report, restart, give up | a worker that cannot start is given up | `EdgeSupervisor` |
| Alerts (`alerts.py`) | state per rule in Redis | evaluate | one event per transition; the state follows the conditions | `Alerts` |
| Metrics (`metrics.py`, `metrics_service.py`) | a hash per source in Redis | record, scrape | what a scrape shows adds up | `Metrics` |
| Failure snapshots (`failure_snapshots.py`) | files, paths in run records | write, attach, clean up | a cleanup that returns was complete | `FailureSnapshots` |
| Inspection (`inspection.py`) | none | build a report | getting worse never looks healthy | `Inspection` |
| Configuration, run events, mock server, database set-up, migrations | files, logs | | pure or one-time transformations | not modelled |

Interactions: the scheduler and the workers meet only in the queue and in
Redis; runs of a source meet in its lease key; transactions meet in database
locks; workers meet in the Redis circuit and in the hashes of the metrics;
browser runs and the operator meet in one profile and its session value;
evaluations, scrapes and cleanups meet in what they read and write piece by
piece. These meeting points are where interleavings matter and what the modules
are about.

### Hard behaviours

The full list, with lines, is in `PROJECT.json` under `hazards`. The ones that
shaped the models:

* The heartbeat is a second thread. It may be inside a renewal while the main
  thread stops and releases, may die of an exception without anybody noticing,
  and may survive its run.
* The exclusion of runs rests on numbers in two files: hard limit 75 s
  (`queueing.py:55`) below lease time 90 s (`tasks.py:60`).
* A delivery of a task may be repeated while the task runs, and the redelivery of
  a lost task may meet the lease its own dead run left behind.
* `pause` and `tick` read, change and write one Redis string without a lock.
* `persist_collection` runs at READ COMMITTED, with advisory locks for first
  inserts, row locks for the rest and a fetch-state row that nobody locks
  before it exists.
* The Redis circuit is read and written in separate commands and expires.
* Alerts, metrics and snapshot cleanups are sequences of commands that an error
  or a crash cuts off anywhere, and that another process may come between.
* A browser operation may fail at any of ten calls, some of them while another
  error is handled; one error has to reach the task, and the profile has to be
  closed in all cases.
* Two parsers of one HTML fragment have to agree about where it ends.
* An operator works on the profile that tasks observe, outside of every lock.

## 2. Modules

| Module | Role |
|---|---|
| `SourceExclusion` | abstract: a run executes its operation once at most, and operations of one source never overlap |
| `SourceLease`, `MCSourceLease` | the protocol that implements it |
| `SourceLeaseProofs` | typing, exclusion, refinement, ownership, settlement |
| `TaskDelivery`, `MCTaskDelivery` | the queue in front of `SourceLease`: it extends that module and composes with its actions |
| `TaskDeliveryProofs` | that composition implements `SourceLease`; what a lost message is lost to |
| `Scheduler`, `MCScheduler`, `SchedulerProofs` | the scheduler service with its operators |
| `Collections` | abstract: a collection is persisted in one step |
| `RecordRepository`, `MCRecordRepository` | the transactions that implement it, and their locks |
| `RecordRepositoryProofs` | activity, locks, the refinement of `Collections`, events, redelivery |
| `CircuitBreaker` | the in-memory circuit of one source |
| `RedisCircuitBreaker`, `MCRedisCircuitBreaker` | the circuit in Redis, used by several workers |
| `Retries`, `RateLimiter` | one request with its attempts and waits; the windows of one source |
| `ResilienceProofs` | of the circuits, the retries and the rate limiter |
| `AdapterPipeline` | one run of an adapter |
| `BrowserSession`, `MCBrowserSession` | the session value of one profile and its users |
| `EdgeRuntime` | one browser operation |
| `SafeFragment`, `MCSafeFragment` | the two HTML parsers of an artifact |
| `FetchProofs` | of `AdapterPipeline`, `BrowserSession`, `EdgeRuntime` and `SafeFragment` |
| `EdgeSupervisor` | the scheduled task, the supervisor script and the worker |
| `Alerts` | the evaluations of one source |
| `Metrics`, `FailureSnapshots`, `Inspection` | the metric store with its scrapes, the snapshot files with their cleanups, the daily report |
| `MonitoringProofs` | of those four |
| `Induction` | lemmas that replace induction in the proofs: least numbers, and iterations of a step function |
| `MCLibraries` | one instance of the components that do not act on each other |

The lower half of the table are libraries that share no state with each other.
`MCLibraries` extends all of them and lets each behaviour be one of one
component, chosen in its first state; the variables of the others do not move.
Its states are the sum of those of the components and not their product, and
each property is checked on all behaviours of its component.

Definitions under the heading "Faulty variants" are plausible mistakes. They are
used by no specification; each property is validated by putting one of them in
the place of the correct definition and seeing the property fail.

### SourceLease

`pc[r]` is the statement of `run_with_source_lease` that run `r` is about to
execute; `beat[r]` is where its heartbeat thread is; `owner` and `ttl` are the
lease key of a source. The Redis commands (`SetIfAbsent`, `ExpireIfOwned`,
`DeleteIfOwned`) are atomic because the code uses SET NX EX and two Lua scripts;
everything around them is a step of its own. The faults follow from what the
code can meet: a Redis call may raise before or after Redis applied it
(`RedisFaults`), the metric store may raise (`MetricFaults`), the soft limit may
interrupt the main thread at the points of `SoftPoints`, the hard limit and
`Crash` end a process with all its threads.

Time is relative and discrete: `ttl` is what is left of a lease, `age` how long
a run has been at work, `wait` how long a heartbeat still sleeps. `Tick` advances
all of them. Two assumptions restrict it: with `Limited` it may not pass the
hard limit of a live run (the pool kills in time), and with `Prompt` a heartbeat
acts when it is due. Without `Prompt` a thread may be late by any amount.

The model relates the limits as the code does: 90 s lease, renewed every 30 s,
75 s hard limit, 60 s soft limit become 3, 1, 2 and 1 units, which keeps
`RenewEvery <= SoftLimit < HardLimit < LeaseTtl`. `Limited = FALSE` is for callers
and pools that do not enforce the limits: `run_with_source_lease` called outside
a worker, or a pool without processes to kill.

`SoftPoints` of the run `lease` are the points at which the statement that is
interrupted is covered by the `try` statement or by a lease command. Left out
are the lines between `heartbeat.start()` and `try` and the one before the stop
event is set (`tasks.py:135`, `167`): an interrupt there leaves the daemon
heartbeat alive in a pool process that goes on, and `LeaseIsRecovered` does not
hold.

A run identifies its token (tokens are `uuid4` values and never repeat).
Logging is left out, except that `events` and `metrics` keep which terminal
events and outcomes a run produced.

### TaskDelivery

Every delivery of a message is a run of `SourceLease`. `queued` counts the copies
of a message in the queue, `unacked` holds the runs whose delivery is neither
acknowledged nor given back, `carries` the message of a run. Celery and its Redis
transport are outside the repository; the module models what the options of
`queueing.py:43-60` ask of them. With `acks_late` a delivery is acknowledged when
its task ended, whether it returned, raised or was skipped (`Ack`), and when the
pool has killed it at the hard limit (`KillAtLimit`). A delivery goes back to the
queue because its worker was lost or because it was not acknowledged within the
visibility timeout of 10 s, which is less than one unit of time of the model:
`GiveBack` is possible at any moment, and the late acknowledgement of a delivery
that was given back does nothing. `Retry` is the `autoretry_for` of the tasks. A
run that is refused the lease ends normally, so its message is acknowledged:
that is where messages may be lost. `served` and `refused` are history. Runs that
have not begun are interchangeable, so deliveries take them in a fixed order.

### Scheduler

The schedule of a source is `known`, `next`, `paused`, `interval`. The service
is one process (`at`, `current`, `todo`, `source`): `main` registers the sources,
then `run_cycle` visits them with one `current` time. A tick is three steps,
`TickLoad`, `TickSave`, `TickDispatch`; `pause` is two, `PauseLoad` and
`PauseSave`. The save of a tick writes back the whole loaded schedule, which is
"not paused" since it was due, hence `WriteNext`. Calls of the sources in
`Failing` may raise, with or without effect. `Crash` is a restart of the
container. `last` and `confirmed` are history for the properties: the last
scheduled dispatch, and whether the last `pause` call that returned (and was not
overtaken by a later call) had set the flag. Nothing keeps a `pause` and a tick of
one source apart, and both write the whole string they read. `raced` and
`rewound` are the history of what such an overlap does: the sources whose last
`pause` call wrote between the load and the save of a tick, which then writes
"not paused" over it; and those where a `pause` call put back a next run older
than the stored one, until a tick stores the next. The properties except these
and nothing else. One `pause` call of a source is in progress at a time.
`interval_seconds` may change in the
configuration between restarts; registration keeps the stored one.

### Collections and RecordRepository

`Collections` gives `persist_collection` its meaning: for each record what its
row becomes and which events are appended. `Taken` follows a record through the
items of a collection in their order, so that an id that is named twice is
created or updated twice, as the loop of `record_repository.py:28` does. `RecordRepository` runs it as
transactions: advisory lock, row lock and upsert per item, then the fetch state,
then the query of `_reconcile_missing` and one locked row after the other, then
the commit of the caller. A transaction works on `draft` copies of the rows it
has locked and publishes them on commit. The query sees the rows committed at
that moment; a row it had to wait for is looked at again (PostgreSQL's READ
COMMITTED rule), which is why `Miss` tests `rows[i].active` again. The
fetch-state row that does not exist cannot be locked: `LockState` then plans an
insert, `InsertState` waits for a concurrent one and `InsertConflict` fails.
`DeadlockVictim` is PostgreSQL's resolution of circular waits. Contents are
fingerprints: payloads and JSON encoding are abstracted by `hash`, which is what
the code compares.

The database may start from any history a source can have (`Init` of
`Collections`), including one of earlier collections.

### Circuit breakers

Both are modelled for one source (sources share nothing). `cooldown` is what is
left of `recovery_seconds` since the circuit opened; failures are counted up to
the threshold because only `>=` is asked. Requests that were admitted before the
circuit opened are still in flight and report later; `probes` (`redisProbes`)
are the callers admitted since the circuit last opened. In `RedisCircuitBreaker`
a caller reads, decides and writes in separate steps, and `life` is the expiry of
the key. A state that is written late undoes what others wrote since it was read: a
failure is not counted, or an open circuit closes. `overtaken` holds the callers
about to do so, `disturbed` says that one has, and `reported` counts the failures
that were recorded since the last success or lapse. `FailuresAreCounted` compares
the latter with what is stored, wherever nothing is disturbed; a success or the
lapse of the key puts it right again, if nobody writes late after that too.
`ProbesReport` and `Abandons` say which callers may end without an outcome.

### Retries and RateLimiter

`Retries` is one call of `run_with_retry` (`resilience.py:49-76`). An attempt may come to a
value, to an exception that is or is not retried, or to a response with one of
the statuses the policy distinguishes, with or without a body that asks for a
human and a `Retry-After`. Delays are counted in halves of a unit, so that the
jitter between one half and three halves has its ends in the model, and `Growth`
is the base delay doubled with every attempt. The wait a
site asks for with `Retry-After` has no bound in the code; `WaitsAreBounded`
speaks of the waits the policy chooses.

`RateLimiter` is the fixed window of one source in one process: `window` is the
stored start and count, `granted` and `denied` are history: how many requests were
allowed up to each moment, and when one was not. The limiter is an
object of a process; nothing limits a source across processes.

### AdapterPipeline

`stage` is the call of `AdapterRunner` that is next. Adapters are somebody
else's code: each of their calls may return a good value, a value of the wrong
type, or raise any of the classes the handlers tell apart, `BaseException`s
included. `Classified` is what the except clauses make of it, which depends on
their order and on the class hierarchy of `adapters/base.py`; `StageError` is the
class that each stage turns an ordinary exception into. What
`canonical_json_bytes` refuses and what the hash of the body may raise are stages
of their own.

### BrowserSession

`page` is what the site shows to the profile, `session` the Redis value. A use of
the profile and its recording are separate steps (`Observe` and
`RecordObservation`; `LogIn` and `RecordRefresh`), because nothing ties them
together: uses overlap, and their recordings come in any order. The `set` of the
store may raise with or without effect, and the run or the operator may never
record (`ObservationIsLost`, `RefreshIsLost`). `lastUse` is the state the last use
calls for; `inOrder` says that it met no other use and was not lost.
`StoredIsLastUse` is about such a use alone: it puts the stored state right
whatever the uses before it left behind. The ones that overlap or are lost may
leave any of their states, a refresh overwritten by an older observation among
them.

The refresh time is modelled by what saving and reading do to its zone: `_save`
writes `isoformat()`, `fromisoformat` reads a fixed offset. The design document
lets a failed profile become ready only by a manual refresh
(`src/docs/superpowers/specs/2026-07-11-p4-02-edge-session-management-design.md:32`).
`record_observation` looks at nothing that is stored and takes a ready observation
over any state, and so does `RecordObservation`: `StoredIsLastUse` is what the code
promises, and the rule of the design is not one of its properties.

### EdgeRuntime and SafeFragment

`phase` is the next call of `_browser_runtime` (`tasks.py`) and
`ManagedEdgeRuntime.run`. Each may fail. `failed` and `pageError` are the two
local variables that decide which error is raised when several calls failed,
`errors` is their history. `CauseReachesCaller` says what the code means by them:
the last error outside of closing, an artifact that could not be written
included. That covers the case of a source id with a hyphen, which is valid
everywhere but in `browser_artifacts.py:12`: its `ValueError` replaces the error of
the operation. Every call may fail, also by the soft limit that hits it. Not
modelled is a limit that hits between two of them, after the launch has returned
the context and before the `try` statement that closes it: the context is then
closed by the end of Playwright alone.

`SafeFragment` takes the handler calls of `HTMLParser` as its tokens. A validator
state is the stack of open elements with the flags of
`_SingleTableRootValidator`; there is one of the fragment and one of the output
of `_SafeFragmentSanitizer`, which makes "what is written is a single table" a
state predicate. `skipped` is the sanitizer's stack of removed elements. Any tag
may be opened, closed, or written `<tag/>`; the sets of removed and void tags
overlap as in the code. Text and attributes are left out. That `<table>` itself is
neither removed nor void is `FragmentAssumption`.

Two things make the output something else than a table, and both are in the code
as it is: a kept `<td/>` is written back as `<td>`, which nothing closes
(`handle_startendtag`, `browser_artifacts.py:209-219`), and a removed `<input>` has
no end tag to end the skipping. `diverged` records that one of them has happened.
`TableIsKept` says that an accepted fragment gives a single table exactly if it has
not, `OutputFollowsFragment` that until then nothing outside of removed elements is
lost or left open, and `RemovedStaysOut` that what is inside of removed elements
stays out in any case.

### EdgeSupervisor

The statements of `start_edge_worker_supervisor.ps1`, the exits of the worker, the
restarts of the scheduled task. `usable` stands for what `browser_worker.main`
checks before it starts Celery. A killed supervisor leaves its worker behind
(`orphans`), and the next one starts another.

### Alerts

An evaluation goes through the rules; for each it reads the stored state and
writes it if it changed, in separate steps, any of which may fail
(`EvaluationFails`, before or after Redis applied a write). Conditions are levels
of a measure against its threshold for the three comparisons of `_conditions`.
Evaluations overlap: nothing in the code keeps two of one source apart. `notified`
and `judged` are history: what the readers of events know, and what was found
last; `judged` is "overtaken" where an evaluation kept a state that another one
had replaced since it was read. `crossed` holds the evaluations that have met
another one, `unsure` the rules of which an event was lost to a failure or stored
by a crossed evaluation, until an evaluation that met nobody returns an event of
them. The properties except these and nothing else. What the exceptions stand
for is in the code: an evaluation that fails after a write has stored a transition
that nobody is ever told of, against the plan of P5
(`src/docs/superpowers/plans/2026-07-12-p5-observability-failure-handling.md:224`), and
two that overlap report one transition twice.

### Metrics, FailureSnapshots, Inspection

`Metrics` keeps the order of the Redis commands of each call
(`metrics.py:61-125`), lets calls interleave and stop anywhere, and lets a scrape
read at any moment. Amounts are one, and a gauge is known by the time of its call.

`FailureSnapshots` lists the directory, looks at each file and unlinks it in
separate steps; cleanups overlap. A file that another cleanup took makes the task
fail and leave the rest, so `CleanupIsComplete` is about the ones that return.

`Inspection` has no state in the code. Its model moves one measure at a time and
compares reports: the status as a function of twelve measures is monotone.

## 3. Checks

| Run | Instance | Shows |
|---|---|---|
| `lease` | 2 runs of one source, limits enforced, threads late, Redis failing, crashes | `TypeOK`, `OperationHoldsLease`, `ImplementsExclusion`, `LeaseIsRecovered`, `EveryRunEnds` |
| `unlimited` | 2 runs, no limits, Redis and metrics failing | `OnlyOwnerEndsLease` and `ReturnedRunIsSettled` when leases do lapse under operations |
| `delivery` | 2 messages of one source, 2 runs, 1 retry, 1 early redelivery, 1 worker that dies, limits enforced, Redis and metrics failing, interrupts at any point | `LossNeedsLeftLease` |
| `schedule` | 2 sources, intervals 1 and 2, one source always failing, 1 crash, 1 command | `TypeOK`, `SpacedDispatches`, `UndisturbedPauseIsKept`, `DueSourceIsServed` |
| `records` | 3 transactions, 2 ids, 2 fingerprints, an id with two contents, threshold 2, any failure | `ImplementsCollections`, `LogTellsContent`, `ActiveUntilThreshold`, `InactiveEventOnTransition`, `RedeliveryIsSilent`, `TransactionsEnd` |
| `libraries` | the thirteen components of `MCLibraries` | see below |
| `double_record` | metric store raises | `OneTerminalRecord` fails |
| `lost_work` | 1 message, 1 worker that dies | `NoWorkIsLost` fails |
| `pause_lost` | a pause that overlaps a tick | `PauseIsKept` fails |
| `redis_probe` | 3 callers that report | `OneRedisProbe` fails |
| `unreadable` | 2 observers and the operator of a profile | `RefreshIsReadable` fails |
| `lost_rest` | a removed element without an end tag | `SkippingEnds` fails |

The properties of `libraries`, by component:

| Component | Instance | Properties |
|---|---|---|
| `CircuitBreaker` | 4 callers, threshold 3, cooldown 4 | `OneProbe`, `RejectionEnds` |
| `RedisCircuitBreaker` | 3 workers that may die, threshold 2, cooldown 2 | `FailuresAreCounted`, `RedisRejectionEnds` |
| `Retries` | policies of 0 to 3 attempts, growing past the maximal delay | `RefusalIsFinal`, `WaitsAreBounded` |
| `RateLimiter` | 2 requests per window of 3 moments, 7 moments | `TwoWindowsAtMost` |
| `AdapterPipeline` | responses of 0 to 2 items | `ErrorTellsStage`, `ResultIsComplete` |
| `SafeFragment` | 6 tags: `select`, `option` and `input` are removed, `input` and `br` void; depth 5 | `RemovedStaysOut`, `OutputFollowsFragment`, `TableIsKept` |
| `BrowserSession` | 2 observers and the operator, overlapping and failing | `StoredIsLastUse` |
| `EdgeRuntime` | every combination of failing calls | `CauseReachesCaller`, `ProfileIsReleased` |
| `EdgeSupervisor` | 2 restarts of the worker, 1 of the task, 2 kills | `BrokenWorkerIsGivenUp` |
| `Alerts` | 2 evaluations that fail and overlap, 2 rules with opposite comparisons | `NotifiedIsStored`, `StoredIsJudged`, `EventsAlternate` |
| `Metrics` | 2 recorders, 2 calls of any kind, cut off anywhere | `ScrapesAddUp` |
| `FailureSnapshots` | 2 files, 2 cleanups, retention of 1 day, 4 days | `CleanupIsComplete` |
| `Inspection` | up to 3 runs of either outcome, 4 items, 3 baselines | `WorseIsNotHealthier` |

### What the failing runs say about the code

* `double_record`: `tasks.py:148` records the success inside the `try`, so a
  failing metric store turns a finished run into a failed one as well.
* `lost_work`: a worker dies, its delivery is put back (`queueing.py:48`) and taken
  by another worker within the 90 s that the lease of the dead run lives on. The
  run is refused (`tasks.py:115`), returns `skipped_overlap` and is acknowledged:
  nothing of the task is left, against the accepted item of `TODO.md:242`. Run
  `delivery` shows what else it takes: a message is lost only to a lease that a run
  has left behind, because it was killed, or because it raised and could not
  release (an interrupt outside of the `try` statement, an acquisition whose reply
  was lost, a release that failed).
* `pause_lost`: see `scheduler.py:74-77` and `85-99`. The same race in the other
  direction (a pause that loaded before and saves after the tick) restores the
  old `next`, and the source is dispatched twice in an interval: that is the
  exception `rewound` of `SpacedDispatches`.
* `redis_probe`: the state expires together with its cooldown
  (`resilience.py:177`), so that after it every request is admitted.
* `unreadable`: `get_state` answers "unknown" after every manual refresh
  (`browser_session.py:161-189`): a time read back by `fromisoformat` has a fixed
  offset, and `_validate_beijing_datetime` accepts nothing but the zone itself.
  The first step of a counterexample is the operator's login, the second its
  recording.
* `lost_rest`: `<input>` is in `_REMOVED_TAGS` and in `_VOID_TAGS`
  (`browser_artifacts.py:17-27`). The sanitizer waits for an end tag that does not
  come and drops the rest of the table, its end included. That is one of the two
  ways to an artifact that is no table; the other, `<td/>`, needs no run of its own:
  `TableIsKept` says that each of them always leads there, and nothing else does.

A conflict that is no run of its own: two first deliveries of a source race for
the insert of its fetch state, and the one that waited fails
(`record_repository.py:67-74`, `InsertConflict`). The design document of P1-03
promises a retry there. The properties of `records` hold with that failure.

### Bounds and why they suffice

Two runs of one source are enough for every violation of exclusion: it is a
statement about pairs, leases of different sources share nothing, and the proofs
cover any number. The time constants are the smallest that keep the order of
the real ones. `MaxTime`, `MaxCrashes` and `MaxCommands` bound the scheduler's
clock and its disturbances; a clock of 3 with intervals 1 and 2 spans outages
longer than an interval and two dispatches around a crash. Three transactions
make circular waits of three and a writer between two others possible. The
collections of `records` are the empty one, one that gives a record two contents,
and two records in an order and with a content that conflict with it. Four callers of a circuit with threshold 3 allow two late reports while a
probe is in flight. Counters of the circuits saturate at their threshold.
Symmetry, of runs or of messages, is used only where no liveness is checked.

Two messages and two runs are enough for `TaskDelivery` to lose a message: one run
leaves a lease, the other is refused it. Both may be deliveries of one message,
given back or retried, or of two. The proof of `LossIsExplained` covers any number
of either. Its limits are 1 and its lease 2 units, the smallest values that keep
the hard limit below the lease.

In `libraries` the bounds leave room for the case each property is about: a
second window that begins where the first ends and a stretch across both; a
response whose second item fails after the first passed; tables in cells and
removed elements in removed elements up to depth 5, where a void, closed or
unbalanced tag can meet every stack, and `<input>` both of its sets; a cleanup that meets a file another one removed and a
file that expires between listing and return; a circuit with two late reports
while a probe is in flight; a rule that another one precedes and one that another
one follows, with failures and a second evaluation before, between and after
them. Edge operations and adapter runs are finite and are
checked completely. The proofs of section 4 remove the bounds for every safety
property; the liveness properties hold for the instances above.

A transaction, a request, a browser operation or a run of an adapter is one shot
and ends for good: `records`, `libraries` and `lost_rest` do not check for
deadlock. `TransactionsEnd` is the property that excludes being stuck where
something waits.

### Fairness

* `SourceLease`: each thread is scheduled (`WF` of `MainStep` and `BeatStep`),
  the pool kills at the hard limit, time passes. Tasks need not arrive and
  operations need not end: `OperationReturns` and `OperationRaises` are not fair.

* `Scheduler`: the container is restarted and its loop runs, a `pause` call
  completes, time passes. Registration of each source is strongly fair: main
  ends when it fails and is restarted by the container policy, so it is tried
  again and again, and Redis must let it through some time.
* `RecordRepository`: a worker goes on with its transaction and PostgreSQL
  resolves deadlocks.
* `CircuitBreaker`: time passes and requests report. A probe that is abandoned
  leaves `half_open` set and the source rejected for ever (`resilience.py:105`);
  `ProbesReport` states the assumption that excludes it.
* `RedisCircuitBreaker`: only the clock of Redis. Workers may die at any point.
* `EdgeSupervisor`: the script runs on, and a worker that cannot start ends. A
  worker that can start need not ever end.
* `TaskDelivery` and the other libraries have no liveness property and no fairness.

## 4. Proofs

Every invariant and every safety action property that a passing run checks is
stated by a theorem. All theorems hold for arbitrary sets of sources, runs,
messages, transactions, records, workers, callers, evaluators or tags and
arbitrary numeric constants that satisfy the named assumptions of the module.

| Theorem | States | Extra assumptions |
|---|---|---|
| `TypeCorrect` | `SourceLease!TypeOK` | none |
| `OperationIsCovered` | `OperationHoldsLease` | limits enforced, `HardLimit < LeaseTtl` |
| `LeaseImplementsExclusion` | `SourceLease` refines `SourceExclusion` | the same |
| `LeaseEndsByOwner` | `OnlyOwnerEndsLease` | none |
| `ReturnedIsSettled` | `ReturnedRunIsSettled` | none |
| `DeliveryImplementsLease` | `DeliverySpec => Spec` of `SourceLease` | none |
| `DeliveredOperationIsCovered` | `OperationHoldsLease` under redelivery, retries and lost workers | limits enforced, `HardLimit < LeaseTtl` |
| `BrokerTypeCorrect` | `BrokerTypeOK` | none |
| `LossIsExplained` | `LossNeedsLeftLease` | none |
| `SchedulerTypeCorrect` | `Scheduler!TypeOK` | none |
| `DispatchesAreSpaced` | `SpacedDispatches` | none |
| `PauseHolds` | `UndisturbedPauseIsKept` | none |
| `RecordsTypeCorrect` | `RecordRepository!TypeOK` | none |
| `AbsencesDecideActivity` | `ActiveUntilThreshold` | none |
| `RowsStayLocked` | `NoUpdateIsLost`: a row that a transaction has locked is neither changed nor locked by another before that one ends | none |
| `OneTransactionReconciles` | at most one transaction of a source is between its fetch state and its commit | none |
| `TransactionsAreSerializable` | `RecordRepository` refines `Collections` | none |
| `EventsTellContent` | `LogTellsContent` | none |
| `InactiveIsTold` | `InactiveEventOnTransition` | none |
| `RedeliveriesAreSilent` | `RedeliveryIsSilent` | none |
| `BreakerTypeCorrect` | `CircuitBreaker!TypeOK` | none |
| `OneProbeAtMost` | `OneProbe` | none |
| `RedisTypeCorrect` | `RedisTypeOK` | none |
| `FailuresCounted` | `FailuresAreCounted` | none |
| `RefusalEndsRetries` | `RefusalIsFinal` | none |
| `WaitsStayBounded` | `WaitsAreBounded` | none |
| `TwoWindowsAlways` | `TwoWindowsAtMost` | none |
| `ErrorsTellStages`, `ResultsAreComplete` | `ErrorTellsStage`, `ResultIsComplete` | none |
| `SessionFollowsUse` | `StoredIsLastUse` | none |
| `CauseIsLearnt`, `ProfilesAreReleased` | `CauseReachesCaller`, `ProfileIsReleased` | none |
| `RemovedNeverWritten`, `OutputIsTheKeptPart`, `TablesStaySingle` | `RemovedStaysOut`, `OutputFollowsFragment`, `TableIsKept` | none |
| `AlertsTypeCorrect` | `AlertsTypeOK` | none |
| `ReadersKnowAlerts`, `AlertsFollowConditions`, `EventsTakeTurns` | `NotifiedIsStored`, `StoredIsJudged`, `EventsAlternate` | none |
| `ScrapesAlwaysAddUp` | `ScrapesAddUp` | none |
| `CleanupsAreComplete` | `CleanupIsComplete` | none |
| `WorseStaysUnhealthy` | `WorseIsNotHealthier` | none |

`OperationHoldsLease` is not inductive: nothing in it says why a lease has not
lapsed. The strengthening relates a lease to the age of its run. From the step
that acquires it, a live run owns its lease and the lease has at least
`LeaseTtl - age` left; the clock takes one from both, renewals only add, nobody
else can delete or set the key, and the run is killed before `age` exceeds
`HardLimit < LeaseTtl`. So what is left is positive while the run lives.
`LeaseImplementsExclusion` follows: two running operations of one source would
both own one key.

`ReturnedRunIsSettled` says nothing of the way to a return. `StageIsTold` does, for
every control point: which events and outcomes a run has on the books, that its
outcome is a return only after the success was recorded, and that the heartbeat
is dead from the join on. No assumption on limits is needed: a run that lost its
lease still releases with a token comparison, and no other run can give it one.

`DeliveryImplementsLease` maps every step of the queue to a step of the runs or
to none, so that what is proved of `SourceLease` holds of the composition.
`LossNeedsLeftLease` needs five facts (`LossInvariant`): the owner of a lease is a
run of its source between acquisition and release, or one that was killed or
raised (`OwnersHold`); a run that ended with an outcome has served its message; a
run that was skipped was refused by some other; a run that refused is at work, has
served the message, or was killed or raised (`RefusersHold`); and a message that
is sent has a copy in the queue, with a worker, or is served or refused
(`CopyRemains`). Where a message is gone, the last one leaves only the refusal, and
the fourth explains it. Nothing is assumed of Redis or of the point where a soft
interrupt hits: a run that raises without releasing is among those that left a
lease.

`SpacedDispatches` needs that the stored next run of a source is at least an
interval after its last dispatch, unless a `pause` call has put back an older one
(`NextFollowsLast`), that a tick about to dispatch has stored such a next run
(`DispatchIsStored`), and that no dispatch lies after the time a pass works with
(`LastIsPast`), so that the save after a rewound schedule is right again.
`UndisturbedPauseIsKept` needs that a tick about to save meets a confirmed pause
only where that pause wrote since its load (`SaveIsJustified`).

`ActiveUntilThreshold` is proved together with the same of every draft, since
drafts become rows, and with the cursor of a transaction staying inside its
collection. `RowsStayLocked` is about the gap between no row and a row: SELECT FOR
UPDATE locks nothing where there is no row, so the invariant says that whoever
works on an absent row holds its advisory lock, and that whoever is about to
select holds the advisory lock of that id.

`TransactionsAreSerializable` maps the commit of a transaction to `Persist` of its
collection and every other step to none. What has to be shown is that the drafts
a transaction publishes are what `Taken` makes of the rows as they are at that
moment, although it read them one after the other at READ COMMITTED. That is
`WorkInvariant`: for each record, the draft and the news of a transaction are
`Taken` of the committed row after the items reached so far (`WorkFollowsItems`),
and a record it has not reached has none. It survives the steps of others
because a row with a draft is locked (`RowsStayLocked`), and it reaches the
absent records because only one transaction reconciles at a time
(`OneTransactionReconciles`) and every candidate of its query is looked at again
under its lock.

The theorems about events are then proved of a step of `Persist` and hold of the
transactions through that refinement. `LogTellsContent` becomes inductive for one
record with its log (`Story`): appending an update that changes the content, an
inactive event, or nothing keeps it, and `EventsOf` is a sequence of such
appendings, one per item. `RedeliveryIsSilent` needs that the rows have the content of the response persisted
last (`LatestIsStored`), of the last item that names them (`LastItemDecides`).
Nothing in the code excludes a collection that gives an id two contents: the
second overwrites the first, and a redelivery writes both again as events. The
property speaks of it id by id (`OneContent`): the content never changes, and an id
with one content has no events but absences.

`OneProbe` needs that a probe leaves the half-open mark and that the mark is only
removed with the opening. `FailuresAreCounted` needs the same of the copies that
workers are about to write: each is open exactly at the threshold, and the copy of a
worker that nobody has overtaken is what is stored with its own failure added
(`FailuresInvariant`).

`RetriesInvariant` says where the loop is (`LoopIsInStep`): every attempt but the
last was answered with something worth a retry and followed by one wait, and the
wait after attempt `i` is one, two or three times `Delay(i)` or what the site
asked for. `Delay` does not shrink because `Growth` doubles, up to the maximum.

`TwoWindowsAtMost` is not inductive, since it does not say what the stored window
has counted. `WindowCounts` does: its count is what was granted since it began,
nothing was granted after its end, and a stretch that ends where it begins saw at
most one window's worth. A stretch of a window's length overlaps two of them at
most, whatever was requested.

In `AdapterPipeline`, what was raised is what the handlers make of the first fault
and the items parsed are those kept and those left (`RaisedIsClassified`,
`ItemsAddUp`). In `BrowserSession`, while the last use is in order, nobody else is
between a use and its recording, and what is about to be recorded is that use
(`SessionInvariant`). In `EdgeRuntime`, `EdgeInvariant`
says for each phase which of the two local variables hold the last error of the
history (`ErrorsByPhase`) and what of page and context is open (`OpenByPhase`).

`FragmentInvariant` relates the two parsers (`Aligned`). The open elements of a valid
fragment begin with those that are kept; the next one is removed, and `skipped` has
one entry for each open element of its kind from there on (`Counted`). So the
skipping ends with the element that began it. What the validator of the output has
on its stack is the kept part as long as nothing diverged, and longer than that, for
good, once a `<tag/>` was written as `<tag>` (`Output`). The other state is the endless
one: a void element is skipped, no end tag ends that, and the output never gets the
end of its table (`EndlessSkip`). Either way an accepted fragment that diverged has no
table to show, which is the half of `TableIsKept` that says the defects are real.

The alert theorems rest on `AlertsInvariant`: what an evaluation that met nobody has
read is what is stored, the transitions it has stored are the stored state and news
to the readers (`Sound`), and any two evaluations under way have crossed and agree on
none but unsure rules (`CrossedApart`).

A hash that a scrape reads between two commands of a recorder adds up because a
recorder counts a run before its failure, and a success before its time.
`HashAddsUp` counts the recorders in between (`Owing`): failures and those that
still owe one are together no more than failed runs. Each recorder keeps the order
of its commands (`InOrder`), interleaved or cut off anywhere. `NothingIsMissed`
says of a cleanup that every expired file there is is in its list or the one it is
about to remove, whatever other cleanups take.
`WorseIsNotHealthier` is a comparison of two reports and needs no invariant but
the types.

Induction over data is replaced by two first-order lemmas of `Induction`: a set of
naturals that is not empty has a least element, which turns a proof by induction
into one about the first position that fails (`Growth` is monotone; the
steps of `Taken`); and a recursive function satisfies its equations, as the
iteration of a step function.

Only model-checked: the liveness properties `LeaseIsRecovered`, `EveryRunEnds`,
`DueSourceIsServed`, `TransactionsEnd`, `RejectionEnds`,
`RedisRejectionEnds` and `BrokenWorkerIsGivenUp`. They rest on fairness, and so on
ENABLED, which is beyond the prover. The properties of the failing runs are not
theorems, of course.

## 5. Not modelled

* `config.py`: the validation of one YAML file. Its results are constants here.
* `observability.py`: formatting and redaction of log lines. `SourceLease` keeps
  which terminal events a run emits, and in which order.
* `database.py` and the migrations: engine construction and schema scripts. The
  unique keys they create are in `RecordRepository`.
* `mock_server.py`: a fixture for demonstrations.
* Of `inspection.py` the parsing of the document and the rendering of the report;
  of `metrics_service.py` the text format; of `browser_runtime.py` the blocking of
  resources; of `browser_artifacts.py` the redaction of attributes and texts. They
  transform data that no property tells apart.
* Of `queueing.py` the routing to two queues and `queue_depths`, which only reads.
* Payloads, JSON and URLs. `next_run` and `get_state` only read. Locks `page:<id>`
  are defined but not used. Hash collisions of `hashtext` in the advisory lock
  only make more transactions wait.

Hazards without a property are listed in `PROJECT.json` with their reason. The
main ones: a crash between the save and the dispatch of a tick loses one run;
nothing orders collections by the time they were fetched; `autoretry_for` does not
cover the errors of the Redis client; an orphaned Edge worker and its successor
may share a profile.
