# Manager app backend: a TLA+ verification development

The repository (`src/`) is the backend of a workshop-management application: a
FastAPI service over PostgreSQL (async SQLAlchemy), Redis for queues, keys and
pub/sub, and a set of separate processes - task router, workers, two scheduler
runners, an IMAP watcher. This directory models the parts of it whose correctness
depends on order, time, concurrency or failure, checks the models with TLC and
proves their central invariants with TLAPS.

Paths below are relative to `src/app/beyo_manager/` unless they start with `src/`.

## 1. Inventory

### Parts that are modelled

**Execution engine** (`services/infra/execution/`).
*State*: rows of `execution_tasks` (state, try_count, locked_at, next_retry_at), the
Redis lists `queue:*`. *Operations*: `create_execution_task`; the router's passes
route, requeue retries, clean up stale, recover stuck; the worker's pop, claim, run
under a timeout, finalize, fail, rescue, shut down; the dead-letter tool.
*Hard*: router and workers are processes that write the same rows by primary key
with no version check; ids are lost with Redis and duplicated by recovery; a process
dies at any point. *Correct when*: no unsettled row is out of reach of every scan, a
live worker's row is not taken away as stale, COMPLETED means the effect happened, a
task settles in the end, disabled outbound work stays silent.

**Delayed scheduler** (`services/infra/schedulers/delayed_scheduler_runner.py`,
`scheduler_factory.py`). *State*: rows with state, scheduled_for, fired_at.
*Operations*: create, cancel, fire due rows, reset ERROR rows. *Hard*: read without a
lock, written later by primary key, so cancellations are overwritten; two runners
overlap in a deploy; `touch()` fails after the task was added. *Correct when*: a row
gives one task, and a due row is not passed over for ever.

**Recurring scheduler** (`recurring_scheduler_runner.py`,
`domain/schedulers/recurring_grid.py`). *State*: created_at, interval,
last_interval, last_error; the runner's cached next due time. *Hard*: a poll's clock,
read and commit are three moments; late polls; missed slots; a cached alarm that
outlives what it was computed from, or is lost with a restart. *Correct when*: one task
for each grid slot, no drift, due jobs fire although the app sleeps.

**Sleep mode** (`services/infra/sleep/activity_tracker.py`,
`routers/middleware/activity.py`, the sleeping branches of router and runners).
*State*: the Redis keys `system:last_activity` and `system:sleeping`; cached alarms.
*Hard*: check-then-set across processes, work that arrives while everything sleeps.
*Correct when*: whatever is due or open is dealt with without a user; by default
(`sleep_mode_enabled` on, `config.py:91`; `worker_progress_file` unset, `config.py:105`)
the code does so only for rows a cached alarm covers (section 3).

**Stock report versions and scheduled activation**
(`services/commands/stock_report/*version*.py`, `_version_schedule.py`,
`repair_stock_report.py`, the activation task). *State*: a version's state, active_at,
scheduled_activation_at and the scheduler row that serves it. *Hard*: the schedule
lives twice, in a column and in a scheduler row; fires come late, twice, out of order
or for a schedule since moved; request clocks are stamped before the lock is waited
for. *Correct when*: row and column agree, no schedule is lost, the later plan wins,
nothing is published at a time it does not carry.

**Task steps and the task that follows them** (`services/commands/task_steps/`,
`services/commands/tasks/`, `services/commands/working_sections/`). *State*: a step's
state, readiness and two dependency counters, its history of state records with one
open record, edges between steps, the task's state and deletion mark. *Operations*:
transition, batch transition, force ready, pause the steps of a task, resolve or end a
task, delete, restore, add and remove steps and edges, edit the dependencies and the batch
flag of a section, which re-stamps its open steps. *Hard*: READ COMMITTED transactions that load, decide and write with few row
locks; counters incremented from what was read; a partial unique index that aborts one
of two writers. *Correct when*: each live step has one open record that bears its
state, readiness says what the prerequisites say, the task's state is the one its
steps call for, who starts a step has left the other one.

**Worker shifts** (`services/commands/users/`, `services/tasks/users/`,
`services/tasks/connecteam/`, `services/tasks/analytics/process_step_transition.py`).
*State*: STARTED and ENDED markers, derived segments, declared states, step records.
*Operations*: clock in, clock out, toggle, declare and close a state, live reconcile,
rebuild of a shift when it closes, automatic clock-out, Connecteam clock events.
*Hard*: three sources close a shift, events come late and out of order, a reconcile
lags behind the steps it reads, work runs over midnight. *Correct when*: shifts do not
overlap or pass their midnight, a closed shift is tiled by what the sources say, the
live state is right once the queue is drained, a forgotten shift ends.

**Stock report rows and assignments** (`services/commands/stock_report/`,
`services/queries/stock_report/consistency.py`, `services/commands/items/delete_item.py`).
*State*: assignments of tasks to rows with a state, three counters on a row, goals
with credit and flags, missing and requested quantities. *Operations*: create, delete,
sync with the task, Scanner's demand and processed items, quantities set by hand,
refresh of requested, going live, cascades of deletions, repair. *Hard*: counters kept
beside what they count, lookups before the locks. *Correct when*: counters, goals and
flags equal a recount, an active assignment has the state its task calls for.

**Upholstery inventory** (`services/commands/upholstery/`, the upholstery commands of
`services/commands/items/`, what deleting and restoring a task does to fabric).
*State*: stored, needed, in-use and ordered amounts, threshold and condition of a
fabric; the item upholstery of an item with its active requirement; requirements;
orders. *Operations*: create a fabric with or without an inventory row, create the
row by request, create, change and delete an item upholstery, set its quantity,
split a requirement by a surplus, take into use and complete, reallocate, mark ordered,
resolve, create and receive an order, order and confirm by hand, set the stock or the
threshold, delete and restore the task. *Hard*: amounts kept beside the requirements
they sum up, requirements split in two, no row lock. *Correct when*: amounts and
condition are those of the requirements, no more is promised than is in stock, and
stock that was distributed leaves nothing idle.

### Parts that are not modelled

| Part | State and operations | What is hard in it |
|---|---|---|
| Cases (`commands/cases`) | messages, participants, unread counters | counters against messages |
| Email sync and IDLE watcher (`infra/email_idle`, `tasks/emails`) | connections, cursors | reconnects, duplicated sync |
| Shopify (`commands/shopify`, `tasks/shopify`) | webhooks, inventory writes | duplicated and reordered webhooks |
| Item economics, notifications, presence, images, auth, presentations, customers, reference data | one row at a time | little of their own |
| Queries, routers, serializers, supplier clients, migrations, scripts | none | read-only, I/O or generated |

`PROJECT.json` lists every part with its sources and the reason for its status.

### How the parts interact

Commands run in one transaction each and leave work behind as rows: execution tasks
(picked up by the router through `pg_notify` or a 30 s poll) and scheduler rows
(picked up by the runners, which turn them into execution tasks). Handlers run in
worker processes and call the same command functions. A step's transition queues the
analytics task that reconciles the worker's shift; a task's transition queues the sync
of its stock assignments. Every request passes `ActivityMiddleware`, which touches the
activity tracker; the router's monitor puts the app to sleep after an idle threshold,
and router and runners then stop polling.

## 2. Modules and the code they stand for

| Module | Models | Extends |
|---|---|---|
| `TaskExecution` | execution engine | |
| `TaskContract` | what a caller of `create_execution_task` may rely on | instantiated by `TaskExecution` |
| `DelayedScheduler` | delayed rows and runner | |
| `VersionActivation` | version commands, repair, activation task | `DelayedScheduler` |
| `SleepyActivation` | version activation under in-app sleep, for its liveness | `VersionActivation` |
| `SleepMode` | tracker, monitor, middleware, router loop, delayed runner's loop | `DelayedScheduler` |
| `RecurringScheduler` | grid, recurring rows and runner, its sleep branch | |
| `TaskSteps` | steps, state records, edges and the task above them | |
| `WorkerShifts` | the working day of one worker | |
| `StockAssignments` | assignments, row counters, goals, demand, repair | |
| `UpholsteryInventory` | fabric: amounts, requirements, orders | |
| `MC*` | constants and symmetry for TLC | the module of that name |
| `*_proofs` | theorems and proofs | the module of that name |

Operators keep the names of the functions they translate where TLA+ allows it;
`PROJECT.json` "map" gives the lines of each. Definitions marked *mutant* are
plausible bugs in the operator below them; they are used only to confirm that a
property notices them.

**Granularity.** A step is a database transaction or a Redis command, the unit other
processes can see. Where the code reads with a plain SELECT and commits later, read
and commit are two steps and the commit writes by primary key, whatever happened in
between - that is what the ORM does. Commands under an advisory lock or row lock are
one step. A clock stamped before a lock is waited for (`ServiceContext.now`) is any
time up to a bound (`MaxLag`, `LockWait`) before the step.

**TaskExecution.** `state`, `tryCount`, `lockedAge`, `retryIn` are the columns (times
as ages, saturated above `StaleAge`: no condition tells larger ages apart); `queue`
the Redis lists; `rpc`/`batch` the router's program counter and the rows it read;
`wpc`/`cur`/`runAge` the workers. `Tick` is disabled while a transaction is under way
(they take milliseconds, ticks are minutes) and while a handler is at its timeout,
because `asyncio.wait_for` ends it. Crashes, errors, Redis losing a list and the
dead-letter tool each spend one of `MaxFaults`. `asleep` is what `is_sleeping()` told the
router when it last asked; asleep it makes no pass, and while it waits the answer may
change at any time or never.

**TaskContract.** No row, queue, lock or clock: a task is "none", "open", "done",
"failed" or "cancelled", has attempts left, and may have been performed. Delivery is
at least once and a settled task may be open again. `TaskExecution!Contract` maps the
states of a row to the five (`StatusOf`), `MaxTry - tryCount` to the attempts left and
the outbound tasks to the silent ones once the switch is off.

**DelayedScheduler.** `ReadDue`, `FireDue`, `RetryErrored` are the poll; `RunnerFails`
is any exception or death, which rolls the transaction back. `made` counts tasks per
row for the properties; `tasks` counts those not yet run.

**VersionActivation.** One action for each command (create draft, create active,
update schedule, activate by hand, delete, repair) and for each way a run of the
activation task ends (`FireRefused`, `FireSkipped`, `FirePublishes`, `TaskFails`).
A task may run again after it committed: the execution engine delivers at least once.

**SleepyActivation.** The same commands, tasks and runner with the sleep key beside
them, set and deleted by anyone at any time. The runner polls only when it finds the app
awake, and every row it fires wakes the app (`touch()`). Used for `EveryPlanSettles`;
the safety properties need no key and are checked without one.

**RecurringScheduler.** `grid_point`, `recurring_is_due`, `recurring_next_run_at` are
the arithmetic, over ticks. Rows may start with a `last_interval` off the grid, as the
version before the grid left them. An interval that is not positive makes the grid
undefined, and the operators are used only where the code would evaluate it. `heard` is
history: the rows from which a runner's cached alarm was computed. `progressOn` says
whether the progress file is set and never changes; a run explores both.

**SleepMode.** The delayed runner's loop around the poll of `DelayedScheduler`, the
monitor's three Redis commands as three steps, the router's loop reduced to "drain
what is open". `touch()` is one step; the header of the module says why.

**TaskSteps.** One task. `db` is the committed database as one record: rows of steps,
records, edges, section dependencies, the task. A command that changes a step's state is three
steps: `Load` (its SELECTs), `Apply` (its reads at flush time and the computation) and
`Commit`; the others are `Apply` and `Commit`. `Merge` writes only the columns the
command changed, over whatever is committed by then, as the ORM's UPDATE does;
`Overtaken` is the unique index on open records, which aborts the later writer;
`Accepted` the CHECK constraints and the unique index on active edges. `Rollback` is
possible at any time. Deleting and restoring a task lock it and are one step.
A step carries the `batch` stamp it got when it
was added; `sync_step_batch_flag` re-stamps the open steps of a section whose flag is
edited, and pauses nobody. `races`, `skewed` and `excused` are history: how often commits
overlapped, which steps gained or lost by hand a COMPLETED prerequisite (the counters are
not recounted then), and who started a step for somebody else or was at work on a step
when it lost its batch stamp. Events, notifications, the
audit history and acknowledgments are left out; the fabric side effect of an
installation step is in `UpholsteryInventory`. The undo window
(`finalize_pending_step_completion`) is dormant: its scheduling is commented out.

**WorkerShifts.** One worker. All tables are one record value `Tables`; a command
computes the tables it leaves behind and `Commit` installs them unless a CHECK or a
unique index is broken. Every request advances the clock by one tick, jobs do not.
`disorder` remembers that something was applied out of the order of its instants: a
clock event that came after a later one, a clock-in reported after work that began
later, or a reconcile whose instant, read before it waited for the shift row
(`process_step_transition.py:70`), lies before a record it then reads. The properties
about the timeline ask that it has not happened; the first part of `ShiftsInPlace` and
`StaleShiftEnds` hold regardless. Rows of no length are not kept, and manual segments (a retired
endpoint) are left out.

**StockAssignments.** An assignment stands for one unit. Sessions are database
sessions with their lookups apart from their locks: the sync job, Scanner's processed
items and a manager's batch delete each discover ids first and lock afterwards; other
commands lock first and are one step. Moving a set of assignments at once is what
moving them one by one under the same locks leaves behind. `drifted` records that
the known counter defect (section 3) has struck; goals and flags are asked to add up
even then. Priorities, categories and criteria are edits of one row and left out.

**UpholsteryInventory.** The rules (allocate a pool, cancel requirements, recompute a
condition) are functions from the tables before to the tables after, and a command is
one step that composes them in the order of the code. The order in which requirements
are served comes from priorities and dates of the request: any order here, in tiers
where the code has tiers. Requirements that are settled and that nothing refers to are
forgotten, so that a few `Slots` serve long histories. A fabric may have no inventory
row (`NoRow`); `create_upholstery_inventory` gives it one, which says AVAILABLE with
nothing in stock. `stale` in a row is history: its condition has not been evaluated since
the row was created or its threshold changed. `served` is history too: the fabric whose
stock the last command distributed. Commands that overlap are not modelled (none
of them locks an inventory row; section 3), nor are deleting an inventory row and editing its name, supplier or list order, which are
catalogue work.

## 3. Runs

| Run | Expectation | What it shows |
|---|---|---|
| `exec_safety` | pass | two tasks (one outbound without a handler), two workers, a fault: types, no stranded row, live claims fresh, completion only after the effect, stale clean-up takes only abandoned rows |
| `exec_live` | pass | one outbound task, two workers, two attempts, two faults, a router that may find the app asleep at any round: nothing outbound has an effect after the switch, the task settles unless the app falls asleep first, and every step of the engine is a step of `TaskContract` |
| `version_safety` | pass | rows and schedules in step, one task per row, no schedule lost, constraints hold, the later plan wins, nothing is published at a date it does not carry; request clocks a tick late, one fault |
| `version_live` | pass | `SleepyActivation` with a batch of one and one fault: no due row passed over, every due plan settles unless the app falls asleep first, those that fell due during sleep included |
| `recurring_slots` | pass | one task per slot and no drift through failures, restarts, rows with no grid and the app asleep; a due job fires with no request coming, with the progress file off unless the app sleeps and the job is one the cached alarm was not computed from |
| `sleep_alarm` | pass | a cached alarm fires everything due from it on, through failing polls and a monitor that sleeps again |
| `steps` | pass | commands one after the other, edits of wiring and batch flag included: readiness is what the prerequisites say, the task's state follows its steps, one step at a time for whoever works for himself, unless a step he is at work on loses its batch stamp |
| `steps_overlap` | pass | two overlapping transactions: one open record per live step, bearing its state |
| `steps_lost_completion` | violation | a completion that overlaps the adding of an edge is counted by neither |
| `shifts` | pass | late events, lagging reconciles, work over midnight: disjoint, bounded, faithful shifts; a right live state once the queue is drained; a forgotten shift ends |
| `stock` | pass | two sessions, Scanner, managers and task commands: ledgers equal a recount, assignments follow their task, nothing covered is marked missing |
| `fabric` | pass | two items and an order over one fabric, with or without an inventory row at first, one command at a time: the amounts are a recount of the requirements, a condition evaluated since its row was created and its threshold set is what they say, what is promised is in stock, distributed stock leaves no requirement it would cover |

The violation contradicts a sentence of the repository's docs, quoted in
`PROJECT.json` "findings".

**Other disagreements the models show.** These definitions state what a doc or comment
says and fail in the model; no run is kept for them.

- `TaskExecution!OneOwner`: stuck-task recovery (`task_router.py:235`) overwrites a
  claim made since its read, and two workers run one task
  (`architecture/16_background_jobs.md:41` speaks of one worker).
- `DelayedScheduler!FiresOnce` with two runners, as in an overlapping deploy, and
  `SlotFiresOnce` likewise: both read the row before either writes it.
- `DelayedScheduler!ErrorsSelfRecover`: the reset of ERROR rows asks for rows not yet
  due, and every ERROR row is due, so none is ever reset.
- `RecurringScheduler!NoGridNoTask`: a row whose interval gives no grid gets a task in
  every poll.
- A delayed row that comes due between the poll and the query for the next alarm is in
  neither, and waits for the app to wake (`delayed_scheduler_runner.py:164`).
- `RecurringScheduler!FiresFromMemory`: `src/architecture/22_performance.md:516` says of
  "Job due, app sleeping, no users" that it "Fires on time - wakes from memory", and :519
  gives an "Externally added job while sleeping" five minutes. A runner whose next due time
  is None - restarted while the app sleeps, say - goes round its sleep branch and, with the
  progress file unset, asks for none (`recurring_scheduler_runner.py:59-65`); nor is a row
  added since in the cached alarm. With sleep mode on and the progress file off, both
  defaults, such a job waits for a request. `DueJobsFire` says which jobs fire all the same,
  and that with the progress file all do.
- A plan of a version waits in the same way: its row came due between poll and alarm
  query, its alarm went with a restart, or its task met a sleeping router. This is why
  `EveryTaskSettles` and `EveryPlanSettles` end in "or asleep".
- `SleepMode!OpenTasksAreRouted`: a `pg_notify` raised while the app sleeps is heard
  by nobody (`task_router.py:73`); the task waits for the next alarm or request.
- `WorkerShifts!ClosedShiftShowsWork`: what a rebuilt shift shows depends on how far
  the analytics queue lags (`_reconstruct_shift_middle.py:105`).
- `WorkerShifts!WorkGetsShift`: a late clock-out leaves a step WORKING with no shift
  open (`_clock_worker_shift.py:363`).
- `TaskSteps!OneActiveStep`: the working record is looked up by `created_by` only
  (`_user_working_record.py:29`), so a step started for somebody else does not pause
  his own; `OneActiveStepWhenSelf` is what holds. With commands one after the other a
  user also comes to work on two steps outside batches when batching is turned off for a
  section in which he has two steps WORKING: the open steps are re-stamped and nothing is
  paused (`_sync_step_batch_flag.py:51`).
- `TaskSteps!DeletedTaskRests`, and `TaskFollowsSteps` without its condition: under
  overlapping commands a step may be WORKING on a deleted task, and two transitions may
  each miss the step that makes the task READY.
- `StockAssignments!CountersAlwaysAddUp`: Scanner looks assignments up without a lock
  and, once it holds the locks, tests their state but not `is_deleted`
  (`process_items_processed.py:153`); one deleted in between is resolved and its unit
  subtracted a second time. `planning/intention.md:1735` (M1) promises equality after
  every commit; the repair command restores it, and `LedgersAddUp` is what holds.
- `UpholsteryInventory!DemandHasOwner`: deleting or replacing an item upholstery
  cancels its active requirement only (`update_and_delete_item_upholstery.py:291`); one
  that a surplus split off stays in demand with no owner.
- An inventory row created by request, or with the first item upholstery of a fabric,
  says AVAILABLE with nothing in stock, where `evaluate_inventory_condition` would say
  OUT_OF_STOCK (`create_upholstery_inventory.py:46`, `_inventory_mutations.py:63`), until
  a command evaluates it. A new threshold leaves the condition behind likewise.
- After a split, `restore_task` gives back the active requirement only, although its
  comment (`restore_task.py:188`) takes that amount for the need that was cancelled.
- Inventory rows are loaded without a lock (`_inventory_mutations.py:375`): two
  overlapping commands write one over the amounts of the other. The model has one
  command at a time, so this is read from the code and not checked.

**Bounds.** `MaxFaults` (0-3): each fault is used at any point, so one suffices for
single-fault windows and two or three for compounded ones. `MaxQueue` = 2: one id and
a duplicate. `MaxTime` 2-3 ticks: before, at and after a date, and a slot missed
altogether. Two rows or tasks and two versions: conflicts here are between pairs.
`BatchLimit` 1 makes the LIMIT bite, 2 does not. `StaleAge` = 2 > `HandlerTimeout` =
1, the relation `task_router.py:59` asks for. `Threshold` = 2 ticks leaves time for a
request and a due row before the app sleeps. Counters that only history needs
saturate at `MaxCount`. Runs with `CHECK_DEADLOCK FALSE` stop because the clock
reaches `MaxTime` or, in `fabric`, the commands `MaxSteps`. `Runners` is one in the passing runs: that is how the platform
deploys them. `EveryPlanSettles` looks at dates before `MaxTime` only, since a fire asks
for a clock past the date.
In `recurring_slots` an interval of two ticks has instants on and off its grid, one of
none has no grid, and three ticks leave time to be late, to miss a slot and to be restarted
in between.
`TaskSteps`: three steps make a chain and a fork, two sections a dependency that
stands beforehand in `steps` and is edited while steps exist; one section allows batches at
first, and an edit turns the flag of either; one user, since what a user has started does
not depend on the others (`OneActiveStepEach` is for any number); `MaxEdits` bounds edits of edges, steps and tasks, `MaxRaces`
the commits that land while another transaction is under way (two: a race, and a race
with its outcome). `WorkerShifts`: a day of 4 ticks and `MaxTime` 5 reach past one
midnight; `Delay` and `LockWait` 2 let an event or a reconcile come after two newer
requests. `StockAssignments`: two
tasks on one row, three assignments, quantities to 2 and `MaxEdits` 4 demands, creations,
board edits, task moves and removals. `UpholsteryInventory`: two items compete for one
fabric; a split needs a third requirement, so three slots; one open order; amounts of 1
and 2, stock and orders up to 2, so that a pool covers both, one or none; four commands
after up to two requirements were created.

**Fairness.** Weak fairness on the router's, the runners' and each worker's loop: each
is `while True` with every wait bounded (`blpop` timeout, `wait_for`, capped sleeps)
under a restart policy that brings a dead process back. What a fair loop does depends on
the sleep key, as sleep mode is on by default: asleep, the router makes no pass
(`task_router.py:108-113`) and the runners do not poll. Nothing makes the app wake, and
nothing makes it stay awake long enough. So in `TaskExecution` and `SleepyActivation`
only a router or runner that finds the app awake is driven on, no fairness is put on
waking, and the liveness properties allow "asleep" as an outcome. The execution engine is
one step in `SleepyActivation` (a task runs, while awake, in the end), which is what
`EveryTaskSettles` says of it. In `RecurringScheduler` the loop with its sleep branch is
modelled and fair as it is, asleep or not. Weak fairness on `Tick` where
something waits for time. In `WorkerShifts` the sweep that clocks out forgotten shifts
is a recurring job, and fair as such; with the app asleep that takes a runner that has its
alarm cached (`DueJobsFire`). Nothing makes a request come, an operator act, a
fault stop short of its bound, the monitor run or a handler return: a handler ends by
itself or by the timeout, which is fair. `TaskSteps`, `StockAssignments` and
`UpholsteryInventory` state no liveness: users decide what happens next.

## 4. Proofs

Each theorem holds for all values of the constants under the module's `ASSUME`s: any
number of tasks, rows, versions, jobs, workers and faults.

**`TaskExecution_proofs`** - `TypeCorrect`, `RecoverySeesEveryRow`,
`CompletedOnlyAfterEffect`, `LiveClaimsStayFresh`, `StaleCleanupIsSafe`. The last two
are the argument behind the comment "must exceed max(HANDLER_TIMEOUT_SECONDS)":
`RunsBounded` (time does not pass a handler at its timeout) and `LockNotOlderThanRun`
(a claim stamps the lock, later stamps only renew it) give that a live run's lock is
younger than `HandlerTimeout` < `StaleAge`, so the stale scan cannot read it; and
`StaleBatchAbandoned` carries that from the read to the commit, because a claim starts
from PENDING and only the router - busy - makes a row PENDING.

**`TaskContract_proofs`** - `EngineKeepsContract` (`Spec => ImplementsContract`: every
step of the engine, through the mapping, is a step of the contract or invisible) and
`SwitchedOffIsSilent`. The mapping is not enough by itself: a router that acts on a
batch, or a worker on an id, could touch a task never submitted, or run one the switch
forbids. `RInv` therefore adds to the engine's invariant `OnlySubmittedMove` (queued
ids, batches and running tasks are submitted ones) and `ClaimsAreVetted` (a worker
past the switch's test has a task with a handler that was not silent then). `Pushed`
and `Popped` give what the queues hold after an append or a pop, `Invisible` which
steps the contract does not see, `MappedStep` the step the others map to.

**`VersionActivation_proofs`** - `TypeCorrect`, `RowsServeDrafts`,
`SchedulesAreServed`, `ConstraintsAlwaysHold`, `PublishesAtItsDate`,
`LaterPlanAlwaysWins`, `OneTaskPerRow`. The checked invariants are not inductive: a
runner could bring a row back to ACTIVE behind the commands' back. `Inv` adds that rows
a runner holds were due when read and that ERROR rows are due; then the reset of ERROR
rows, which asks for rows not yet due, never takes one. The two action properties follow
from it. `OneTaskPerRow` (`FiresOnce`) is for one runner: what it holds between read and
commit is not yet fired, and nobody else marks rows.

**`TaskSteps_proofs`** - `TypeCorrect`, `RecordsFollow`, `ReadinessFollows`,
`TaskFollows`, `OneActiveStepEach`. Two invariants. `Overlap` holds whatever commits
between a session's reads and its own commit: a pending plan is *honest* - it changes a
step's state only where it opens a record in the new state or removes the step, a
property of the plan alone that no commit of others can take away - and `Overtaken`
leaves it honest or aborts it. That gives `RecordMatchesStep` under any overlap.
`Serial` is what holds while transactions have not overlapped (`~raced`): the tables are
`Consistent`, what a session loaded is current, and a plan is computed from the tables
it will be written to and leaves them `Consistent`. One lemma per rule says what it does
to the tables, and one that it keeps them consistent. `OneActiveStepEach` adds that a
step which starts outside batches leaves its user, unless he is excused, nothing else
outside batches (the records it closes are those of his steps without a batch stamp),
and that an edit of a section's flag adds to those steps only ones whose users it
excuses.

**`StockAssignments_proofs`** - `TypeCorrect`, `LedgersBalance`, `AssignmentsFollow`,
`CeilingHolds`, for any number of rows, tasks, items, assignments and sessions. `IInv`
adds to the four properties: `Standing` (blank assignments are blank in every column;
credit stands only on assignments awaiting or later, and names a goal that exists),
`Held` (whoever has written a task's state without its assignments holds every active
one of them: a sync job lists them while it holds the task, so nobody creates another),
`Bare` (rows not yet named have nothing that could drift, and only live rows have
snapshots), and `Counted` extended to such rows. The heart is `CountersFollow`: a
move's change of a counter is the change in the size of the counted set, whichever
branch of `_move_assignment` computed it, and `GoalsFollow` the same for the credit.
Every deletion, the cascades included, goes through one lemma (`Removal`).

**`UpholsteryInventory_proofs`** - `TypeCorrect`, `AmountsBalance`, `PromisesCovered`,
`NothingLeftIdle`, for any number of fabrics, items, orders and splits. `Sound` is the
invariant: an active requirement is its own item's, one that waits has a fabric and one
without a quantity has none, and every fabric is `Balanced` (what is needed and in use
are sums over its requirements, what is promised is at most what is stored). Sums and
allocation are recursive functions over sequences: `MetersAre` and `Allocation` show
that they exist, that the sum does not depend on the order, that what is handed out
fits the pool and what is passed over does not fit what is left of it. The condition is
part of `Balanced` for rows that are not `stale`; every command that changes stored,
needed or in-use amounts without evaluating it is shown to leave it right or `stale`. The guards that
clamp an amount at zero (`Max0`) then never bite, because the amount is the sum it is
reduced from. One lemma per rule, one `...Kept` per command. `IsFiniteSet` of items and
slots is assumed.

**`WorkerShifts_proofs`** - `TypeCorrect`, `ShiftsStayInPlace`, `OpenBelongsToCurrent`,
`LiveStateTrue`, `ClosedShiftsAreTold`, for any number of steps, reasons, days, delays and lock waits. `IInv`
has two layers. `Sane` holds in whatever order instants come: nothing is later than the
clock, nothing kept has no length, closed shifts end by their midnight and leave nothing
worked inside them. Where nothing came out of order the tables are also `Sorted` (what
is open belongs to the latest STARTED marker, which no ENDED marker follows; closed
shifts are apart) and, with the queue drained, `Settled`. One lemma says what a closure
does to the tables (`Closure`), one that a reconcile's passes exist (`RunsExist`: they
are a recursive function) and what they carry (`Tidy`), one what the reconcile writes
(`Projected`). The tables are one record, so each lemma is about a record and its
successor, and `Applied` carries it to the state. That a reconcile overtaken by a later
record breaks the argument is how the model came to count it as disorder.

`ClosedShiftsAreTold` is `ClosedTimeline`: every instant of a closed shift lies in one
segment, inside it, that shows what the sources say. A rebuild reads the segments of the
live reconcile next to the declarations and the steps, so what it makes of a shift is
right only if those segments are, and that is what `TInv` adds to `IInv`. It holds where
nothing came out of order, and has these parts:

- `Placed`: a segment that begins before a STARTED marker ends by it, and off shift none
  outlasts the last ENDED marker: a rebuild finds no segment of another shift.
- `Chained`: a segment of the current shift that was left was followed by another, so
  the shift has an open segment for the closure to end and no gap behind it.
- `Echo`: a segment that bears a declared reason has a declaration behind it at each of
  its instants, so the sweep's source made of segments adds nothing to the one made of
  declarations. `Shown` is what keeps it: an open declaration is what the open segment
  shows.
- `Whole`: no step record is empty and only pauses are marked as ended by the shift.
- `Told`: the closed shifts are told. `Upholds` says that it survives a command which
  leaves alone what was recorded before its own instant, and each later command does.

`RebuiltTells` gives `Told` for the shift being closed: `SourcesAre` names what the sweep reads,
`HeadOf` that its segments tile the shift, and its label at an instant is then compared
with `SourceState` source by source. Between a declaration and the reconcile that ends the
same command `Echo` and `Shown` may be false; `Neat` is what holds there and through the
passes (`PassNeat`). TLC checked `TInv` as an invariant first, with the constants of the
run and with two reasons and a clock of six ticks.

**`RecurringScheduler_proofs`** - `TypeCorrect`, `OneTaskPerSlot`, `NeverDrifts`, all
for one runner (with two, both read the same last_interval and the property fails). `Fresh` says what
a poll read is still what the rows hold, since nobody else writes last_interval;
`Served` says a slot with a task is at or before last_interval. The arithmetic
(`Multiple`, `GridPoint`) gives that the slot fired is the latest at or before the
poll's clock and later than the last one.

**Only model-checked**: the liveness properties `EveryTaskSettles`, `EveryPlanSettles`,
`DueJobsFire`, `StaleShiftEnds` and `CachedAlarmRings` (fairness and
ENABLED are out of the prover's reach; `SleepMode` and `SleepyActivation` promise nothing
else), and the violation of `steps_lost_completion`, which is a counterexample. Every other safety and action property of a passing run is a theorem.

## 5. Plan

1. `UpholsteryInventory`: overlapping commands, where the mutations of
   `_inventory_mutations.py` read, change and write without a row lock.
2. `VersionActivation` against `TaskContract` instead of its own `TaskEnds`.
3. Cases (unread counters), email sync (cursor), Shopify (webhooks out of order).

## 6. What stays out

Serialisation, wording, logging, pagination and read-only queries; HTTP, IMAP and
storage protocols; SQL isolation other than READ COMMITTED between the steps named
above; clocks of different processes disagreeing by more than a request's lag; the
readiness file's contents. Generated migrations, one-off scripts, routers and
serializers, which are most of the repository's lines, hold no state of their own:
that is why the mapped lines are a small share of it.
