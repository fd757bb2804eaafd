---------------------------- MODULE DelayedScheduler ----------------------------
(***************************************************************************)
(* The delayed scheduler: rows of delayed_schedulers and the runner          *)
(* processes that turn due rows into execution tasks                         *)
(* (services/infra/schedulers/delayed_scheduler_runner.py,                   *)
(* scheduler_factory.py).  A runner reads a batch with a plain SELECT and    *)
(* writes it by primary key in one later commit, so whatever happened to a   *)
(* row in between is overwritten.  In-app sleep, which only decides when a   *)
(* runner polls, is the subject of module SleepMode.                         *)
(*                                                                           *)
(* The owner of a row (event_client_id) is a number, as client ids are       *)
(* ordered; the time is a count of ticks.                                    *)
(***************************************************************************)
EXTENDS Integers, FiniteSets

CONSTANTS
  Rows,        \* client_ids of scheduler rows
  Owners,      \* event_client_ids the rows are created for
  Runners,     \* delayed-scheduler processes
  BatchLimit,  \* LIMIT of the due query
  MaxTime,     \* bound: the clock
  MaxFaults    \* bound: crashes and errors

ASSUME SchedulerAssumption ==
  /\ IsFiniteSet(Rows) /\ Owners \subseteq Nat /\ Owners # {}
  /\ BatchLimit \in Nat \ {0} /\ MaxTime \in Nat /\ MaxFaults \in Nat

VARIABLES
  now,       \* the wall clock
  rowState,  \* DelayedScheduler.state, "NONE" before the row is inserted
  owner,     \* DelayedScheduler.event_client_id
  dueAt,     \* DelayedScheduler.scheduled_for
  firedAt,   \* DelayedScheduler.fired_at
  rpc,       \* where each runner is in its loop
  batch,     \* the rows it read as due
  readAt,    \* its clock when it read them
  tasks,     \* unfinished execution tasks created from each row
  faults,    \* faults so far
  made       \* history: execution tasks ever created from each row

rowVars    == <<rowState, owner, dueAt, firedAt>>
runnerVars == <<rpc, batch, readAt>>
schedVars  == <<now, rowVars, runnerVars, tasks, faults, made>>

RowStates == {"NONE", "ACTIVE", "FIRED", "CANCELED", "ERROR"}
FreeRows  == {r \in Rows : rowState[r] = "NONE"}

-----------------------------------------------------------------------------
(* What commands do to the rows.                                             *)

\* UPDATE ... SET state = CANCELED over the ACTIVE rows in a set
Canceled(rows) == [r \in Rows |-> IF r \in rows /\ rowState[r] = "ACTIVE"
                                  THEN "CANCELED" ELSE rowState[r]]

RowsOf(o) == {r \in Rows : rowState[r] # "NONE" /\ owner[r] = o}

\* create_delayed_scheduler, after the rows in `gone` were canceled
Create(r, o, d, gone) ==
  /\ r \in FreeRows
  /\ rowState' = [Canceled(gone) EXCEPT ![r] = "ACTIVE"]
  /\ owner'    = [owner EXCEPT ![r] = o]
  /\ dueAt'    = [dueAt EXCEPT ![r] = d]
  /\ UNCHANGED firedAt

Cancel(rows) == rowState' = Canceled(rows) /\ UNCHANGED <<owner, dueAt, firedAt>>

-----------------------------------------------------------------------------
(* The runner: _fire_due_schedulers, then _retry_errored_schedulers.         *)

Due(r, t) == rowState[r] = "ACTIVE" /\ dueAt[r] <= t

\* SELECT ... WHERE ACTIVE AND scheduled_for <= now LIMIT 50, no lock, no order
ReadDue(n) ==
  /\ rpc[n] = "poll"
  /\ \E b \in SUBSET {r \in Rows : Due(r, now)} :
       /\ \/ Cardinality(b) = BatchLimit
          \/ b = {r \in Rows : Due(r, now)} /\ Cardinality(b) <= BatchLimit
       /\ batch' = [batch EXCEPT ![n] = b]
  /\ readAt' = [readAt EXCEPT ![n] = now]
  /\ rpc' = [rpc EXCEPT ![n] = "fire"]
  /\ UNCHANGED <<now, rowVars, tasks, faults, made>>

\* One commit for the batch: each row gets a task and becomes FIRED, or ERROR
\* when ActivityTracker.touch() raised after the task had been added.
FireDue(n) ==
  /\ rpc[n] = "fire"
  /\ \E untouched \in SUBSET batch[n] :
       /\ faults + Cardinality(untouched) <= MaxFaults
       /\ faults' = faults + Cardinality(untouched)
       /\ rowState' = [r \in Rows |-> IF r \in untouched THEN "ERROR"
                                      ELSE IF r \in batch[n] THEN "FIRED" ELSE rowState[r]]
       /\ firedAt' = [r \in Rows |-> IF r \in batch[n] \ untouched THEN readAt[n]
                                     ELSE firedAt[r]]
  /\ tasks' = [r \in Rows |-> IF r \in batch[n] THEN tasks[r] + 1 ELSE tasks[r]]
  /\ made'  = [r \in Rows |-> IF r \in batch[n] THEN made[r] + 1 ELSE made[r]]
  /\ rpc' = [rpc EXCEPT ![n] = "retry"]
  /\ batch' = [batch EXCEPT ![n] = {}]
  /\ readAt' = [readAt EXCEPT ![n] = 0]
  /\ UNCHANGED <<now, owner, dueAt>>

FiredBeforeTasks(n) ==   \* mutant
  /\ rpc[n] \in {"fire", "retry"}
  /\ faults < MaxFaults /\ faults' = faults + 1
  /\ rpc' = [rpc EXCEPT ![n] = "poll"]
  /\ batch' = [batch EXCEPT ![n] = {}]
  /\ readAt' = [readAt EXCEPT ![n] = 0]
  /\ rowState' = [r \in Rows |-> IF r \in batch[n] THEN "FIRED" ELSE rowState[r]]
  /\ UNCHANGED <<now, owner, dueAt, firedAt, tasks, made>>
\* A flush or commit error, or the death of the process, drops the whole batch
\* or the recovery pass.
RunnerFails(n) ==
  /\ rpc[n] \in {"fire", "retry"}
  /\ faults < MaxFaults /\ faults' = faults + 1
  /\ rpc' = [rpc EXCEPT ![n] = "poll"]
  /\ batch' = [batch EXCEPT ![n] = {}]
  /\ readAt' = [readAt EXCEPT ![n] = 0]
  /\ UNCHANGED <<now, rowVars, tasks, made>>

RetryAnyError(r) == rowState[r] = "ERROR"   \* mutant
Retryable(r) == rowState[r] = "ERROR" /\ dueAt[r] > now

\* Any of the retryable rows may have cooled down (updated_at < cutoff).
RetryErrored(n) ==
  /\ rpc[n] = "retry"
  /\ \E ready \in SUBSET {r \in Rows : Retryable(r)} :
       rowState' = [r \in Rows |-> IF r \in ready THEN "ACTIVE" ELSE rowState[r]]
  /\ rpc' = [rpc EXCEPT ![n] = "poll"]
  /\ UNCHANGED <<now, owner, dueAt, firedAt, batch, readAt, tasks, faults, made>>

Tick == /\ now < MaxTime
        /\ now' = now + 1
        /\ UNCHANGED <<rowVars, runnerVars, tasks, faults, made>>

-----------------------------------------------------------------------------
(* The component on its own, with the simplest producer and consumer.        *)

SchedInit ==
  /\ now = 0
  /\ rowState = [r \in Rows |-> "NONE"]
  /\ owner = [r \in Rows |-> CHOOSE o \in Owners : TRUE]
  /\ dueAt = [r \in Rows |-> 0]
  /\ firedAt = [r \in Rows |-> 0]
  /\ rpc = [n \in Runners |-> "poll"]
  /\ batch = [n \in Runners |-> {}]
  /\ readAt = [n \in Runners |-> 0]
  /\ tasks = [r \in Rows |-> 0]
  /\ faults = 0
  /\ made = [r \in Rows |-> 0]

CreateSchedule(r, o, d) == /\ Create(r, o, d, {})
                           /\ UNCHANGED <<now, runnerVars, tasks, faults, made>>

CancelSchedule(o) == /\ \E r \in RowsOf(o) : rowState[r] = "ACTIVE"
                     /\ Cancel(RowsOf(o))
                     /\ UNCHANGED <<now, runnerVars, tasks, faults, made>>

RunnerStep(n) == ReadDue(n) \/ FireDue(n) \/ RetryErrored(n)

SchedNext ==
  \/ \E r \in Rows, o \in Owners, d \in 1..MaxTime : CreateSchedule(r, o, d)
  \/ \E o \in Owners : CancelSchedule(o)
  \/ \E n \in Runners : RunnerStep(n) \/ RunnerFails(n)
  \/ Tick

SchedSpec == SchedInit /\ [][SchedNext]_schedVars
SchedFairSpec == /\ SchedSpec /\ WF_schedVars(Tick)
                 /\ \A n \in Runners : WF_schedVars(RunnerStep(n))

-----------------------------------------------------------------------------
(* Properties.                                                               *)

\* The rows, the runners and the task counts are what the tables and the
\* runner's local variables can hold.
SchedTypeOK ==
  /\ now \in 0..MaxTime
  /\ rowState \in [Rows -> RowStates]
  /\ owner \in [Rows -> Owners]
  /\ dueAt \in [Rows -> 0..MaxTime] /\ firedAt \in [Rows -> 0..MaxTime]
  /\ rpc \in [Runners -> {"poll", "fire", "retry"}]
  /\ batch \in [Runners -> SUBSET Rows] /\ readAt \in [Runners -> 0..MaxTime]
  /\ tasks \in [Rows -> Nat] /\ made \in [Rows -> Nat]
  /\ faults \in 0..MaxFaults

\* Inductive part: a row that a runner holds or has written was due by then.
HeldRowsAreDue == \A n \in Runners : \A r \in batch[n] :
                    rowState[r] # "NONE" /\ dueAt[r] <= now
ErrorIsDue == \A r \in Rows : rowState[r] = "ERROR" => dueAt[r] <= now

\* 37_scheduled_jobs.md:610 "Delayed schedulers fire exactly once": no row
\* gives rise to two execution tasks, whatever is canceled, crashes or errors
\* between the runner's read and its commit.
FiresOnce == \A r \in Rows : made[r] <= 1

\* A due row is not left ACTIVE for ever: it is fired (or canceled), however
\* many rows are due at once and however late the runner comes.
EveryDueRowFires == \A r \in Rows :
  (rowState[r] = "ACTIVE" /\ dueAt[r] <= now) ~> rowState[r] # "ACTIVE"

\* delayed_scheduler_runner.py:137 "so transient failures self-recover": a row
\* marked ERROR leaves that state again.
ErrorsSelfRecover == \A r \in Rows : (rowState[r] = "ERROR" ~> rowState[r] # "ERROR")
=============================================================================
