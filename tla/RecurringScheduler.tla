--------------------------- MODULE RecurringScheduler ---------------------------
(***************************************************************************)
(* The recurring scheduler: jobs that fire on the fixed grid                 *)
(* created_at + k * interval (domain/schedulers/recurring_grid.py) and the   *)
(* runner that polls them                                                    *)
(* (services/infra/schedulers/recurring_scheduler_runner.py).                *)
(*                                                                           *)
(* A poll takes its clock, then reads ACTIVE rows with a plain SELECT, and   *)
(* writes tasks and last_interval by primary key in one later commit.  While *)
(* the app sleeps the runner only waits for the due time it cached.  Who     *)
(* sets and deletes the sleep key is left open here: anyone, at any time.    *)
(*                                                                           *)
(* Time is a count of ticks and an interval a number of ticks; an interval   *)
(* that is not positive has no grid.                                         *)
(***************************************************************************)
EXTENDS Integers, FiniteSets

CONSTANTS
  Jobs,        \* client_ids of recurring rows
  Intervals,   \* interval * INTERVAL_UNIT_TO_SECONDS of the rows created
  Runners,     \* recurring-scheduler processes
  BatchLimit,  \* BATCH_SIZE of the two queries
  Requests,    \* whether HTTP requests come in
  MaxTime,     \* bound: the clock
  MaxFaults    \* bound: failed polls, failed touches and restarts

ASSUME RecurringAssumption ==
  /\ IsFiniteSet(Jobs) /\ Intervals \subseteq Int
  /\ BatchLimit \in Nat \ {0} /\ Requests \in BOOLEAN
  /\ MaxTime \in Nat /\ MaxFaults \in Nat

VARIABLES
  progressOn, \* progress_enabled(): WORKER_PROGRESS_FILE is set (config.py:105)
  now,        \* the wall clock
  sleeping,   \* whether the Redis key system:sleeping exists
  anchor,     \* RecurringScheduler.created_at; Never before the row exists
  interval,   \* its interval in ticks
  last,       \* RecurringScheduler.last_interval; Never when NULL
  hasError,   \* whether last_error holds a message
  pc,         \* where each runner is in its loop
  clock,      \* the time its poll started
  seen,       \* the rows its poll read
  seenLast,   \* ... and the last_interval it read in them
  nextDue,    \* its cached next_due_at; Never when None
  faults,     \* faults so far
  fired,      \* history: tasks created for each job and slot
  unslotted,  \* history: jobs with a task that recorded no slot
  heard       \* history: the rows each runner's next_due_at was computed from

jobVars    == <<anchor, interval, last, hasError>>
runnerVars == <<pc, clock, seen, seenLast, nextDue>>
history    == <<fired, unslotted>>
vars       == <<progressOn, now, sleeping, jobVars, runnerVars, faults, history, heard>>

Never  == -1
Times  == 0..MaxTime
Active == {j \in Jobs : anchor[j] # Never}

-----------------------------------------------------------------------------
(* The grid, for a row with anchor a, interval i and last_interval l.        *)

\* recurring_interval raises for the others
HasGrid(i) == i > 0

\* the latest a + k * i at or before t
grid_point(a, i, t) == a + ((t - a) \div i) * i

\* mutant: a slot already served is due again
DueAgain(a, i, l, t) == a <= t /\ (l = Never \/ l <= grid_point(a, i, t))
\* A row that never fired is due from its anchor on, whatever its interval:
\* the grid is not looked at.
recurring_is_due(a, i, l, t) == a <= t /\ (l = Never \/ l < grid_point(a, i, t))

\* mutant: a row that never fired has no next run
OnlyAfterFirst(a, i, l, t) ==
  IF l = Never THEN a + i ELSE grid_point(a, i, t) + i
recurring_next_run_at(a, i, l, t) ==
  IF t < a THEN a
  ELSE IF l = Never \/ l < grid_point(a, i, t) THEN grid_point(a, i, t)
  ELSE grid_point(a, i, t) + i

\* mutant: last_interval records when the job ran
StampsWallTime(a, i, t) == t
\* mutant: it records the slot to come
SlotToCome(a, i, t) == grid_point(a, i, t) + i
\* what last_interval becomes when a job fires: the slot this fire serves
SlotServed(a, i, t) == grid_point(a, i, t)

-----------------------------------------------------------------------------
(* Rows and queries.                                                         *)

\* create_recurring_scheduler validates nothing
CreateJob(j, i) ==
  /\ anchor[j] = Never
  /\ anchor' = [anchor EXCEPT ![j] = now]
  /\ interval' = [interval EXCEPT ![j] = i]
  /\ UNCHANGED <<progressOn, now, sleeping, last, hasError, runnerVars, faults, history, heard>>

\* SELECT ... WHERE state = ACTIVE LIMIT 200, no order
Selected == {b \in SUBSET Active : \/ Cardinality(b) = BatchLimit
                                   \/ b = Active /\ Cardinality(b) <= BatchLimit}

\* _get_next_run_at over the rows b it selected: the earliest, as a singleton
NextRuns(b) == {recurring_next_run_at(anchor[j], interval[j], last[j], now) :
                  j \in {k \in b : HasGrid(interval[k]) \/ now < anchor[k]}}
NextRunAt(b) == IF NextRuns(b) = {} THEN {Never}
                ELSE {t \in NextRuns(b) : \A u \in NextRuns(b) : t <= u}

-----------------------------------------------------------------------------
(* The runner's loop.                                                        *)

Goto(n, label) == pc' = [pc EXCEPT ![n] = label]

\* while True: is_sleeping() decides between waiting and polling
LoopHead(n) ==
  /\ pc[n] = "head"
  /\ Goto(n, IF sleeping THEN "asleep" ELSE "start")
  /\ UNCHANGED <<progressOn, now, sleeping, jobVars, clock, seen, seenLast, nextDue, faults, history, heard>>

AlarmDue(n) == nextDue[n] # Never /\ nextDue[n] <= now

\* next_due_at = await _get_next_run_at()
RefreshNextDue(n) == \E b \in Selected : \E t \in NextRunAt(b) :
                       /\ nextDue' = [nextDue EXCEPT ![n] = t]
                       /\ heard' = [heard EXCEPT ![n] = b]

\* _sleep_while_sleeping returned: the key is gone or the capped deadline has
\* passed.  Not due: poll the next due time if progress needs it, and loop.
SleepOn(n) ==
  /\ pc[n] = "asleep" /\ ~AlarmDue(n)
  /\ IF progressOn THEN RefreshNextDue(n) ELSE UNCHANGED <<nextDue, heard>>
  /\ Goto(n, "head")
  /\ UNCHANGED <<progressOn, now, sleeping, jobVars, clock, seen, seenLast, faults, history>>

\* ... due: wake the system, then fire
AlarmRings(n) ==
  /\ pc[n] = "asleep" /\ AlarmDue(n)
  /\ sleeping' = FALSE
  /\ Goto(n, "start")
  /\ UNCHANGED <<progressOn, now, jobVars, clock, seen, seenLast, nextDue, faults, history, heard>>

StartPoll(n) ==
  /\ pc[n] = "start"
  /\ clock' = [clock EXCEPT ![n] = now]
  /\ Goto(n, "read")
  /\ UNCHANGED <<progressOn, now, sleeping, jobVars, seen, seenLast, nextDue, faults, history, heard>>

ReadJobs(n) ==
  /\ pc[n] = "read"
  /\ \E b \in Selected : seen' = [seen EXCEPT ![n] = b]
  /\ seenLast' = [seenLast EXCEPT ![n] = last]
  /\ Goto(n, "fire")
  /\ UNCHANGED <<progressOn, now, sleeping, jobVars, clock, nextDue, faults, history, heard>>

\* the rows of the poll that _is_due calls due, and the ones it raises for
DueSeen(n) == {j \in seen[n] :
  /\ HasGrid(interval[j]) \/ seenLast[n][j] = Never
  /\ recurring_is_due(anchor[j], interval[j], seenLast[n][j], clock[n])}
NoGridSeen(n) == {j \in seen[n] :
  ~HasGrid(interval[j]) /\ seenLast[n][j] # Never /\ anchor[j] <= clock[n]}

Slot(n, j) == SlotServed(anchor[j], interval[j], clock[n])

\* the rows that get a task, with a slot to record and without
Slotted(n)  == {j \in DueSeen(n) : HasGrid(interval[j])}
Gridless(n) == {j \in DueSeen(n) : ~HasGrid(interval[j])}

\* One commit for the poll.  For `untouched` ActivityTracker.touch() raised after
\* task and last_interval were set.  For a row without a grid the task is added
\* and only then does the computation of its slot raise.  A flush that fails in
\* create_execution_task spoils the session and with it the poll: PollFails.
FireDue(n) ==
  /\ pc[n] = "fire"
  /\ \E untouched \in SUBSET Slotted(n) :
       /\ faults + Cardinality(untouched) <= MaxFaults
       /\ faults' = faults + Cardinality(untouched)
       /\ last' = [j \in Jobs |-> IF j \in Slotted(n) THEN Slot(n, j) ELSE last[j]]
       /\ fired' = [j \in Jobs |-> [t \in Times |->
            IF j \in Slotted(n) /\ t = Slot(n, j) THEN fired[j][t] + 1 ELSE fired[j][t]]]
       /\ unslotted' = unslotted \cup Gridless(n)
       /\ hasError' = hasError \cup untouched \cup NoGridSeen(n) \cup Gridless(n)
       /\ sleeping' = (sleeping /\ Slotted(n) \subseteq untouched)
  /\ seen' = [seen EXCEPT ![n] = {}]
  /\ seenLast' = [seenLast EXCEPT ![n] = [j \in Jobs |-> Never]]
  /\ Goto(n, "next")
  /\ UNCHANGED <<progressOn, now, anchor, interval, clock, nextDue, heard>>

\* next_due_at = _get_next_run_at(), progress, and the pause between polls
CacheNextDue(n) ==
  /\ pc[n] = "next"
  /\ RefreshNextDue(n)
  /\ clock' = [clock EXCEPT ![n] = 0]
  /\ Goto(n, "head")
  /\ UNCHANGED <<progressOn, now, sleeping, jobVars, seen, seenLast, faults, history>>

\* what a poll gathered is dropped, its transaction rolled back
DropPoll(n) ==
  /\ faults < MaxFaults /\ faults' = faults + 1
  /\ clock' = [clock EXCEPT ![n] = 0]
  /\ seen' = [seen EXCEPT ![n] = {}]
  /\ seenLast' = [seenLast EXCEPT ![n] = [j \in Jobs |-> Never]]
  /\ Goto(n, "head")
  /\ UNCHANGED <<progressOn, now, sleeping, jobVars, history>>

\* except Exception: back to the loop's head, next_due_at as it was
PollFails(n) == pc[n] # "head" /\ DropPoll(n) /\ UNCHANGED <<nextDue, heard>>

\* the process is restarted and has cached nothing
RunnerRestarts(n) ==
  /\ DropPoll(n)
  /\ nextDue' = [nextDue EXCEPT ![n] = Never]
  /\ heard' = [heard EXCEPT ![n] = {}]

RunnerStep(n) == \/ LoopHead(n) \/ SleepOn(n) \/ AlarmRings(n) \/ StartPoll(n)
                 \/ ReadJobs(n) \/ FireDue(n) \/ CacheNextDue(n)

-----------------------------------------------------------------------------
(* The rest of the world.                                                    *)

\* the monitor sets the sleep key, a request deletes it
AppSleeps ==
  /\ ~sleeping /\ sleeping' = TRUE
  /\ UNCHANGED <<progressOn, now, jobVars, runnerVars, faults, history, heard>>

RequestWakes ==
  /\ Requests /\ sleeping /\ sleeping' = FALSE
  /\ UNCHANGED <<progressOn, now, jobVars, runnerVars, faults, history, heard>>

Tick ==
  /\ now < MaxTime /\ now' = now + 1
  /\ UNCHANGED <<progressOn, sleeping, jobVars, runnerVars, faults, history, heard>>

\* Rows of the version before the grid: last_interval is the time they ran.
Init ==
  /\ progressOn \in BOOLEAN /\ now \in Times /\ sleeping = FALSE
  /\ anchor \in [Jobs -> {Never, 0}]
  /\ interval \in [Jobs -> Intervals]
  /\ last \in [Jobs -> {Never} \cup 0..now]
  /\ \A j \in Jobs : last[j] # Never => anchor[j] # Never
  /\ hasError = {}
  /\ pc = [n \in Runners |-> "head"]
  /\ clock = [n \in Runners |-> 0]
  /\ seen = [n \in Runners |-> {}]
  /\ seenLast = [n \in Runners |-> [j \in Jobs |-> Never]]
  /\ nextDue = [n \in Runners |-> Never]
  /\ faults = 0
  /\ fired = [j \in Jobs |-> [t \in Times |-> 0]]
  /\ unslotted = {}
  /\ heard = [n \in Runners |-> {}]

Next ==
  \/ \E n \in Runners : RunnerStep(n) \/ PollFails(n) \/ RunnerRestarts(n)
  \/ \E j \in Jobs, i \in Intervals : CreateJob(j, i)
  \/ AppSleeps \/ RequestWakes \/ Tick

Spec == Init /\ [][Next]_vars

\* A runner never stops looping: every await in it is bounded.
FairSpec == Spec /\ \A n \in Runners : WF_vars(RunnerStep(n))

-----------------------------------------------------------------------------
\* Rows and runners hold what the table and the runner's locals can hold.
TypeOK ==
  /\ now \in Times /\ progressOn \in BOOLEAN /\ sleeping \in BOOLEAN
  /\ anchor \in [Jobs -> {Never} \cup Times]
  /\ interval \in [Jobs -> Intervals]
  /\ last \in [Jobs -> {Never} \cup Times]
  /\ hasError \in SUBSET Jobs
  /\ pc \in [Runners -> {"head", "asleep", "start", "read", "fire", "next"}]
  /\ clock \in [Runners -> Times]
  /\ seen \in [Runners -> SUBSET Jobs]
  /\ seenLast \in [Runners -> [Jobs -> {Never} \cup Times]]
  /\ nextDue \in [Runners -> Int]
  /\ faults \in 0..MaxFaults
  /\ fired \in [Jobs -> [Times -> Nat]]
  /\ unslotted \in SUBSET Jobs
  /\ heard \in [Runners -> SUBSET Jobs]

\* However polls fail, runners restart and the clock runs on between a poll's
\* clock, its read and its commit, no slot of a job gets two tasks from the one
\* runner deployed.
SlotFiresOnce == \A j \in Jobs, t \in Times : fired[j][t] <= 1

\* A late fire does not re-anchor the schedule: the slot written is on the row's
\* grid, later than the one before, and the one its poll found itself in, so
\* missed slots collapse into one fire.
OnGrid(j, t) == t >= anchor[j] /\ (t - anchor[j]) % interval[j] = 0
NoDrift ==
  [][\A j \in Jobs : last'[j] # last[j] =>
       /\ OnGrid(j, last'[j]) /\ last'[j] > last[j]
       /\ \E n \in Runners : pc[n] = "fire" /\ clock[n] < last'[j] + interval[j]]_vars

DueNow(j) == /\ anchor[j] # Never /\ HasGrid(interval[j])
             /\ recurring_is_due(anchor[j], interval[j], last[j], now)

\* A due job fires with no request coming, whatever polls fail, runners restart and rows
\* are added.  By default, though, with no progress file, a sleeping runner knows only the
\* alarm it cached when awake (recurring_scheduler_runner.py:60-65): a job that alarm was
\* not computed from - one added since, or any job once the runner was restarted - may
\* wait as long as the app sleeps.
DueJobsFire ==
  \A j \in Jobs :
    DueNow(j) ~> \/ ~DueNow(j)
                 \/ sleeping /\ ~progressOn /\ \E n \in Runners : j \notin heard[n]

-----------------------------------------------------------------------------
(* What documents and comments say and the code does not keep.               *)

\* 22_performance.md:516 "Job due, app sleeping, no users: fires on time - wakes from
\* memory".  A runner that finds the app asleep before its first poll has no memory.
FiresFromMemory == \A j \in Jobs : DueNow(j) ~> ~DueNow(j)

\* "A non-positive interval has no grid.  Record it on the row and skip it":
\* no task is created for such a row.
NoGridNoTask == unslotted = {}
====
