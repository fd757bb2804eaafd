---------------------------- MODULE VersionActivation ----------------------------
(***************************************************************************)
(* Stock-report snapshot versions and their scheduled activation: the        *)
(* commands that create, reschedule, publish, delete and repair versions     *)
(* (services/commands/stock_report/*_snapshot_version.py,                    *)
(* _version_schedule.py, _versions.py, repair_stock_report.py) composed with *)
(* the delayed scheduler and with the worker that runs its execution tasks.  *)
(*                                                                           *)
(* Every command holds the workspace's stock-report advisory lock for its    *)
(* whole transaction, so a command is one step.  Its clock, ctx.now, is      *)
(* stamped before it waits for that lock: a step runs with a stamp that may  *)
(* be up to MaxLag old.  A task is delivered at least once (module           *)
(* TaskExecution), possibly long after its row fired.  What must eventually  *)
(* happen, and in-app sleep, are module SleepyActivation's.                  *)
(***************************************************************************)
EXTENDS DelayedScheduler

CONSTANT MaxLag   \* bound: how far ctx.now may lie behind the clock

ASSUME LagAssumption == MaxLag \in Nat

VARIABLES
  verState,   \* draft, active or closed; "none" and "deleted" are no row
  activeAt,   \* StockReportSnapshotVersion.active_at
  createdAt,  \* StockReportSnapshotVersion.created_at
  planAt,     \* StockReportSnapshotVersion.scheduled_activation_at, NoDate when NULL
  firedPlan,  \* history: the date whose fire published the version, else NoDate
  late,       \* history: drafts whose date had passed when its command committed
  failed      \* history: rows one of whose tasks ended in FAIL

verVars == <<verState, activeAt, createdAt, planAt, firedPlan>>
vars    == <<schedVars, verVars, late, failed>>

NoDate    == 0
Dates     == 1..MaxTime
VerStates == {"none", "draft", "active", "closed", "deleted"}
Board     == {v \in Owners : verState[v] = "active"}
Stamps    == {s \in 0..now : now - s <= MaxLag}
Drafts    == {v \in Owners : verState[v] = "draft"}

outside == <<now, runnerVars, tasks, faults, made, failed>>  \* no command touches it

-----------------------------------------------------------------------------
(* Shared steps of the commands.                                             *)

\* close_active_version, then the new board
BoardNotClosed(v) == [verState EXCEPT ![v] = "active"]   \* mutant
WithBoard(v) == [x \in Owners |-> IF x = v THEN "active"
                                  ELSE IF verState[x] = "active" THEN "closed"
                                  ELSE verState[x]]

\* reschedule_activation: cancel the draft's ACTIVE row, create one for the new date
RescheduleKeepsRow(v, d) ==   \* mutant
  \/ d = NoDate /\ Cancel(RowsOf(v))
  \/ d # NoDate /\ \E r \in Rows : Create(r, v, d, {})
Reschedule(v, d) ==
  \/ d = NoDate /\ Cancel(RowsOf(v))
  \/ d # NoDate /\ \E r \in Rows : Create(r, v, d, RowsOf(v))

\* The stored date, and the history variable that goes with it
SetPlan(v, d) ==
  /\ planAt' = [planAt EXCEPT ![v] = d]
  /\ late' = IF d # NoDate /\ d <= now THEN late \cup {v} ELSE late \ {v}

ValidSchedule(d, s) == d = NoDate \/ d > s

\* _go_live: close the board, stamp the version, clear the schedule, cancel the row
GoLive(v, s, plan) ==
  /\ verState'  = WithBoard(v)
  /\ activeAt'  = [activeAt EXCEPT ![v] = s]
  /\ SetPlan(v, NoDate)
  /\ firedPlan' = [firedPlan EXCEPT ![v] = plan]
  /\ Cancel(RowsOf(v))
  /\ UNCHANGED createdAt

-----------------------------------------------------------------------------
(* The commands of the HTTP routes.                                          *)

CreateDraft(v, s, d) ==
  /\ verState[v] = "none" /\ ValidSchedule(d, s)
  /\ verState'  = [verState EXCEPT ![v] = "draft"]
  /\ createdAt' = [createdAt EXCEPT ![v] = s]
  /\ SetPlan(v, d)
  /\ Reschedule(v, d)
  /\ UNCHANGED <<outside, activeAt, firedPlan>>

CreateActive(v, s) ==
  /\ verState[v] = "none"
  /\ verState'  = WithBoard(v)
  /\ activeAt'  = [activeAt EXCEPT ![v] = s]
  /\ createdAt' = [createdAt EXCEPT ![v] = s]
  /\ UNCHANGED <<outside, rowVars, planAt, firedPlan, late>>

UpdateSchedule(v, s, d) ==
  /\ verState[v] = "draft" /\ ValidSchedule(d, s) /\ d # planAt[v]
  /\ SetPlan(v, d)
  /\ Reschedule(v, d)
  /\ UNCHANGED <<outside, verState, activeAt, createdAt, firedPlan>>

ActivateByHand(v, s) ==
  /\ verState[v] = "draft"
  /\ GoLive(v, s, NoDate)
  /\ UNCHANGED outside

DeleteDraft(v) ==
  /\ verState[v] = "draft"
  /\ verState' = [verState EXCEPT ![v] = "deleted"]
  /\ SetPlan(v, NoDate)
  /\ Cancel(RowsOf(v))
  /\ UNCHANGED <<outside, activeAt, createdAt, firedPlan>>

-----------------------------------------------------------------------------
(* Repair of schedule_scheduler_mismatch.                                    *)

ActiveRowAt(v, d) == \E r \in RowsOf(v) : rowState[r] = "ACTIVE" /\ dueAt[r] = d

\* a draft's date that no ACTIVE row serves: the fire is lost, or still in flight
Unserved == {v \in Owners : /\ verState[v] = "draft" /\ planAt[v] # NoDate
                            /\ ~ActiveRowAt(v, planAt[v])}

\* an ACTIVE row whose date no draft carries
Strays == {r \in Rows : /\ rowState[r] = "ACTIVE"
                        /\ verState[owner[r]] \notin {"none", "deleted"}
                        /\ planAt[owner[r]] # dueAt[r]}

RepairSchedule ==
  /\ Unserved # {} \/ Strays # {}
  /\ \E row \in [Unserved -> FreeRows] :
       LET new == {row[v] : v \in Unserved}
           For(r) == CHOOSE v \in Unserved : row[v] = r
       IN /\ \A v, w \in Unserved : row[v] = row[w] => v = w
          /\ rowState' = [r \in Rows |-> IF r \in new THEN "ACTIVE" ELSE Canceled(Strays)[r]]
          /\ owner' = [r \in Rows |-> IF r \in new THEN For(r) ELSE owner[r]]
          /\ dueAt' = [r \in Rows |-> IF r \in new THEN planAt[For(r)] ELSE dueAt[r]]
  /\ UNCHANGED <<outside, firedAt, verVars, late>>

-----------------------------------------------------------------------------
(* The worker: one run of the activation task of a fired row.                *)

\* (scheduled_activation_at, created_at, client_id) of a comes after that of b
SortsAfter(a, b) ==
  \/ planAt[a] > planAt[b]
  \/ planAt[a] = planAt[b] /\ createdAt[a] > createdAt[b]
  \/ planAt[a] = planAt[b] /\ createdAt[a] = createdAt[b] /\ a > b

NoMovedCheck(v, expected) == planAt[v] = NoDate   \* mutant
Moved(v, expected) == planAt[v] # expected
HandPublished(v)   == \E p \in Board : activeAt[p] > planAt[v]
NoLaterPlan(v, s) == FALSE   \* mutant
LaterPlanDue(v, s) == \E o \in Owners \ {v} :
  /\ verState[o] = "draft" /\ planAt[o] # NoDate /\ planAt[o] <= s
  /\ SortsAfter(o, v)

TaskEndsTwice(r) == tasks' = [tasks EXCEPT ![r] = @ - 2] /\ UNCHANGED faults   \* mutant
\* The task completes, or is delivered again because the worker died first.
TaskEnds(r) == \/ tasks' = [tasks EXCEPT ![r] = @ - 1] /\ UNCHANGED faults
               \/ faults < MaxFaults /\ faults' = faults + 1 /\ UNCHANGED tasks

\* The command's ctx.now is stamped when the handler starts: the clock has moved
\* since the runner's read, as a commit, the router and a queue lie in between.
TaskRuns(r, s) == tasks[r] > 0 /\ s > dueAt[r] /\ s >= firedAt[r]

\* NotFound, "not a draft", or `moved`: nothing is written
FireRefused(r, s) ==
  /\ TaskRuns(r, s)
  /\ verState[owner[r]] # "draft" \/ Moved(owner[r], dueAt[r])
  /\ TaskEnds(r)
  /\ UNCHANGED <<now, rowVars, runnerVars, made, verVars, late, failed>>

SkipRaises(v) == UNCHANGED <<rowVars, planAt, late>>   \* mutant
Skip(v) == Cancel(RowsOf(v)) /\ SetPlan(v, NoDate)

FireSkipped(r, s) == LET v == owner[r] IN
  /\ TaskRuns(r, s)
  /\ verState[v] = "draft" /\ ~Moved(v, dueAt[r])
  /\ HandPublished(v) \/ LaterPlanDue(v, s)
  /\ Skip(v)
  /\ TaskEnds(r)
  /\ UNCHANGED <<now, runnerVars, made, failed, verState, activeAt, createdAt, firedPlan>>

FirePublishes(r, s) == LET v == owner[r] IN
  /\ TaskRuns(r, s)
  /\ verState[v] = "draft" /\ ~Moved(v, dueAt[r])
  /\ ~HandPublished(v) /\ ~LaterPlanDue(v, s)
  /\ GoLive(v, s, planAt[v])
  /\ TaskEnds(r)
  /\ UNCHANGED <<now, runnerVars, made, failed>>

Fire(r) == \E s \in Stamps : FireRefused(r, s) \/ FireSkipped(r, s) \/ FirePublishes(r, s)

\* The task exhausts its retries without its handler having committed.
TaskFails(r) ==
  /\ tasks[r] > 0
  /\ faults < MaxFaults /\ faults' = faults + 1
  /\ tasks' = [tasks EXCEPT ![r] = @ - 1]
  /\ failed' = failed \cup {r}
  /\ UNCHANGED <<now, rowVars, runnerVars, made, verVars, late>>

-----------------------------------------------------------------------------
Init ==
  /\ SchedInit
  /\ verState  = [v \in Owners |-> "none"]
  /\ activeAt  = [v \in Owners |-> 0]
  /\ createdAt = [v \in Owners |-> 0]
  /\ planAt    = [v \in Owners |-> NoDate]
  /\ firedPlan = [v \in Owners |-> NoDate]
  /\ late = {}
  /\ failed = {}

Command ==
  \/ \E v \in Owners, s \in Stamps, d \in Dates \cup {NoDate} :
       CreateDraft(v, s, d) \/ UpdateSchedule(v, s, d)
  \/ \E v \in Owners, s \in Stamps : CreateActive(v, s) \/ ActivateByHand(v, s)
  \/ \E v \in Owners : DeleteDraft(v)
  \/ RepairSchedule

Runner == /\ Tick \/ \E n \in Runners : RunnerStep(n) \/ RunnerFails(n)
          /\ UNCHANGED <<verVars, late, failed>>

Next == Command \/ Runner \/ \E r \in Rows : Fire(r) \/ TaskFails(r)

Spec == Init /\ [][Next]_vars

-----------------------------------------------------------------------------
(* Properties.                                                               *)

\* The version columns hold what the table allows.
TypeOK ==
  /\ SchedTypeOK
  /\ verState \in [Owners -> VerStates]
  /\ activeAt \in [Owners -> 0..MaxTime] /\ createdAt \in [Owners -> 0..MaxTime]
  /\ planAt \in [Owners -> Dates \cup {NoDate}]
  /\ firedPlan \in [Owners -> Dates \cup {NoDate}]
  /\ late \subseteq Owners /\ failed \subseteq Rows

\* _version_schedule.py:5 "At most one ACTIVE row per draft ... The column is the
\* truth; the row is how it fires": no interleaving of commands, repair, skips and
\* a runner that overwrites canceled rows leaves an ACTIVE row without its draft
\* carrying that very date, nor two of them.
RowServesItsDraft ==
  /\ \A r \in Rows : rowState[r] = "ACTIVE" =>
       verState[owner[r]] = "draft" /\ planAt[owner[r]] = dueAt[r]
  /\ \A r, q \in Rows : rowState[r] = "ACTIVE" /\ rowState[q] = "ACTIVE"
                          /\ owner[r] = owner[q] => r = q

\* The row will bring about the activation of v at its date, or its task failed.
Serves(r, v) == /\ dueAt[r] = planAt[v]
                /\ rowState[r] = "ACTIVE" \/ tasks[r] > 0 \/ r \in failed

\* A schedule is never lost: the date a draft carries is served by an ACTIVE row
\* or by a task still to run, unless that task ended in FAIL
\* (consistency.py:326 "a fire in flight ... and a fire that failed").
NoScheduleIsLost == \A v \in Owners : planAt[v] # NoDate => \E r \in RowsOf(v) : Serves(r, v)

\* Only a draft is scheduled, and one board is up (the two database constraints
\* ck_..._schedule_only_on_draft and uix_..._active are never hit by a command).
ConstraintsHold == /\ \A p, q \in Board : p = q
                   /\ \A v \in Owners : planAt[v] # NoDate => verState[v] = "draft"

\* The plan whose fire put up the board p sorts after the plan of the draft v.
LaterPlan(p, v) ==
  /\ firedPlan[p] # NoDate
  /\ \/ firedPlan[p] > planAt[v]
     \/ firedPlan[p] = planAt[v] /\ createdAt[p] > createdAt[v]
     \/ firedPlan[p] = planAt[v] /\ createdAt[p] = createdAt[v] /\ p > v

Published == {v \in Drafts : verState'[v] = "active" /\ firedPlan'[v] # NoDate}
Superseded == {v \in Drafts : \E r \in RowsOf(v), s \in Stamps :
                 dueAt[r] = planAt[v] /\ FireSkipped(r, s)}

\* draft_versions_plan.md, card 4 "the later plan wins in either order, and a
\* hand-published board stands": a fire never takes down a board that a later plan
\* or, after its date, a hand put up; and it gives way only to such a board or to
\* a due draft of a later plan - unless its own date had passed by the time its
\* command got the lock.
LaterPlanWins == [][
  /\ \A v \in Published, p \in Board : ~LaterPlan(p, v) /\ activeAt[p] <= planAt[v]
  /\ \A v \in Superseded \ late :
       \/ \E p \in Board : activeAt[p] > planAt[v] /\ (firedPlan[p] = NoDate \/ LaterPlan(p, v))
       \/ \E o \in Drafts : planAt[o] \in Dates /\ planAt[o] <= now /\ SortsAfter(o, v) ]_vars

\* P-5: "a moved or cleared schedule never activates at the old time": a fire
\* publishes a draft only at a date it carries, and that date is past.
OnlyAtItsDate == [][
  \A v \in Published : firedPlan'[v] = planAt[v] /\ planAt[v] < activeAt'[v] ]_vars
=============================================================================
