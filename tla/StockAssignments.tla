---------------------------- MODULE StockAssignments ----------------------------
(***************************************************************************)
(* The stock report's ledgers (services/commands/stock_report): assignments  *)
(* of a task's item to a row of the report, the three unit counters kept on  *)
(* the row, the totals credited to the row's goals, the stock flag of a      *)
(* task, and the missing quantity of the row's active snapshot.              *)
(*                                                                           *)
(* Every command takes row locks in one order (items, tasks, report rows,    *)
(* snapshots, assignments), so all it does once it holds them is one step.   *)
(* What it reads before is a step of its own where the answer may be stale:  *)
(* Scanner's webhook and the batch delete look up assignments and lock       *)
(* afterwards; a task command writes Task.state, which locks the task until  *)
(* it commits, and looks up the assignment to move after that.  A session    *)
(* may roll back at any time (error, timeout, deadlock victim, crash).       *)
(*                                                                           *)
(* A unit is an assignment: create_stock_task_assignments writes quantity 1. *)
(* The task's moves come from TaskSteps, here any state may follow any other *)
(* (a task command may act on a stale read).  Versions, drafts and schedules *)
(* are VersionActivation; of an activation only the new active snapshots are *)
(* kept.  Priorities, categories, property criteria and events are left out. *)
(***************************************************************************)
EXTENDS Integers, Sequences, FiniteSets

CONSTANTS
  Rows,        \* ids of the report's rows (stock_report_items)
  Tasks,
  Items,
  ItemOf,      \* the primary item of each task
  Asgs,        \* ids an assignment may get
  RowOf,       \* the row and the task of each assignment: columns nothing rewrites
  TaskOf,
  Quantities,  \* bound: the quantities requested and the missing ones
  Moves,       \* bound: the states a task is put in
  Sessions,    \* database sessions of the two-step commands
  MaxGoals,    \* bound: goal records of a row
  MaxEdits,    \* bound: demands, creations, edits of the board, task moves, removals
  None         \* no snapshot, no override, no command under way

TaskStates == {"PENDING", "ASSIGNED", "WORKING", "STALLED", "READY", "RESOLVED", "FAILED", "CANCELLED"}
ACTIVE_ASSIGNMENT_STATES   == {"in_queue", "in_progress", "awaiting"}
TERMINAL_ASSIGNMENT_STATES == {"resolved", "failed", "resolved_early"}
_SCANNER_PROCESSED_STATES  == {"resolved", "resolved_early"}

ASSIGNMENT_STATE_BY_TASK_STATE ==
  [st \in TaskStates |-> IF st \in {"PENDING", "ASSIGNED"} THEN "in_queue"
                         ELSE IF st \in {"WORKING", "STALLED"} THEN "in_progress"
                         ELSE IF st \in {"READY", "RESOLVED"} THEN "awaiting" ELSE "failed"]

ASSUME StockAssumption ==
  /\ IsFiniteSet(Asgs)
  /\ ItemOf \in [Tasks -> Items] /\ RowOf \in [Asgs -> Rows] /\ TaskOf \in [Asgs -> Tasks]
  /\ Quantities \subseteq Nat /\ Moves \subseteq TaskStates
  /\ MaxGoals \in Nat /\ MaxEdits \in Nat
  /\ None \notin Nat /\ None \notin Tasks

VARIABLES
  task,     \* state, deleted, linked (its item is linked to it), flag (is_stock_assignment)
  gone,     \* the items deleted
  row,      \* live ("no", "yes", "deleted"), requested, cnt (the unit counters)
  goal,     \* of each row: quantity_awaiting of its goal records, oldest first
  board,    \* whether a version is active
  snap,     \* of each row: its active snapshot (scanner, manual, missing, resolved), or None
  asg,      \* state ("none" before it exists), deleted, credit (the goal credited, or 0)
  job,      \* of each session: what its command has read, or None
  drifted,  \* history: rows on which Scanner resolved a deleted assignment since a repair
  edits     \* demands, creations, edits, moves and removals so far

vars == <<task, gone, row, goal, board, snap, asg, job, drifted, edits>>

-----------------------------------------------------------------------------
(* Reading the tables.                                                       *)

Kept(t)   == {a \in Asgs : t[a].state # "none" /\ ~t[a].deleted}
Active(t) == {a \in Kept(t) : t[a].state \in ACTIVE_ASSIGNMENT_STATES}
\* Mutant: nobody takes the task's row lock.
NoTaskLock(t) == FALSE

Locked(t) == \E s \in Sessions : job[s] # None /\ job[s].cmd = "sync" /\ job[s].task = t
LiveRows  == {r \in Rows : row[r].live = "yes"}

\* queries/stock_report/consistency.py
recompute_row_counters(t, r) ==
  [st \in ACTIVE_ASSIGNMENT_STATES |-> Cardinality({a \in Kept(t) : RowOf[a] = r /\ t[a].state = st})]
recompute_goal_total(t, r, g) == Cardinality({a \in Asgs : RowOf[a] = r /\ t[a].credit = g})
expected_task_flag(t, k) == \E a \in Kept(t) : TaskOf[a] = k

\* The row's current goal record: a deleted row has none.
current_goal(r) == IF row[r].live = "yes" THEN Len(goal[r]) ELSE 0

effective_quantity_requested(p) == IF p.manual # None THEN p.manual ELSE p.scanner
missing_quantity_ceiling(p, cnt) ==
  LET free == effective_quantity_requested(p)
              - (cnt["in_queue"] + cnt["in_progress"] + cnt["awaiting"] + p.resolved)
  IN  IF free > 0 THEN free ELSE 0

\* Mutants: a rule gone wrong.
NoClamp(p, cnt) == p                                \* nobody lowers the missing quantity
UnguardedDelta(M, to, r) ==                         \* the UPDATE has no WHERE ... >= 0
  [st \in ACTIVE_ASSIGNMENT_STATES |->
     row[r].cnt[st] + Cardinality({a \in M : RowOf[a] = r /\ to[a] = st})
                    - Cardinality({a \in M : RowOf[a] = r /\ asg[a].state = st})]
DeletedKeepsCredit(M, to) ==                        \* a deletion leaves the goal's total
  {a \in M : asg[a].state = "awaiting" /\ to[a] = "failed" /\ asg[a].credit # 0}

clamp_snapshot_missing_quantity(p, cnt) ==
  IF p # None /\ p.missing > missing_quantity_ceiling(p, cnt)
  THEN [p EXCEPT !.missing = missing_quantity_ceiling(p, cnt)] ELSE p

-----------------------------------------------------------------------------
(* Moving the assignments of M, a to the state to[a] or to "DELETE".         *)

_delta_vector(M, to, r) ==
  [st \in ACTIVE_ASSIGNMENT_STATES |->
     Cardinality({a \in M : RowOf[a] = r /\ to[a] = st})
     - Cardinality({a \in M : RowOf[a] = r /\ asg[a].state = st})]

\* MC-5: who is credited to the current goal, and whose credit is taken back.
_credit_current_goal(M, to) ==
  {a \in M : /\ to[a] \in {"awaiting", "resolved_early"} /\ asg[a].state # "awaiting"
             /\ current_goal(RowOf[a]) # 0}
_uncredit(M, to) ==
  {a \in M : /\ asg[a].state = "awaiting" /\ to[a] \notin {"awaiting", "resolved_early", "resolved"}
             /\ asg[a].credit # 0}

Moved(M, to) ==
  [a \in Asgs |->
     IF a \notin M THEN asg[a]
     ELSE [state   |-> IF to[a] = "DELETE" THEN asg[a].state ELSE to[a],
           deleted |-> to[a] = "DELETE" \/ asg[a].deleted,
           credit  |-> IF a \in _credit_current_goal(M, to) THEN current_goal(RowOf[a])
                       ELSE IF a \in _uncredit(M, to) THEN 0 ELSE asg[a].credit]]

\* The guarded UPDATE of the counters; where one would go negative, a recount.
_apply_counter_delta(M, to, r) ==
  LET new == [st \in ACTIVE_ASSIGNMENT_STATES |-> row[r].cnt[st] + _delta_vector(M, to, r)[st]]
  IN  IF \A st \in ACTIVE_ASSIGNMENT_STATES : new[st] >= 0
      THEN new ELSE recompute_row_counters(Moved(M, to), r)

apply_goal_effect(M, to, r) ==
  [g \in 1 .. Len(goal[r]) |->
     LET new == goal[r][g]
           + Cardinality({a \in _credit_current_goal(M, to) : RowOf[a] = r /\ current_goal(r) = g})
           - Cardinality({a \in _uncredit(M, to) : RowOf[a] = r /\ asg[a].credit = g})
     IN  IF new >= 0 THEN new ELSE recompute_goal_total(Moved(M, to), r, g)]

move_assignment(M, to) ==
  /\ asg'  = Moved(M, to)
  /\ row'  = [r \in Rows |-> [row[r] EXCEPT !.cnt = _apply_counter_delta(M, to, r)]]
  /\ goal' = [r \in Rows |-> apply_goal_effect(M, to, r)]

\* MC-1's table: what a move may do (a breach raises, and the session rolls back).
_assert_allowed_move(M, to) ==
  \A a \in M :
     \/ to[a] = "DELETE"
     \/ asg[a].state = "none" /\ to[a] \in ACTIVE_ASSIGNMENT_STATES
     \/ /\ asg[a].state \in ACTIVE_ASSIGNMENT_STATES
        /\ \/ to[a] \in ACTIVE_ASSIGNMENT_STATES \cup {"failed"}
           \/ to[a] = "resolved" /\ asg[a].state = "awaiting"
           \/ to[a] = "resolved_early" /\ asg[a].state # "awaiting"

Deletion(M) == [a \in M |-> "DELETE"]

\* _remove_assignment.py: delete, then recompute the flags of their tasks.
remove_assignment(M) ==
  /\ move_assignment(M, Deletion(M))
  /\ task' = [t \in Tasks |->
       IF \E a \in M : TaskOf[a] = t
       THEN [task[t] EXCEPT !.flag = expected_task_flag(Moved(M, Deletion(M)), t)] ELSE task[t]]

-----------------------------------------------------------------------------
(* Initially Scanner has asked for nothing.                                  *)

Init ==
  /\ task = [t \in Tasks |-> [state |-> "PENDING", deleted |-> FALSE, linked |-> TRUE, flag |-> FALSE]]
  /\ gone = {}
  /\ row = [r \in Rows |-> [live |-> "no", requested |-> 0,
                            cnt |-> [st \in ACTIVE_ASSIGNMENT_STATES |-> 0]]]
  /\ goal = [r \in Rows |-> <<>>]
  /\ board = FALSE
  /\ snap = [r \in Rows |-> None]
  /\ asg = [a \in Asgs |-> [state |-> "none", deleted |-> FALSE, credit |-> 0]]
  /\ job = [s \in Sessions |-> None]
  /\ drifted = {}
  /\ edits = 0

Edited == edits < MaxEdits /\ edits' = edits + 1

Rollback(s) ==
  /\ job[s] # None
  /\ job' = [job EXCEPT ![s] = None]
  /\ UNCHANGED <<task, gone, row, goal, board, snap, asg, drifted, edits>>

-----------------------------------------------------------------------------
(* A task command: Task.state is written (the task is locked from here), the *)
(* task's active assignment is looked up; then the row and the assignment    *)
(* are locked, read again and moved, and all commits together.               *)

SyncDiscover(s, t, to) ==
  /\ Edited
  /\ job[s] = None /\ ~Locked(t) /\ task[t].state # to
  /\ LET ids == {a \in Active(asg) : TaskOf[a] = t}
     IN  /\ Cardinality(ids) <= 1          \* scalar_one_or_none raises on two
         /\ job' = [job EXCEPT ![s] = [cmd |-> "sync", task |-> t, to |-> to, ids |-> ids]]
  /\ UNCHANGED <<task, gone, row, goal, board, snap, asg, drifted>>

sync_task_stock_assignments(s) ==
  /\ job[s] # None /\ job[s].cmd = "sync"
  /\ LET target == ASSIGNMENT_STATE_BY_TASK_STATE[job[s].to]
         M  == {a \in job[s].ids : /\ ~asg[a].deleted
                                   /\ asg[a].state \notin TERMINAL_ASSIGNMENT_STATES
                                   /\ asg[a].state # target}
         to == [a \in M |-> target]
     IN  /\ _assert_allowed_move(M, to)
         /\ move_assignment(M, to)
  /\ task' = [task EXCEPT ![job[s].task].state = job[s].to]
  /\ job' = [job EXCEPT ![s] = None]
  /\ UNCHANGED <<gone, board, snap, drifted, edits>>

-----------------------------------------------------------------------------
(* Scanner reports items processed.  What it read unlocked are live items    *)
(* with an active assignment; under the locks it looks at the state only.    *)

ProcessDiscover(s, ids) ==
  /\ job[s] = None /\ ids # {}
  /\ \A a \in ids : a \in Active(asg) /\ ItemOf[TaskOf[a]] \notin gone
  /\ job' = [job EXCEPT ![s] = [cmd |-> "process", task |-> None, to |-> None, ids |-> ids]]
  /\ UNCHANGED <<task, gone, row, goal, board, snap, asg, drifted, edits>>

credit_snapshot_resolved(M, r) ==
  IF snap[r] = None THEN None
  ELSE [snap[r] EXCEPT !.resolved = @ + Cardinality({a \in M : RowOf[a] = r})]

process_items_processed(s) ==
  /\ job[s] # None /\ job[s].cmd = "process"
  /\ LET M  == {a \in job[s].ids : asg[a].state \in ACTIVE_ASSIGNMENT_STATES}
         to == [a \in M |-> IF asg[a].state = "awaiting" THEN "resolved" ELSE "resolved_early"]
     IN  /\ _assert_allowed_move(M, to)
         /\ move_assignment(M, to)
         /\ snap' = [r \in Rows |-> credit_snapshot_resolved(M, r)]
         /\ drifted' = drifted \cup {RowOf[a] : a \in {b \in M : asg[b].deleted}}
  /\ job' = [job EXCEPT ![s] = None]
  /\ UNCHANGED <<task, gone, board, edits>>

-----------------------------------------------------------------------------
(* The manager's batch commands.                                             *)

\* assignment_checks.py, for one entry of the batch.
evaluate_assignment_checks(a) ==
  LET t == TaskOf[a]  i == ItemOf[TaskOf[a]] IN
  /\ asg[a].state = "none"
  /\ row[RowOf[a]].live = "yes"
  /\ ~task[t].deleted /\ i \notin gone /\ task[t].linked
  /\ \A b \in Kept(asg) : TaskOf[b] = t => asg[b].state \notin _SCANNER_PROCESSED_STATES
  /\ task[t].state \notin {"FAILED", "CANCELLED"}
  /\ \A b \in Active(asg) : ItemOf[TaskOf[b]] # i

create_stock_task_assignments(E) ==
  /\ Edited
  /\ E # {}
  /\ \A a, b \in E : a # b => TaskOf[a] # TaskOf[b] /\ ItemOf[TaskOf[a]] # ItemOf[TaskOf[b]]
  /\ \A a \in E : ~Locked(TaskOf[a]) /\ evaluate_assignment_checks(a)
  /\ LET to == [a \in E |-> ASSIGNMENT_STATE_BY_TASK_STATE[task[TaskOf[a]].state]]
     IN  _assert_allowed_move(E, to) /\ move_assignment(E, to)
  /\ snap' = [r \in Rows |-> IF \E a \in E : RowOf[a] = r
                             THEN clamp_snapshot_missing_quantity(snap[r], row'[r].cnt) ELSE snap[r]]
  /\ task' = [t \in Tasks |-> IF \E a \in E : TaskOf[a] = t THEN [task[t] EXCEPT !.flag = TRUE] ELSE task[t]]
  /\ UNCHANGED <<gone, board, job, drifted>>

DeleteDiscover(s, ids) ==
  /\ job[s] = None /\ ids # {} /\ ids \subseteq Kept(asg)
  /\ job' = [job EXCEPT ![s] = [cmd |-> "delete", task |-> None, to |-> None, ids |-> ids]]
  /\ UNCHANGED <<task, gone, row, goal, board, snap, asg, drifted, edits>>

\* One of them deleted meanwhile: the batch is refused (Rollback).
delete_stock_task_assignments(s) ==
  /\ job[s] # None /\ job[s].cmd = "delete"
  /\ \A a \in job[s].ids : ~asg[a].deleted /\ ~Locked(TaskOf[a])
  /\ remove_assignment(job[s].ids)
  /\ job' = [job EXCEPT ![s] = None]
  /\ UNCHANGED <<gone, board, snap, drifted, edits>>

-----------------------------------------------------------------------------
(* What else removes assignments: their task, item, link or row goes.        *)

delete_task(t) ==
  /\ Edited
  /\ ~Locked(t) /\ ~task[t].deleted
  /\ LET M == {a \in Kept(asg) : TaskOf[a] = t} IN
     /\ move_assignment(M, Deletion(M))
     /\ task' = [task EXCEPT ![t].deleted = TRUE,
                             ![t].flag = IF M = {} THEN @ ELSE expected_task_flag(asg', t)]
  /\ UNCHANGED <<gone, board, snap, job, drifted>>

restore_task(t) ==
  /\ Edited
  /\ ~Locked(t) /\ task[t].deleted
  /\ task' = [task EXCEPT ![t].deleted = FALSE]
  /\ UNCHANGED <<gone, row, goal, board, snap, asg, job, drifted>>

remove_item_from_task(t) ==
  /\ Edited
  /\ task[t].linked /\ ~Locked(t)
  /\ LET M == {a \in Kept(asg) : TaskOf[a] = t} IN
     /\ move_assignment(M, Deletion(M))
     /\ task' = [task EXCEPT ![t].linked = FALSE,
                             ![t].flag = IF M = {} THEN @ ELSE expected_task_flag(asg', t)]
  /\ UNCHANGED <<gone, board, snap, job, drifted>>

\* Its checks of the task and the item are unlocked reads: either may be gone by now.
add_item_to_task(t) ==
  /\ Edited
  /\ ~task[t].linked
  /\ task' = [task EXCEPT ![t].linked = TRUE]
  /\ UNCHANGED <<gone, row, goal, board, snap, asg, job, drifted>>

delete_item(i) ==
  /\ Edited
  /\ i \notin gone
  /\ LET M == {a \in Kept(asg) : ItemOf[TaskOf[a]] = i} IN
     /\ \A a \in M : ~Locked(TaskOf[a])
     /\ remove_assignment(M)
  /\ gone' = gone \cup {i}
  /\ UNCHANGED <<board, snap, job, drifted>>

\* The tasks are locked as an earlier, unlocked read named them: one that got its
\* assignment since is only waited for when its flag has to change.
cascade_delete_stock_report_item(r) ==
  /\ Edited
  /\ row[r].live = "yes"
  /\ LET M == {a \in Kept(asg) : RowOf[a] = r} IN
     /\ asg' = Moved(M, Deletion(M))
     /\ goal' = [q \in Rows |-> apply_goal_effect(M, Deletion(M), q)]
     /\ task' = [t \in Tasks |-> IF \E a \in M : TaskOf[a] = t
                                 THEN [task[t] EXCEPT !.flag = expected_task_flag(asg', t)] ELSE task[t]]
     /\ \A t \in Tasks : task'[t] # task[t] => ~Locked(t)
  /\ row' = [row EXCEPT ![r].live = "deleted", ![r].cnt = [st \in ACTIVE_ASSIGNMENT_STATES |-> 0]]
  /\ snap' = [snap EXCEPT ![r] = None]
  /\ UNCHANGED <<gone, board, job, drifted>>

-----------------------------------------------------------------------------
(* Demand and the board.                                                     *)

\* A row Scanner names for the first time is created; a rise opens a goal.
apply_stock_demand(r, q) ==
  /\ Edited
  /\ row[r].live # "deleted"
  /\ q > row[r].requested => Len(goal[r]) < MaxGoals
  /\ row' = [row EXCEPT ![r].live = "yes", ![r].requested = q]
  /\ goal' = IF q > row[r].requested THEN [goal EXCEPT ![r] = Append(@, 0)] ELSE goal
  /\ UNCHANGED <<task, gone, board, snap, asg, job, drifted>>

set_missing_quantity(r, q) ==
  /\ Edited
  /\ row[r].live = "yes" /\ snap[r] # None
  /\ q <= missing_quantity_ceiling(snap[r], row[r].cnt)
  /\ snap' = [snap EXCEPT ![r].missing = q]
  /\ UNCHANGED <<task, gone, row, goal, board, asg, job, drifted>>

set_requested_quantity(r, q) ==
  /\ Edited
  /\ row[r].live = "yes" /\ snap[r] # None
  /\ snap' = [snap EXCEPT ![r] = clamp_snapshot_missing_quantity([@ EXCEPT !.manual = q], row[r].cnt)]
  /\ UNCHANGED <<task, gone, row, goal, board, asg, job, drifted>>

refresh_requested(keep_manual) ==
  /\ Edited /\ board
  /\ snap' = [r \in Rows |->
       IF row[r].live # "yes" THEN snap[r]
       ELSE LET p == IF snap[r] = None
                     THEN [scanner |-> row[r].requested, manual |-> None, missing |-> 0, resolved |-> 0]
                     ELSE [snap[r] EXCEPT !.scanner = row[r].requested,
                                          !.manual = IF keep_manual THEN @ ELSE None]
            IN  clamp_snapshot_missing_quantity(p, row[r].cnt)]
  /\ UNCHANGED <<task, gone, row, goal, board, asg, job, drifted>>

\* A draft goes live; manual and typed are what it holds for each row.
_go_live(keep_active_missing, manual, typed) ==
  /\ Edited
  /\ board' = TRUE
  /\ snap' = [r \in Rows |->
       IF row[r].live # "yes" THEN None
       ELSE LET old == IF keep_active_missing /\ snap[r] # None THEN snap[r].missing ELSE 0
                p   == [scanner |-> row[r].requested, manual |-> manual[r], resolved |-> 0,
                        missing |-> IF typed[r] # None THEN typed[r] ELSE old]
            IN  clamp_snapshot_missing_quantity(p, row[r].cnt)]
  /\ UNCHANGED <<task, gone, row, goal, asg, job, drifted>>

-----------------------------------------------------------------------------
(* The manager's repair: every divergence found is set to the value expected *)
(* of it, the missing ceiling computed from the counters as stored; if one   *)
(* is left afterwards, the whole repair is rolled back.                      *)

Repaired(r) ==
  LET top == missing_quantity_ceiling(snap[r], row[r].cnt)
  IN  IF row[r].live = "yes" /\ snap[r] # None /\ snap[r].missing > top
      THEN [snap[r] EXCEPT !.missing = top] ELSE snap[r]

repair_stock_report ==
  /\ row' = [r \in Rows |-> IF row[r].live = "yes"
                            THEN [row[r] EXCEPT !.cnt = recompute_row_counters(asg, r)] ELSE row[r]]
  /\ goal' = [r \in Rows |-> [g \in 1 .. Len(goal[r]) |-> recompute_goal_total(asg, r, g)]]
  /\ task' = [t \in Tasks |-> [task[t] EXCEPT !.flag = expected_task_flag(asg, t)]]
  /\ \A t \in Tasks : task'[t] # task[t] => ~Locked(t)
  /\ snap' = [r \in Rows |-> Repaired(r)]
  /\ \A r \in LiveRows : snap'[r] # None =>
        snap'[r].missing <= missing_quantity_ceiling(snap'[r], row'[r].cnt)
  /\ drifted' = {}
  /\ UNCHANGED <<gone, board, asg, job, edits>>

-----------------------------------------------------------------------------
Next ==
  \/ \E s \in Sessions :
       \/ Rollback(s) \/ sync_task_stock_assignments(s)
       \/ process_items_processed(s) \/ delete_stock_task_assignments(s)
       \/ \E t \in Tasks, to \in Moves : SyncDiscover(s, t, to)
       \/ \E ids \in SUBSET Asgs : ProcessDiscover(s, ids) \/ DeleteDiscover(s, ids)
  \/ \E E \in SUBSET Asgs : create_stock_task_assignments(E)
  \/ \E t \in Tasks : delete_task(t) \/ restore_task(t) \/ remove_item_from_task(t) \/ add_item_to_task(t)
  \/ \E i \in Items : delete_item(i)
  \/ \E r \in Rows : cascade_delete_stock_report_item(r)
  \/ \E r \in Rows, q \in Quantities : apply_stock_demand(r, q) \/ set_missing_quantity(r, q)
  \/ \E r \in Rows, q \in Quantities \cup {None} : set_requested_quantity(r, q)
  \/ \E keep \in BOOLEAN : refresh_requested(keep)
  \/ \E keep \in BOOLEAN, manual, typed \in [Rows -> Quantities \cup {None}] : _go_live(keep, manual, typed)
  \/ repair_stock_report

Spec == Init /\ [][Next]_vars

-----------------------------------------------------------------------------
Snapshots == [scanner : Nat, manual : Nat \cup {None}, missing : Nat, resolved : Nat]
Jobs == [cmd : {"sync"}, task : Tasks, to : Moves, ids : SUBSET Asgs]
        \cup [cmd : {"process", "delete"}, task : {None}, to : {None}, ids : SUBSET Asgs]

\* The tables have their types: in particular no counter and no goal total ever
\* goes negative, however far the ledgers have drifted (the guarded UPDATE and
\* its recount, and the CHECKs of the tables behind them).
TypeOK ==
  /\ task \in [Tasks -> [state : TaskStates, deleted : BOOLEAN, linked : BOOLEAN, flag : BOOLEAN]]
  /\ gone \subseteq Items
  /\ row \in [Rows -> [live : {"no", "yes", "deleted"}, requested : Nat,
                       cnt : [ACTIVE_ASSIGNMENT_STATES -> Nat]]]
  /\ goal \in [Rows -> Seq(Nat)]
  /\ board \in BOOLEAN
  /\ snap \in [Rows -> Snapshots \cup {None}]
  /\ asg \in [Asgs -> [state : {"none"} \cup ACTIVE_ASSIGNMENT_STATES \cup TERMINAL_ASSIGNMENT_STATES,
                       deleted : BOOLEAN, credit : Nat]]
  /\ job \in [Sessions -> Jobs \cup {None}]
  /\ drifted \subseteq Rows
  /\ edits \in 0 .. MaxEdits

CountersAddUp(r) == row[r].live = "yes" => row[r].cnt = recompute_row_counters(asg, r)

\* Every derived number equals a recount of the assignments: a goal's total the
\* assignments credited to it, a task's flag whether it has one, and the counters
\* of a row on which Scanner resolved no deleted assignment since a repair.
LedgersAddUp ==
  /\ \A r \in Rows : \A g \in 1 .. Len(goal[r]) : goal[r][g] = recompute_goal_total(asg, r, g)
  /\ \A t \in Tasks : task[t].flag = expected_task_flag(asg, t)
  /\ \A r \in Rows \ drifted : CountersAddUp(r)

\* What the design says (M1): the counters equal the recount after every commit.
CountersAlwaysAddUp == \A r \in Rows : CountersAddUp(r)

\* An assignment not deleted has a live row, task, item and link; while it is
\* active its state is the one its task's state calls for, whatever Scanner,
\* managers and task commands did at the same time.
AssignmentFollowsTask ==
  \A a \in Kept(asg) :
     /\ row[RowOf[a]].live = "yes"
     /\ ~task[TaskOf[a]].deleted /\ task[TaskOf[a]].linked /\ ItemOf[TaskOf[a]] \notin gone
     /\ a \in Active(asg) => asg[a].state = ASSIGNMENT_STATE_BY_TASK_STATE[task[TaskOf[a]].state]

\* No active snapshot marks missing what is covered already: the units assigned
\* and those processed leave that many of the quantity in force.
MissingWithinCeiling ==
  \A r \in LiveRows \ drifted :
     snap[r] # None => snap[r].missing <= missing_quantity_ceiling(snap[r], row[r].cnt)
=============================================================================
