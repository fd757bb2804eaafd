-------------------------------- MODULE TaskSteps --------------------------------
(***************************************************************************)
(* One task and its steps (services/commands/task_steps and                  *)
(* services/commands/tasks): the state machine of a step, its open           *)
(* StepStateRecord, the dependency edges with the counters and the readiness *)
(* derived from them, and the task's state, which follows its steps.         *)
(*                                                                           *)
(* Commands are database transactions at READ COMMITTED without row locks    *)
(* (only delete_task and restore_task lock).  A transaction loads rows, goes *)
(* on to read and to compute on what it loaded, and commits: the ORM then    *)
(* writes the columns that differ from the loaded ones, whatever another     *)
(* transaction has committed since.  The database refuses a second open      *)
(* record of a step, a second active edge between two steps, and counters    *)
(* with completed_dependencies > total_dependencies.                         *)
(*                                                                           *)
(* All reads a command makes after the first are one step here, except that  *)
(* the state commands load steps and task first and look for the open record *)
(* later.  Who performed and who is credited is kept for WORKING records     *)
(* only: no query asks it of another.  Realtime events, notifications,       *)
(* history records, acknowledgments and fabric are left out; the outbox      *)
(* task of a transition is the input of WorkerShifts.                        *)
(***************************************************************************)
EXTENDS Integers, FiniteSets

CONSTANTS
  Steps,      \* ids of the steps the task may get
  Sections,   \* working sections
  SectionOf,  \* the section of each step
  Wired,      \* the dependencies between sections that stand when the task is created
  Batching,   \* the sections whose allows_batch_working is set then
  Users,      \* workers and managers
  Asked,      \* bound: the states a step is asked to enter
  Ends,       \* bound: the terminal states the task is put in
  Flags,      \* bound: what edits of a section make of allows_batch_working
  Txns,       \* database sessions
  MaxEdits,   \* bound: hand edits of the dependency graph
  MaxRaces    \* bound: commits while another transaction is under way

StepStates   == {"PENDING", "WORKING", "PAUSED", "COMPLETED", "SKIPPED", "FAILED", "CANCELLED"}
TERMINAL_STEP_STATES == {"COMPLETED", "SKIPPED", "FAILED", "CANCELLED"}
TaskStates   == {"PENDING", "ASSIGNED", "WORKING", "READY", "RESOLVED", "FAILED", "CANCELLED"}
TERMINAL_TASK_STATES == {"RESOLVED", "FAILED", "CANCELLED"}

ASSUME StepsAssumption ==
  /\ IsFiniteSet(Steps) /\ SectionOf \in [Steps -> Sections]
  /\ Wired \subseteq Sections \X Sections /\ Batching \subseteq Sections
  /\ Flags \subseteq {"keep", "on", "off"}
  /\ Asked \subseteq StepStates /\ Ends \subseteq TERMINAL_TASK_STATES
  /\ MaxEdits \in Nat /\ MaxRaces \in Nat

VARIABLES
  db,        \* the committed tables: task, row (task_steps), rec (the open records),
             \* edge (active dependencies), wiring (dependencies between sections),
             \* batching (sections with allows_batch_working)
  job,       \* of each session: what a state command loaded, or None
  plan,      \* of each session: what it loaded and what it will write, or None
  edits,     \* hand edits so far
  races,     \* history: commits made while another transaction was under way
  skewed,    \* history: steps that gained or lost by hand a COMPLETED prerequisite
  excused    \* history: users who started a step for someone else, or lost the batch stamp
             \* of a step they were at work on

vars == <<db, job, plan, edits, races, skewed, excused>>

People == Users \cup {"nobody"}   \* "nobody" where it does not matter
None   == [none |-> TRUE]
NoRec  == [state |-> "NONE", by |-> "nobody", credit |-> "nobody"]
NewRow == [live |-> "no", state |-> "NONE", total |-> 0, done |-> 0, ready |-> "READY",
           batch |-> FALSE]
raced  == races > 0

-----------------------------------------------------------------------------
(* The rules, as functions from the tables a session sees to the tables it   *)
(* leaves.                                                                    *)

Live(d)       == {s \in Steps : d.row[s].live = "yes"}
Prereqs(d, s) == {p \in Steps : <<s, p>> \in d.edge}
Completed(d)  == {s \in Steps : d.row[s].state = "COMPLETED"}
AtWork(d)     == {s \in Live(d) : d.rec[s].state = "WORKING"}
Alone(d)      == {s \in AtWork(d) : ~d.row[s].batch}
Max0(n)       == IF n > 0 THEN n ELSE 0

\* domain/task_steps/readiness.py
recalculate_readiness(r) ==
  [r EXCEPT !.ready = IF r.total = 0 \/ r.done = r.total THEN "READY"
                      ELSE IF r.done = 0 THEN "BLOCKED" ELSE "PARTIAL"]

\* Mutants: a rule gone wrong.
RemovedKeepCompleted(d, S) ==      \* the completed counter is not reduced
  [s \in Steps |->
     LET gone  == Prereqs(d, s) \cap S
         total == Max0(d.row[s].total - Cardinality(gone)) IN
     IF s \in S THEN [d.row[s] EXCEPT !.state = "SKIPPED", !.live = "deleted"]
     ELSE IF s \notin Live(d) \/ gone = {} THEN d.row[s]
     ELSE recalculate_readiness([d.row[s] EXCEPT
            !.total = total, !.done = IF @ > total THEN total ELSE @])]
ReadyStaysReady(d) == d            \* a READY task given a new step is not reopened
NobodyConflicts(d, s, users) == {} \* no other record is looked for
WholeRow(now, was, new) == IF new = was THEN now ELSE new   \* every column is written
NoCheck(p) == (p.new.edge \ p.was.edge) \cap db.edge = {}   \* the CHECK is missing

_ALLOWED_TRANSITIONS ==
  [st \in StepStates |->
     IF st = "PENDING" THEN {"WORKING"}
     ELSE IF st = "WORKING" THEN {"PAUSED", "COMPLETED", "FAILED", "CANCELLED"}
     ELSE IF st = "PAUSED" THEN {"WORKING", "FAILED", "CANCELLED"} ELSE {}]

Record(st, by, credit) ==
  IF st = "WORKING" THEN [state |-> st, by |-> by, credit |-> credit]
                    ELSE [NoRec EXCEPT !.state = st]

\* Close the open records of the steps of S and open new ones, in state st.
Enter(d, S, st, by, credit) ==
  [d EXCEPT !.row = [s \in Steps |-> IF s \in S THEN [d.row[s] EXCEPT !.state = st] ELSE d.row[s]],
            !.rec = [s \in Steps |-> IF s \in S THEN Record(st, by, credit) ELSE d.rec[s]]]

maybe_advance_task_to_working(d) ==
  IF d.task.state = "ASSIGNED" THEN [d EXCEPT !.task.state = "WORKING"] ELSE d

maybe_reopen_task_to_working(d) ==
  IF d.task.state = "READY" THEN [d EXCEPT !.task.state = "WORKING"] ELSE d

maybe_evaluate_task_ready(d, allow_stepless) ==
  IF /\ d.task.state \notin TERMINAL_TASK_STATES
     /\ \A s \in Live(d) : d.row[s].state \in TERMINAL_STEP_STATES
     /\ Live(d) # {} \/ allow_stepless
  THEN [d EXCEPT !.task.state = "READY"] ELSE d

\* Every live dependent of a step of S counts it.
cascade_step_completion(d, S) ==
  [d EXCEPT !.row = [s \in Steps |->
     LET n == Cardinality(Prereqs(d, s) \cap S) IN
     IF s \in Live(d) /\ n > 0
     THEN recalculate_readiness([d.row[s] EXCEPT !.done = @ + n]) ELSE d.row[s]]]

\* One command may move several steps; the task is looked at after each, so the
\* last look decides.
_apply_step_transition(d, S, st, by, credit) ==
  LET e == Enter(d, S, st, by, credit)
      r == IF st \in TERMINAL_STEP_STATES /\ S # {} THEN maybe_evaluate_task_ready(e, FALSE) ELSE e
  IN  IF st = "WORKING" THEN maybe_advance_task_to_working(e)
      ELSE IF st = "COMPLETED" THEN cascade_step_completion(r, S) ELSE r

\* The steps whose WORKING record stops s from being the one active step.
fetch_open_user_working_record(d, s, users) ==
  {c \in Alone(d) \ {s} : d.rec[c].by \in users}

Acyclic(W) == \A C \in SUBSET Sections \ {{}} : \E c \in C : \A e \in C : <<c, e>> \notin W

\* The edges a new step needs: to the steps of the sections its own depends on, and from
\* the open steps of the sections that depend on its own.
_compute_dependency_edges(d, S) ==
  {x \in Steps \X Steps :
     /\ <<SectionOf[x[1]], SectionOf[x[2]]>> \in d.wiring
     /\ \/ x[1] \in S /\ x[2] \in Live(d) \cup S
        \/ x[2] \in S /\ x[1] \in Live(d) /\ d.row[x[1]].state \notin TERMINAL_STEP_STATES}

\* Add edges whose COMPLETED prerequisites count (new steps, and edits of a section).
Wire(d, E) ==
  [d EXCEPT !.edge = @ \cup E,
            !.row = [s \in Steps |->
               LET P == {p \in Steps : <<s, p>> \in E} IN
               IF P = {} THEN d.row[s]
               ELSE recalculate_readiness([d.row[s] EXCEPT
                      !.total = @ + Cardinality(P),
                      !.done = @ + Cardinality(P \cap Completed(d))])]]

\* Take edges away; the completed counter is only clamped to the total.
Unwire(d, E) ==
  [d EXCEPT !.edge = @ \ E,
            !.row = [s \in Steps |->
               LET n == Cardinality({p \in Steps : <<s, p>> \in E})
                   total == Max0(d.row[s].total - n) IN
               IF n = 0 THEN d.row[s]
               ELSE recalculate_readiness([d.row[s] EXCEPT
                      !.total = total, !.done = IF @ > total THEN total ELSE @])]]

\* The dependents of the removed steps S lose those edges from both counters.
_apply_removed_dependency_counts(d, S) ==
  [s \in Steps |->
     LET gone  == Prereqs(d, s) \cap S
         total == Max0(d.row[s].total - Cardinality(gone))
         done  == Max0(d.row[s].done - Cardinality(gone \cap Completed(d))) IN
     IF s \in S THEN [d.row[s] EXCEPT !.state = "SKIPPED", !.live = "deleted"]
     ELSE IF s \notin Live(d) \/ gone = {} THEN d.row[s]
     ELSE recalculate_readiness([d.row[s] EXCEPT
            !.total = total, !.done = IF done > total THEN total ELSE done])]

_remove_task_steps_in_session(d, S) ==
  LET e == [d EXCEPT !.row = _apply_removed_dependency_counts(d, S),
                     !.rec = [s \in Steps |-> IF s \in S THEN NoRec ELSE d.rec[s]],
                     !.edge = {x \in d.edge : x[1] \notin S /\ x[2] \notin S}]
  IN  IF Live(e) = {} THEN [e EXCEPT !.task.state = "PENDING"]
      ELSE maybe_evaluate_task_ready(e, FALSE)

AddSteps(d, S) ==
  LET e == [d EXCEPT
              !.row = [s \in Steps |-> IF s \in S
                         THEN [NewRow EXCEPT !.live = "yes", !.state = "PENDING",
                                             !.batch = SectionOf[s] \in d.batching]
                         ELSE d.row[s]],
              !.rec = [s \in Steps |-> IF s \in S THEN Record("PENDING", "nobody", "nobody")
                                                  ELSE d.rec[s]],
              !.task.state = IF @ = "PENDING" THEN "ASSIGNED" ELSE @]
  IN  Wire(maybe_reopen_task_to_working(e), _compute_dependency_edges(d, S))

\* Section c comes to allow batch work, or not, and its open steps are stamped with it.
sync_step_batch_flag(d, c, on) ==
  [d EXCEPT !.batching = IF on THEN @ \cup {c} ELSE @ \ {c},
            !.row = [s \in Steps |->
               IF /\ s \in Live(d) /\ SectionOf[s] = c
                  /\ d.row[s].state \notin TERMINAL_STEP_STATES
               THEN [d.row[s] EXCEPT !.batch = on] ELSE d.row[s]]]

-----------------------------------------------------------------------------
(* Transactions.                                                              *)

Init ==
  /\ db = [task |-> [state |-> "PENDING", deleted |-> FALSE],
           row |-> [s \in Steps |-> NewRow], rec |-> [s \in Steps |-> NoRec],
           edge |-> {}, wiring |-> Wired, batching |-> Batching]
  /\ job = [t \in Txns |-> None] /\ plan = [t \in Txns |-> None]
  /\ edits = 0 /\ races = 0 /\ skewed = {} /\ excused = {}

Busy(t)   == job[t] # None \/ plan[t] # None
Others(t) == {u \in Txns \ {t} : Busy(u)}
Free(t)   == ~Busy(t) /\ (Others(t) = {} \/ races < MaxRaces)

\* A column of the row is written when the session changed it.
Col(now, was, new) == IF new = was THEN now ELSE new
MergeRow(now, was, new) ==
  [live |-> Col(now.live, was.live, new.live), state |-> Col(now.state, was.state, new.state),
   total |-> Col(now.total, was.total, new.total), done |-> Col(now.done, was.done, new.done),
   ready |-> Col(now.ready, was.ready, new.ready), batch |-> Col(now.batch, was.batch, new.batch)]
Merge(p) ==
  [task |-> [state |-> Col(db.task.state, p.was.task.state, p.new.task.state),
             deleted |-> db.task.deleted],
   row |-> [s \in Steps |-> MergeRow(db.row[s], p.was.row[s], p.new.row[s])],
   rec |-> [s \in Steps |-> IF s \in p.opens THEN p.new.rec[s]
                            ELSE IF s \in p.closes THEN NoRec ELSE db.rec[s]],
   edge |-> (db.edge \ (p.was.edge \ p.new.edge)) \cup (p.new.edge \ p.was.edge),
   wiring |-> (db.wiring \ (p.was.wiring \ p.new.wiring)) \cup (p.new.wiring \ p.was.wiring),
   batching |-> (db.batching \ (p.was.batching \ p.new.batching))
                  \cup (p.new.batching \ p.was.batching)]

\* CHECK and unique constraints, met when the session flushes.
Accepted(p) ==
  /\ \A s \in Steps : Merge(p).row[s].done \in 0..Merge(p).row[s].total
  /\ (p.new.edge \ p.was.edge) \cap db.edge = {}

\* What the records that were just opened do to the plan of another session: its own new
\* record is a second open one, and the record it meant to close is no longer the open one.
Overtaken(p, opened) ==
  IF p = None \/ p.opens \cap opened # {} THEN None
  ELSE [p EXCEPT !.closes = @ \ opened]

\* When session t ends, the records it opened are entered later than the clock of every
\* session that had read its own before t did.
Ended(t, opened) ==
  [u \in Txns |->
     IF u = t \/ job[u] = None THEN None
     ELSE IF t \in job[u].after THEN [job[u] EXCEPT !.after = @ \ {t}]
     ELSE [job[u] EXCEPT !.late = @ \cup opened]]

Plan(was, new, opens, closes, skew) ==
  [was |-> was, new |-> new, opens |-> opens, closes |-> closes, skew |-> skew]

\* A command computed new from the tables was; the commit is a step of its own.
Apply(t, p) ==
  /\ plan' = [plan EXCEPT ![t] = p] /\ job' = [job EXCEPT ![t] = None]
  /\ UNCHANGED <<db, races, skewed, excused>>

\* Those who start a step for someone else, and those at work on a step that loses its stamp.
Excuses(p) ==
  {p.new.rec[s].by : s \in {k \in Alone(p.new) :
     \/ k \in p.opens /\ p.new.rec[k].by # p.new.rec[k].credit
     \/ p.was.row[k].batch}}

Commit(t) ==
  /\ plan[t] # None /\ Accepted(plan[t])
  /\ db' = Merge(plan[t])
  /\ plan' = [u \in Txns |-> IF u = t THEN None ELSE Overtaken(plan[u], plan[t].opens)]
  /\ races' = IF Others(t) # {} THEN races + 1 ELSE races
  /\ skewed' = skewed \cup plan[t].skew
  /\ excused' = excused \cup Excuses(plan[t])
  /\ job' = Ended(t, plan[t].opens)
  /\ UNCHANGED edits

\* A refusal after the first read, a constraint violation, or a connection that is lost.
Rollback(t) ==
  /\ Busy(t)
  /\ plan' = [plan EXCEPT ![t] = None] /\ job' = Ended(t, {})
  /\ UNCHANGED <<db, edits, races, skewed, excused>>

-----------------------------------------------------------------------------
(* Commands on the state of steps.                                            *)

\* The steps and the task are loaded and the transition is checked against them.
Load(t, S, rows, st, by, credit) ==
  /\ Free(t) /\ ~db.task.deleted
  /\ IF st = "WORKING" THEN {by, credit} \subseteq Users ELSE {by, credit} = {"nobody"}
  /\ job' = [job EXCEPT ![t] = [steps |-> S, row |-> [s \in rows |-> db.row[s]],
                                task |-> db.task, new |-> st, by |-> by, credit |-> credit,
                                after |-> Others(t), late |-> {}]]
  /\ UNCHANGED <<db, plan, edits, races, skewed, excused>>

LoadForTransition(t, s, st, by, credit) ==
  /\ s \in Live(db) /\ st \in _ALLOWED_TRANSITIONS[db.row[s].state]
  /\ Load(t, {s}, {s}, st, by, credit)

LoadForBatch(t, S, st, by) ==
  /\ S # {} /\ S \subseteq Live(db)
  /\ \A s \in S : db.row[s].batch /\ st \in _ALLOWED_TRANSITIONS[db.row[s].state]
  /\ Load(t, S, S, st, by, by)

LoadForForce(t) ==
  /\ db.task.state \notin TERMINAL_TASK_STATES \cup {"READY"}
  /\ Load(t, {s \in Live(db) : db.row[s].state \notin TERMINAL_STEP_STATES}, Live(db),
          "SKIPPED", "nobody", "nobody")

\* exited_at >= entered_at: a session cannot close a record entered after its own clock.
Closable(j, S) == \A s \in S : db.rec[s] # NoRec /\ s \notin j.late

\* What the session of a state command sees: the rows it loaded stay as they were.
View(j) == [db EXCEPT !.task = j.task,
                      !.row = [s \in Steps |-> IF s \in DOMAIN j.row THEN j.row[s] ELSE db.row[s]]]

\* transition_step_state and transition_step_state_batch from the auto-pause on.
transition_step_state(t) ==
  LET j == job[t]
      v == View(j)
      conflicts == IF j.new = "WORKING"
                   THEN UNION {fetch_open_user_working_record(v, s, {j.by, j.credit}) :
                               s \in {k \in j.steps : ~v.row[k].batch}}
                   ELSE {}
  IN  /\ j # None /\ j.new # "SKIPPED"
      /\ \E P \in SUBSET conflicts :
           /\ IF conflicts = {} THEN P = {} ELSE Cardinality(P) = 1
           /\ Closable(j, j.steps \cup P)
           /\ Apply(t, Plan(v, _apply_step_transition(Enter(v, P, "PAUSED", j.by, j.by),
                                                      j.steps, j.new, j.by, j.credit),
                            j.steps \cup P, {}, {}))
      /\ UNCHANGED edits

force_task_ready(t) ==
  LET j == job[t]
      v == View(j)
      e == maybe_evaluate_task_ready(
             _apply_step_transition(v, j.steps, "SKIPPED", j.by, j.credit), TRUE)
  IN  /\ j # None /\ j.new = "SKIPPED"
      /\ Closable(j, j.steps)
      /\ e.task.state = "READY"
      /\ Apply(t, Plan(v, e, j.steps, {}, {}))
      /\ UNCHANGED edits

-----------------------------------------------------------------------------
(* Commands on the step list, on the dependency graph and on the task.        *)

Edit == edits < MaxEdits /\ edits' = edits + 1

add_task_steps(t, S) ==
  /\ Free(t) /\ ~db.task.deleted /\ db.task.state \notin TERMINAL_TASK_STATES
  /\ S # {} /\ \A s \in S : db.row[s].live = "no"
  /\ Apply(t, Plan(db, AddSteps(db, S), S, {}, {}))
  /\ UNCHANGED edits

remove_task_steps(t, S) ==
  /\ Free(t) /\ S # {} /\ S \subseteq Live(db)
  /\ Apply(t, Plan(db, _remove_task_steps_in_session(db, S), {},
                   {s \in S : db.rec[s] # NoRec}, {}))
  /\ UNCHANGED edits

add_step_dependency(t, s, p) ==
  /\ Free(t) /\ Edit /\ s # p /\ {s, p} \subseteq Live(db) /\ <<s, p>> \notin db.edge
  /\ Apply(t, Plan(db, [db EXCEPT !.edge = @ \cup {<<s, p>>},
                                  !.row[s] = recalculate_readiness(
                                               [db.row[s] EXCEPT !.total = @ + 1])],
                   {}, {}, IF p \in Completed(db) THEN {s} ELSE {}))

remove_step_dependency(t, s, p) ==
  /\ Free(t) /\ Edit /\ <<s, p>> \in db.edge
  /\ Apply(t, Plan(db, Unwire(db, {<<s, p>>}), {}, {}, IF p \in Completed(db) THEN {s} ELSE {}))

\* edit_working_section replaces the prerequisites of section c and, in the open steps of
\* that section, drops the edges it lost and adds the ones it gained; it may set the
\* section's allows_batch_working too.
edit_working_section(t, c, P, flag) ==
  LET was   == {q \in Sections : <<c, q>> \in db.wiring}
      open  == {s \in Live(db) : SectionOf[s] = c /\ db.row[s].state \notin TERMINAL_STEP_STATES}
      lost  == {x \in db.edge : /\ x[1] \in open /\ x[2] \in Live(db)
                                /\ SectionOf[x[2]] \in was \ P}
      cut   == Unwire(db, lost)
      gains == {x \in open \X Live(db) : SectionOf[x[2]] \in P \ was} \ cut.edge
      W     == (db.wiring \ ({c} \X Sections)) \cup ({c} \X P)
      wired == [Wire(cut, gains) EXCEPT !.wiring = W]
  IN  /\ Free(t) /\ Edit /\ (P # was \/ flag # "keep") /\ Acyclic(W)
      /\ Apply(t, Plan(db, IF flag = "keep" THEN wired
                           ELSE sync_step_batch_flag(wired, c, flag = "on"),
                       {}, {}, {x[1] : x \in {y \in lost : y[2] \in Completed(db)}}))

\* resolve_task, fail_task, cancel_task
EndTask(t, end) ==
  /\ Free(t) /\ ~db.task.deleted /\ db.task.state \notin TERMINAL_TASK_STATES
  /\ Apply(t, Plan(db, [db EXCEPT !.task.state = end], {}, {}, {}))
  /\ UNCHANGED edits

\* The WORKING records are locked, the task row too, so these two read and commit in one
\* step; they wait for a session that has closed one of the records.
pause_task_working_steps_in_session(t, deleted) ==
  /\ \A u \in Txns : plan[u] # None => plan[u].opens \cap AtWork(db) = {}
                                       /\ plan[u].closes \cap AtWork(db) = {}
  /\ db' = [Enter(db, AtWork(db), "PAUSED", "nobody", "nobody") EXCEPT !.task.deleted = deleted]
  /\ plan' = [u \in Txns |-> Overtaken(plan[u], AtWork(db))]
  /\ races' = IF Others(t) # {} THEN races + 1 ELSE races
  /\ job' = Ended(t, AtWork(db))
  /\ UNCHANGED <<edits, skewed, excused>>

delete_task(t) ==
  /\ Free(t) /\ ~db.task.deleted
  /\ pause_task_working_steps_in_session(t, TRUE)

restore_task(t) ==
  /\ Free(t) /\ db.task.deleted
  /\ pause_task_working_steps_in_session(t, FALSE)

Next ==
  \E t \in Txns :
    \/ \E s \in Steps, st \in Asked, by \in People, credit \in People :
         LoadForTransition(t, s, st, by, credit)
    \/ \E S \in SUBSET Steps, st \in Asked, by \in People : LoadForBatch(t, S, st, by)
    \/ LoadForForce(t)
    \/ transition_step_state(t)
    \/ force_task_ready(t)
    \/ \E S \in SUBSET Steps : add_task_steps(t, S) \/ remove_task_steps(t, S)
    \/ \E s, p \in Steps : add_step_dependency(t, s, p) \/ remove_step_dependency(t, s, p)
    \/ \E c \in Sections, P \in SUBSET Sections, flag \in Flags :
         edit_working_section(t, c, P, flag)
    \/ \E end \in Ends : EndTask(t, end)
    \/ delete_task(t)
    \/ restore_task(t)
    \/ Commit(t)
    \/ Rollback(t)

Spec == Init /\ [][Next]_vars

-----------------------------------------------------------------------------
(* Properties.                                                                *)

Row == [live: {"no", "yes", "deleted"}, state: StepStates \cup {"NONE"},
        total: Nat, done: Nat, ready: {"READY", "PARTIAL", "BLOCKED"}, batch: BOOLEAN]
Rec == [state: StepStates \cup {"NONE"}, by: People, credit: People]
Db  == [task: [state: TaskStates, deleted: BOOLEAN], row: [Steps -> Row], rec: [Steps -> Rec],
        edge: SUBSET (Steps \X Steps), wiring: SUBSET (Sections \X Sections),
        batching: SUBSET Sections]

\* The tables, the loaded rows and the planned writes keep their types in every interleaving,
\* and no committed step counts more completions than it has dependencies.
TypeOK ==
  /\ db \in Db /\ \A s \in Steps : db.row[s].done <= db.row[s].total
  /\ \A t \in Txns :
       /\ job[t] # None =>
            /\ job[t].steps \subseteq DOMAIN job[t].row /\ DOMAIN job[t].row \subseteq Steps
            /\ \A s \in DOMAIN job[t].row : job[t].row[s] \in Row
            /\ job[t].task \in [state: TaskStates, deleted: BOOLEAN]
            /\ job[t].after \subseteq Txns /\ job[t].late \subseteq Steps
            /\ job[t].new \in StepStates /\ job[t].by \in People /\ job[t].credit \in People
       /\ plan[t] # None =>
            plan[t] \in [was: Db, new: Db, opens: SUBSET Steps, closes: SUBSET Steps,
                         skew: SUBSET Steps]
  /\ edits \in Nat /\ races \in Nat /\ skewed \subseteq Steps /\ excused \subseteq People

\* Whatever transactions overlap, a step that is not deleted has one open record and it
\* bears the step's state: the two tables, written by different statements from rows loaded
\* at different moments, never disagree.
RecordMatchesStep ==
  \A s \in Live(db) : db.rec[s] # NoRec /\ db.rec[s].state = db.row[s].state

\* Commands one after another, edits of steps, sections and edges included: readiness says
\* what the prerequisites say, unless a COMPLETED one was added or taken away by hand.
ReadinessIsTrue ==
  ~raced => \A s \in Live(db) \ skewed :
     LET P == Prereqs(db, s)
         C == P \cap Completed(db)
     IN  /\ db.row[s].total = Cardinality(P) /\ db.row[s].done = Cardinality(C)
         /\ db.row[s].ready = IF C = P THEN "READY" ELSE IF C = {} THEN "BLOCKED" ELSE "PARTIAL"

\* Commands one after another: the state of the task is a function of its steps.
TaskFollowsSteps ==
  LET states == {db.row[s].state : s \in Live(db)} IN
  ~raced =>
    /\ db.task.state = "PENDING" => states = {}
    /\ db.task.state = "ASSIGNED" => states = {"PENDING"}
    /\ db.task.state = "WORKING" => states \ TERMINAL_STEP_STATES # {}
    /\ db.task.state = "READY" => states \subseteq TERMINAL_STEP_STATES

\* Commands one after another: of the steps that are not batch-capable a user has started,
\* one at most is at work, whoever else is credited for others, through edits that make
\* steps batch-capable or not.  A user is excused once he has started one for someone else
\* (whose record may then be the only one that is paused), or once a step he was at work on
\* has lost its batch stamp, which pauses nothing (_sync_step_batch_flag.py:51).
OneActiveStepWhenSelf ==
  ~raced => \A u \in Users \ excused : Cardinality({s \in Alone(db) : db.rec[s].by = u}) <= 1

-----------------------------------------------------------------------------
(* What comments and documents say, and overlapping or delegated commands     *)
(* break.                                                                     *)

\* completed_dependencies counts the COMPLETED prerequisites of every step nobody rewired.
CompletionsAreCounted ==
  \A s \in Live(db) \ skewed :
    db.row[s].done = Cardinality(Prereqs(db, s) \cap Completed(db))

\* The one-active-step rule, whoever created the WORKING record.
OneActiveStep ==
  ~raced => \A u \in Users : Cardinality({s \in Alone(db) : db.rec[s].credit = u}) <= 1

\* A deleted task has no step at work.
DeletedTaskRests == db.task.deleted => AtWork(db) = {}
================================================================================
