------------------------------ MODULE WorkerShifts ------------------------------
(***************************************************************************)
(* The working day of one worker: clock-in and clock-out from every source,  *)
(* declared states, the live reconcile and the rebuild of a shift when it    *)
(* closes (services/commands/users, services/tasks/users and                 *)
(* services/tasks/connecteam).                                               *)
(*                                                                           *)
(* step_state_records and user_declared_state_records are the sources;       *)
(* user_shift_state_records holds STARTED and ENDED markers and the segments *)
(* derived from the sources.  Step transitions only queue a reconcile; the   *)
(* analytics worker runs it later, once or more often.                       *)
(*                                                                           *)
(* Every command works under the lock of the open shift row and is one step  *)
(* here.  Its instant `at' is read before the lock is granted, and a         *)
(* Connecteam event carries the provider's own instant, so `at' may lie      *)
(* before what is already in the tables.  A write that breaks a CHECK        *)
(* constraint rolls the command back.                                        *)
(*                                                                           *)
(* Time is a count of ticks.  Rows and records that were entered and left at *)
(* one instant are not kept: no query sees them.  All steps are credited to  *)
(* the worker; a step he completes leaves its place to the next one.         *)
(* Segments a person recorded by hand (a retired endpoint) are left out.     *)
(***************************************************************************)
EXTENDS Integers, FiniteSets, FiniteSetsExt

CONSTANTS
  Steps,      \* places for steps the worker has in hand
  Batch,      \* those whose allows_batch_working is set
  Reasons,    \* personal pause reasons of the catalog
  DayLength,  \* ticks from one UTC midnight to the next
  Delay,      \* bound: age of a Connecteam event when it is processed
  LockWait,   \* bound: how long a command waits for the shift row
  MaxTime     \* bound: the clock

ASSUME ShiftAssumption ==
  /\ IsFiniteSet(Steps) /\ Batch \subseteq Steps /\ IsFiniteSet(Reasons)
  /\ Reasons \cap {"none", "step"} = {}
  /\ DayLength \in Nat \ {0} /\ Delay \in Nat /\ LockWait \in Nat /\ MaxTime \in Nat

VARIABLES
  now,       \* the wall clock
  rows,      \* derived segments: [state, why, entered, exited]
  started,   \* instants of the STARTED_SHIFT markers
  ended,     \* instants of the ENDED_SHIFT markers
  declared,  \* UserDeclaredStateRecord: [why, entered, exited]
  steps,     \* WORKING and PAUSED step records: [step, state, shiftEnded, entered, exited]
  outbox,    \* whether a PROCESS_STEP_TRANSITION task is still to be run
  shifts,    \* history: the shifts closed, as [start, end]
  disorder   \* history: whether a clock event was applied out of its order

vars == <<now, rows, started, ended, declared, steps, outbox, shifts, disorder>>

Times   == 0..MaxTime
Open    == MaxTime + 1      \* exited_at IS NULL
NoShift == -1
Max2(a, b) == IF a >= b THEN a ELSE b
Min2(a, b) == IF a <= b THEN a ELSE b

\* The tables as one value: a command computes the tables it leaves behind.
Tables == [rows |-> rows, started |-> started, ended |-> ended,
           declared |-> declared, steps |-> steps, outbox |-> outbox, shifts |-> shifts]

-----------------------------------------------------------------------------
(* Work days and the tables                                                  *)

work_day_start(t) == (t \div DayLength) * DayLength
work_day_end(t)   == work_day_start(t) + DayLength
is_past_work_day_end(start, at) == work_day_end(start) <= at

Row(state, why, from, to) == [state |-> state, why |-> why, entered |-> from, exited |-> to]

OpenIn(S)      == {r \in S : r.exited = Open}
ClockedIn(d)   == OpenIn(d.rows) # {}
OpenWorking(d) == {x \in OpenIn(d.steps) : x.state = "working"}

\* Closes the open records among C at the instant at.
Leave(S, C, at) ==
  (S \ C) \cup {[x EXCEPT !.exited = at] : x \in {y \in C : y.entered # at}}

\* The records C of working steps closed, and a pause opened for each of them.
PauseSteps(S, C, at, shiftEnded) ==
  Leave(S, C, at) \cup {[step |-> x.step, state |-> "paused", shiftEnded |-> shiftEnded,
                         entered |-> at, exited |-> Open] : x \in C}

\* _open_shift_started_at: the latest STARTED marker that is not after at.
MarkersUpTo(d, at) == {t \in d.started : t <= at}
ShiftStart(d, at) ==
  IF MarkersUpTo(d, at) # {} THEN Max(MarkersUpTo(d, at))
  ELSE (CHOOSE r \in OpenIn(d.rows) : TRUE).entered

-----------------------------------------------------------------------------
(* The rebuild of a closed shift (reconstruct_shift_middle)                  *)

Interval(kind, why, priority, x, end) ==
  [kind |-> kind, why |-> why, priority |-> priority,
   from |-> x.entered, to |-> Min2(x.exited, end)]

\* The intervals of the sweep: step records, declarations and segments that
\* carry a declaration, each entered in [start, end) and clamped to it.
SweepIntervals(d, start, end) ==
  LET In(S) == {x \in S : x.entered \in start..(end - 1)}
      ofStep(x) == IF x.shiftEnded THEN "ended_shift" ELSE x.state
  IN  {i \in {Interval(ofStep(x), "step", 0, x, end) : x \in In(d.steps)}
             \cup {Interval("paused", x.why, 2, x, end) : x \in In(d.declared)}
             \cup {Interval("paused", r.why, 1, r, end) :
                     r \in {y \in In(d.rows) : y.why \in Reasons}} : i.from < i.to}

\* Mutant: a pause counts until it is left.
MUTActiveEnd_NoCap(I, i) == i.to

\* A pause counts until the worker's next start of work.
ActiveEnd(I, i) ==
  LET resumes == {w.from : w \in {x \in I : x.kind = "working" /\ x.from > i.from}}
  IN  IF i.kind # "paused" \/ resumes = {} THEN i.to ELSE Min2(i.to, Min(resumes))

PauseOwner(P) ==
  CHOOSE p \in P : \A q \in P : \/ p.priority > q.priority
                                \/ p.priority = q.priority /\ p.from <= q.from

\* Mutant: the off-shift bucket becomes a segment of its own.
MUTSweepAt_EndedShift(I, t) ==
  LET on     == {i \in I : i.from <= t /\ t < ActiveEnd(I, i)}
      paused == {i \in on : i.kind = "paused"}
  IN  IF \E i \in on : i.kind = "working" THEN <<"working", "none">>
      ELSE IF paused # {} THEN <<"in_pause", PauseOwner(paused).why>>
      ELSE IF on # {} THEN <<"ended_shift", "none">>
      ELSE <<"idle", "none">>

\* What the sweep makes of the tick that begins at t.
SweepAt(I, t) ==
  LET on     == {i \in I : i.from <= t /\ t < ActiveEnd(I, i)}
      paused == {i \in on : i.kind = "paused"}
  IN  IF \E i \in on : i.kind = "working" THEN <<"working", "none">>
      ELSE IF paused # {} THEN <<"in_pause", PauseOwner(paused).why>>
      ELSE <<"idle", "none">>

\* Ticks with the same label in a row make one segment.
Segments(label, start, end) ==
  {Row(label[t][1], label[t][2], t,
       Min({u \in (t + 1)..end : u = end \/ label[u] # label[t]})) :
     t \in {t \in start..(end - 1) : t = start \/ label[t] # label[t - 1]}}

reconstruct_shift_middle(d, start, end) ==
  LET I     == SweepIntervals(d, start, end)
      label == [t \in start..(end - 1) |-> SweepAt(I, t)]
  IN  [d EXCEPT !.rows = {r \in @ : r.entered \notin start..(end - 1)}
                           \cup Segments(label, start, end)]

-----------------------------------------------------------------------------
(* Closing a shift (_clock_worker_shift.py)                                  *)

_drop_projections_from(d, at) == [d EXCEPT !.rows = {r \in @ : r.entered < at}]

\* Mutant: an open declaration outlives the shift.
MUTClampDeclared_Forgotten(d, at) == d

ClampDeclared(d, at) ==
  [d EXCEPT !.declared = {IF x.exited = Open THEN [x EXCEPT !.exited = Max2(at, x.entered)]
                          ELSE x : x \in @}]

_close_open_shift(d, start, at) ==
  LET rebuilt == reconstruct_shift_middle(
                   _drop_projections_from(ClampDeclared(d, at), at), start, at)
      working == {x \in OpenWorking(d) : x.entered < at}
  IN  [rebuilt EXCEPT !.steps  = PauseSteps(@, working, at, TRUE),
                      !.outbox = @ \/ working # {},
                      !.ended  = @ \cup {at},
                      !.shifts = @ \cup {[start |-> start, end |-> at]}]

Stale(d, at) == ClockedIn(d) /\ is_past_work_day_end(ShiftStart(d, at), at)

\* Mutant: the shift is closed when it is noticed.
MUTclose_stale_AtInstant(d, at) ==
  IF Stale(d, at) THEN _close_open_shift(d, ShiftStart(d, at), at) ELSE d

\* The shift is closed at its own boundary, whatever at is.
close_stale_open_shift(d, at) ==
  IF Stale(d, at) THEN _close_open_shift(d, ShiftStart(d, at), work_day_end(ShiftStart(d, at)))
  ELSE d

\* For a worker who is clocked in.
clock_out_shift_for_user(d, at) ==
  IF Stale(d, at) THEN close_stale_open_shift(d, at)
  ELSE _close_open_shift(d, ShiftStart(d, at), at)

\* For a worker whose shift, if one is open, is stale.
clock_in_shift_for_user(d, at) ==
  [close_stale_open_shift(d, at) EXCEPT
     !.started = @ \cup {at}, !.rows = @ \cup {Row("idle", "none", at, Open)}]

-----------------------------------------------------------------------------
(* The live reconcile (reconcile_worker_shift_state.py)                      *)

\* The shift of a worker who has none starts with his earliest working step.
AutoStart(d) ==
  LET first == Min({x.entered : x \in OpenWorking(d)})
  IN  IF d.ended = {} THEN first ELSE Max2(first, Max(d.ended))

\* One pass of the loop that closes stale shifts and clocks the worker in:
\* start is the shift found or opened, NoShift if there is none.
Pass(l, at) ==
  LET d == close_stale_open_shift(l.db, at)
      opened == [d EXCEPT !.started = @ \cup {AutoStart(d)}]
  IN  IF l.done THEN l
      ELSE IF ClockedIn(d)
        THEN [db |-> d, done |-> TRUE, start |-> ShiftStart(d, at)]
      ELSE IF OpenWorking(d) = {}
        THEN [db |-> d, done |-> TRUE, start |-> NoShift]
      ELSE IF is_past_work_day_end(AutoStart(d), at)
        THEN [db |-> [opened EXCEPT !.rows = @ \cup {Row("idle", "none", AutoStart(d), Open)}],
              done |-> FALSE, start |-> NoShift]
      ELSE [db |-> opened, done |-> TRUE, start |-> AutoStart(d)]

Passes == MaxTime \div DayLength + 2

ReconcileLoop(d, at) ==
  LET pass[n \in 0..Passes] ==
        IF n = 0 THEN [db |-> d, done |-> FALSE, start |-> NoShift] ELSE Pass(pass[n - 1], at)
  IN  pass[Passes]

\* Mutant: a declaration is left open when work is resumed, and goes on showing.
MUTderive_DeclaredFirst(work, decl, pause) ==
  CASE decl # {} -> "in_pause"
    [] decl = {} /\ work # {} -> "working"
    [] decl = {} /\ work = {} /\ pause # {} -> "in_pause"
    [] OTHER -> "idle"

derive_target_state(work, decl, pause) ==
  CASE work # {} -> "working"
    [] work = {} /\ decl \cup pause # {} -> "in_pause"
    [] OTHER -> "idle"

\* The segment that tells what the worker is doing now.
Project(d, start, at) ==
  LET decl   == {x \in OpenIn(d.declared) : x.entered >= start}
      work   == {x \in OpenWorking(d) : x.entered >= start}
      pause  == {x \in OpenIn(d.steps) : x.state = "paused" /\ x.entered >= start}
      target == derive_target_state(work, decl, pause)
      why    == IF work = {} /\ decl # {} THEN (CHOOSE x \in decl : TRUE).why
                ELSE IF target = "in_pause" THEN "step" ELSE "none"
      source == IF target = "working" THEN Leave(d.declared, decl, at) ELSE d.declared
      kept   == {r \in OpenIn(d.rows) : /\ r.state = target
                                        /\ {why, r.why} \cap Reasons # {} => r.why = why}
  IN  IF kept # {} THEN [d EXCEPT !.declared = source]
      ELSE [d EXCEPT !.declared = source,
                     !.rows = Leave(@, OpenIn(@), at) \cup {Row(target, why, at, Open)}]

reconcile_worker_shift_state(d, at) ==
  LET l == ReconcileLoop(d, at)
  IN  IF l.start = NoShift THEN l.db ELSE Project(l.db, l.start, at)

\* A reconcile that finds an open shift and no marker up to its instant raises.
HasMarker(d, at) == ClockedIn(d) => MarkersUpTo(d, at) # {}

-----------------------------------------------------------------------------
(* Commands                                                                  *)

\* CHECK exited_at >= entered_at and the unique indexes on open rows.
ChecksHold(d) ==
  /\ \A x \in d.rows \cup d.declared \cup d.steps : x.entered <= x.exited
  /\ \A r, q \in OpenIn(d.rows) : r = q
  /\ \A x, y \in OpenIn(d.declared) : x = y

Commit(d) ==
  \E c \in {d} :
    /\ ChecksHold(c)
    /\ rows' = c.rows /\ started' = c.started /\ ended' = c.ended /\ declared' = c.declared
    /\ steps' = c.steps /\ outbox' = c.outbox /\ shifts' = c.shifts

\* No two requests about one worker carry the same instant.
Request == now < MaxTime /\ now' = now + 1

\* The instants a command may carry that reads or is given one up to age ago.
Instants(age) == {at \in Times : at <= now /\ now - at <= age}

\* What comes out of order: a command whose instant lies before a marker already
\* written, a clock-in reported after work that began later, and a reconcile overtaken,
\* between its instant and the lock, by what it reads.
OutOfOrder(at) == \E t \in started \cup ended : t > at
Overtaken(at)  == \E x \in rows \cup declared \cup steps : x.entered > at
MarkOut(at)       == disorder' = (disorder \/ OutOfOrder(at))
MarkIn(at)        == disorder' = (disorder \/ OutOfOrder(at)
                                           \/ \E x \in OpenWorking(Tables) : x.entered >= at)
MarkReconcile(at) == disorder' = (disorder \/ OutOfOrder(at) \/ Overtaken(at))

ClockIn(at) ==
  /\ Request /\ (~ClockedIn(Tables) \/ Stale(Tables, at))
  /\ Commit(clock_in_shift_for_user(Tables, at)) /\ MarkIn(at)

ClockOut(at) ==
  /\ Request /\ ClockedIn(Tables)
  /\ Commit(clock_out_shift_for_user(Tables, at)) /\ MarkOut(at)

clock_in_worker_shift  == \E at \in Instants(LockWait) : ClockIn(at)
clock_out_worker_shift == \E at \in Instants(LockWait) : ClockOut(at)

\* Connecteam events: what is refused here is a no-op there.
handle_clock_in  == \E at \in Instants(Delay) : ClockIn(at)
handle_clock_out == \E at \in Instants(Delay) : ClockOut(at)

toggle_worker_shift ==
  \E at \in Instants(LockWait) :
    /\ Request
    /\ IF ClockedIn(Tables) /\ ~Stale(Tables, at)
         THEN Commit(clock_out_shift_for_user(Tables, at)) /\ MarkOut(at)
         ELSE Commit(clock_in_shift_for_user(Tables, at)) /\ MarkIn(at)

\* A worker's declaration: his working steps are paused with it.
Declared(d, why, at) ==
  [d EXCEPT !.declared = Leave(@, OpenIn(@), at) \cup
                           {[why |-> why, entered |-> at, exited |-> Open]},
            !.steps    = PauseSteps(@, OpenWorking(d), at, FALSE),
            !.outbox   = @ \/ OpenWorking(d) # {}]

\* On a stale shift the closure is committed and the declaration refused.
declare_worker_state ==
  \E at \in Instants(LockWait), why \in Reasons :
    /\ Request /\ ClockedIn(Tables) /\ HasMarker(Tables, at)
    /\ Commit(IF Stale(Tables, at) THEN close_stale_open_shift(Tables, at)
              ELSE reconcile_worker_shift_state(Declared(Tables, why, at), at))
    /\ MarkReconcile(at)

close_declared_worker_state ==
  \E at \in Instants(LockWait) :
    /\ Request /\ (Stale(Tables, at) \/ OpenIn(declared) # {}) /\ HasMarker(Tables, at)
    /\ Commit(IF Stale(Tables, at) THEN close_stale_open_shift(Tables, at)
              ELSE reconcile_worker_shift_state(
                     [Tables EXCEPT !.declared = Leave(@, OpenIn(@), at)], at))
    /\ MarkReconcile(at)

-----------------------------------------------------------------------------
(* The worker's steps, and the jobs that run behind him                      *)

StepOpen(s) == {x \in OpenIn(steps) : x.step = s}

\* A step is taken up; without batch working it pauses the one in hand.
StartStep(s) ==
  /\ Request
  /\ \A x \in StepOpen(s) : x.state = "paused"
  /\ LET held == IF s \in Batch THEN {}
                 ELSE {x \in OpenWorking(Tables) : x.step \notin Batch}
         rest == Leave(PauseSteps(steps, held, now, FALSE), StepOpen(s), now)
     IN  steps' = rest \cup {[step |-> s, state |-> "working", shiftEnded |-> FALSE,
                              entered |-> now, exited |-> Open]}
  /\ outbox' = TRUE
  /\ UNCHANGED <<rows, started, ended, declared, shifts, disorder>>

PauseStep(s) ==
  /\ Request
  /\ \E x \in StepOpen(s) : x.state = "working"
  /\ steps' = PauseSteps(steps, StepOpen(s), now, FALSE)
  /\ outbox' = TRUE
  /\ UNCHANGED <<rows, started, ended, declared, shifts, disorder>>

\* The step is completed, failed or cancelled.
FinishStep(s) ==
  /\ Request
  /\ StepOpen(s) # {}
  /\ steps' = Leave(steps, StepOpen(s), now)
  /\ outbox' = TRUE
  /\ UNCHANGED <<rows, started, ended, declared, shifts, disorder>>

\* handle_process_step_transition: the last task of the outbox, or not the last.
ProcessStepTransition(last) ==
  /\ outbox
  /\ \E at \in Instants(LockWait) :
       /\ HasMarker(Tables, at)
       /\ Commit(reconcile_worker_shift_state([Tables EXCEPT !.outbox = ~last], at))
       /\ MarkReconcile(at)
  /\ UNCHANGED now

\* Mutant: shifts of yesterday are left out.
MUTSweepDue_DayLate == ClockedIn(Tables) /\ Max(started) + DayLength < work_day_start(now)

\* The prefilter of handle_auto_clock_out_open_shifts.
SweepDue == ClockedIn(Tables) /\ Max(started) < work_day_start(now)

\* The shift is closed and the next one opened from work done since.
AutoClockOut ==
  /\ UNCHANGED now /\ SweepDue /\ Stale(Tables, now)
  /\ Commit(reconcile_worker_shift_state(close_stale_open_shift(Tables, now), now))
  /\ MarkReconcile(now)

Tick ==
  /\ Request
  /\ UNCHANGED <<rows, started, ended, declared, steps, outbox, shifts, disorder>>

Init ==
  /\ now = 0 /\ outbox = FALSE /\ disorder = FALSE
  /\ rows = {} /\ started = {} /\ ended = {} /\ declared = {} /\ steps = {} /\ shifts = {}

Next ==
  \/ Tick
  \/ clock_in_worker_shift \/ clock_out_worker_shift \/ toggle_worker_shift
  \/ handle_clock_in \/ handle_clock_out
  \/ declare_worker_state \/ close_declared_worker_state
  \/ \E s \in Steps : StartStep(s) \/ PauseStep(s) \/ FinishStep(s)
  \/ \E last \in BOOLEAN : ProcessStepTransition(last)
  \/ AutoClockOut

Spec == Init /\ [][Next]_vars

\* The nightly job comes round again and the analytics worker keeps draining its
\* queue; both are weak fairness, written with the condition each is enabled under.
SweptSpec ==
  Spec /\ ([]<>~SweepDue \/ []<><<AutoClockOut>>_vars)

FairSpec ==
  /\ SweptSpec
  /\ []<>~outbox \/ []<><<ProcessStepTransition(TRUE)>>_vars

-----------------------------------------------------------------------------
(* Properties.  Those that begin with disorder are about workers whose clock *)
(* events were applied in the order of their instants.                       *)

\* Types of the tables; in particular the rebuild writes no other state than the
\* three a segment may have, and every segment kept has a length.
TypeOK ==
  /\ now \in Times /\ outbox \in BOOLEAN /\ disorder \in BOOLEAN
  /\ started \subseteq Times /\ ended \subseteq Times
  /\ \A r \in rows : /\ r.state \in {"working", "in_pause", "idle"}
                      /\ r.why \in Reasons \cup {"none", "step"}
                      /\ r.entered \in Times /\ r.exited \in (r.entered + 1)..Open
  /\ \A x \in declared : x.why \in Reasons /\ x.entered \in Times
  /\ \A x \in steps : /\ x.step \in Steps /\ x.state \in {"working", "paused"}
                       /\ x.entered \in Times /\ x.exited \in (x.entered + 1)..Open
  /\ \A h \in shifts : h.start \in Times /\ h.end \in Times

\* What is open belongs to the shift that is open: the open segment follows the
\* latest STARTED marker and no ENDED marker comes after that, and a declaration
\* is open only in the shift it was made in, whoever closed the shift before; no
\* step is still being worked that was taken up inside a shift now closed.
OpenInCurrentShift ==
  disorder \/
    /\ \A r \in OpenIn(rows) : /\ started # {} /\ Max(started) <= r.entered
                               /\ \A e \in ended : e <= Max(started)
    /\ \A x \in OpenIn(declared) : ClockedIn(Tables) /\ x.entered >= Max(started)
    /\ \A x \in OpenWorking(Tables), h \in shifts : x.entered \notin h.start..(h.end - 1)

\* No shift outlives its work day, however late it is noticed and by whom, and
\* however late the clock-out is reported; and closed shifts of a worker do not
\* overlap.
ShiftsInPlace ==
  /\ \A h \in shifts : h.end <= work_day_end(h.start)
  /\ disorder \/ \A h, k \in shifts : h = k \/ h.end <= k.start \/ k.end <= h.start

Covering(t) == {r \in rows : r.entered <= t /\ t < r.exited}

\* What a worker did at t according to the sources alone: working if a step
\* taken up in the shift was being worked; else paused if a pause or declaration
\* of the shift was open and he had not resumed work since; else idle.
SourceState(h, t) ==
  LET work  == {x \in steps : x.state = "working" /\ x.entered >= h.start}
      pause == declared \cup {x \in steps : x.state = "paused" /\ ~x.shiftEnded}
      At(x) == h.start <= x.entered /\ x.entered <= t /\ t < x.exited
  IN  IF \E x \in work : At(x) THEN "working"
      ELSE IF \E p \in pause : /\ At(p)
                               /\ \A x \in work : x.entered \notin (p.entered + 1)..t
           THEN "in_pause"
      ELSE "idle"

\* The segments of a closed shift cover every instant of it once, none reaches
\* out of it, and each shows what the sources say, whatever the live reconcile
\* had written, however late it ran, and whatever has been recorded since.
ClosedTimeline ==
  disorder \/ \A h \in shifts : \A t \in h.start..(h.end - 1) :
    /\ Cardinality(Covering(t)) = 1
    /\ \A r \in Covering(t) : /\ r.state = SourceState(h, t)
                              /\ h.start <= r.entered /\ r.exited <= h.end

\* Once the queue is drained the open segment of a current shift tells the truth:
\* working exactly when a step of the shift is worked, and a declared pause
\* exactly when one is declared and nothing is worked.
LiveStateAgrees ==
  disorder \/ outbox \/ Stale(Tables, now) \/ \A r \in OpenIn(rows) :
    LET work == \E x \in OpenWorking(Tables) : x.entered >= Max(started)
    IN  /\ r.state = "working" <=> work
        /\ r.why \in Reasons <=> ~work /\ OpenIn(declared) # {}

\* A shift left open past its day is closed, without anyone touching it: at no time
\* has the worker a stale shift for good.
StaleShiftEnds == []<>~Stale(Tables, now)

\* A closed shift shows as working every instant at which a step was worked
\* ("a closed shift is always correct regardless of analytics-worker uptime").
ClosedShiftShowsWork ==
  \A h \in shifts : \A t \in h.start..(h.end - 1) :
    (\E x \in steps : x.state = "working" /\ x.entered <= t /\ t < x.exited)
      => \A r \in Covering(t) : r.state = "working"

\* Work that a closed shift left to the next one gets a shift ("the live
\* reconcile opens that day's shift from them").
WorkGetsShift ==
  (OpenWorking(Tables) # {}) ~> (ClockedIn(Tables) \/ OpenWorking(Tables) = {})

=============================================================================
