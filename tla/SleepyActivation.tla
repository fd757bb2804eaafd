---------------------------- MODULE SleepyActivation ----------------------------
(***************************************************************************)
(* VersionActivation under in-app sleep (SLEEP_MODE_ENABLED, on by default,  *)
(* config.py:91), for what must eventually happen.  Module SleepMode has the *)
(* tracker, the monitor and the cached alarms in detail; here they are two   *)
(* steps that may happen at any time or never: the key system:sleeping is    *)
(* set after some idle time, and deleted by a request or an alarm.           *)
(*                                                                           *)
(* A command may run with the key set: the monitor can set it behind a       *)
(* request's touch.  The runner's look at the key and its query are one      *)
(* step.                                                                     *)
(***************************************************************************)
EXTENDS VersionActivation

VARIABLE sleeping   \* whether the key system:sleeping exists

sleepyVars == <<vars, sleeping>>
versions   == <<verVars, late, failed>>

AppSleeps == ~sleeping /\ sleeping' = TRUE /\ UNCHANGED vars
AppWakes  == sleeping /\ sleeping' = FALSE /\ UNCHANGED vars

\* Asleep the runner goes back to the head of its loop; an alarm wakes it first.
Poll(n) == ~sleeping /\ ReadDue(n) /\ UNCHANGED <<versions, sleeping>>

\* Every row fired touches the tracker.
FireBatch(n) ==
  /\ FireDue(n)
  /\ sleeping' = (sleeping /\ \A r \in batch[n] : rowState'[r] # "FIRED")
  /\ UNCHANGED versions

\* The recovery pass, and a failure, look at no key.
Recover(n)  == RetryErrored(n) /\ UNCHANGED <<versions, sleeping>>
FailPoll(n) == RunnerFails(n) /\ UNCHANGED <<versions, sleeping>>

Pass(n) == Poll(n) \/ FireBatch(n) \/ Recover(n)

TimePasses == Tick /\ UNCHANGED <<versions, sleeping>>

\* A task the router queued before the app fell asleep still runs.
RunTask(r) == Fire(r) /\ UNCHANGED sleeping

SleepyInit == Init /\ sleeping = FALSE

SleepyNext ==
  \/ AppSleeps \/ AppWakes
  \/ Command /\ UNCHANGED sleeping
  \/ \E n \in Runners : Pass(n) \/ FailPoll(n)
  \/ \E r \in Rows : RunTask(r) \/ (TaskFails(r) /\ UNCHANGED sleeping)
  \/ TimePasses

\* The clock advances; the runner, while it finds the app awake, polls every ten
\* seconds (delayed_scheduler_runner.py:72); the execution engine, while its router
\* does, runs every task it accepted.  Nothing wakes the app.
SleepyFairSpec ==
  /\ SleepyInit /\ [][SleepyNext]_sleepyVars
  /\ WF_sleepyVars(TimePasses)
  /\ \A n \in Runners : WF_sleepyVars(Pass(n))
  /\ \A r \in Rows : WF_sleepyVars(~sleeping /\ RunTask(r))

\* While the app is awake no due draft stays scheduled, however many are due at once:
\* it is published, skipped, moved or withdrawn ("a skip is a return, never a raise",
\* activate_...py:33), through a failed poll or a failed touch(), unless the task of
\* its date ended in FAIL.  Plans that fell due while the app slept are included: each
\* stretch awake settles them unless it ends before.  A sleeping app settles nothing by
\* itself: a plan that falls due between a poll and the query of the next alarm
\* (delayed_scheduler_runner.py:164), whose alarm went with a restart (config.py:105:
\* without the progress file it is not read again) or whose task meets a sleeping
\* router waits for a request.
EveryPlanSettles ==
  \A v \in Owners :
    (planAt[v] # NoDate /\ planAt[v] < MaxTime)
      ~> \/ planAt[v] = NoDate \/ planAt[v] >= MaxTime
         \/ \E r \in RowsOf(v) \cap failed : dueAt[r] = planAt[v]
         \/ sleeping
=============================================================================
