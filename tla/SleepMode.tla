------------------------------- MODULE SleepMode -------------------------------
(***************************************************************************)
(* In-app sleep (SLEEP_MODE_ENABLED=true, the default) around the delayed    *)
(* scheduler: the activity tracker's two Redis keys                          *)
(* (services/infra/sleep/activity_tracker.py), the sleep monitor and the     *)
(* drain loop of the task router (services/infra/execution/task_router.py),  *)
(* requests passing ActivityMiddleware, and the run loop of the delayed      *)
(* runner with its cached alarm.                                             *)
(*                                                                           *)
(* Reading a key and writing it are separate Redis commands.  touch()'s two  *)
(* writes are one step: the monitor, the only other writer, decides on keys  *)
(* it read before, so it can act between them or after them alike.  A poll   *)
(* period is shorter than a tick: a runner comes to the head of its loop in  *)
(* every tick, an awake router drains what is open, and how long their waits *)
(* last is left open.                                                        *)
(***************************************************************************)
EXTENDS DelayedScheduler

CONSTANTS
  Threshold,   \* idle_sleep_threshold_seconds, in ticks
  ProgressOn,  \* progress_enabled(): WORKER_PROGRESS_FILE is set
  Requests,    \* whether HTTP requests come in
  Outsiders    \* whether processes other than the runner create tasks

ASSUME SleepAssumption ==
  /\ Threshold \in Nat \ {0}
  /\ {ProgressOn, Requests, Outsiders} \subseteq BOOLEAN

VARIABLES
  sleeping,  \* whether system:sleeping exists
  activity,  \* system:last_activity; Unset when it does not exist
  monitor,   \* where _sleep_monitor is
  request,   \* whether a request has passed the middleware and runs
  loop,      \* where each runner is in its run loop, around the poll
  looped,    \* whether it came to the loop's head in this tick
  alarm,     \* its cached next_due_at; Unset when None
  router,    \* where the task router is
  open       \* whether some execution task is OPEN

trackerVars == <<sleeping, activity>>
loopVars    == <<loop, looped, alarm>>
sleepVars   == <<schedVars, trackerVars, monitor, request, loopVars, router, open>>

Unset == -1

-----------------------------------------------------------------------------
(* The tracker and its users.                                                *)

touch == sleeping' = FALSE /\ activity' = now

Idle == activity # Unset /\ now - activity >= Threshold

MonitorReadsIdle ==
  /\ monitor = "wait" /\ Idle
  /\ monitor' = "idle"
  /\ UNCHANGED <<schedVars, trackerVars, request, loopVars, router, open>>

MonitorReadsKey ==
  /\ monitor = "idle"
  /\ monitor' = IF sleeping THEN "wait" ELSE "enter"
  /\ UNCHANGED <<schedVars, trackerVars, request, loopVars, router, open>>

MonitorEntersSleep ==
  /\ monitor = "enter"
  /\ monitor' = "wait" /\ sleeping' = TRUE
  /\ UNCHANGED <<schedVars, activity, request, loopVars, router, open>>

\* ActivityMiddleware touches before the handler runs
RequestComes ==
  /\ Requests /\ request = "none"
  /\ request' = "running" /\ touch
  /\ UNCHANGED <<schedVars, monitor, loopVars, router, open>>

\* ... and the handler creates a scheduler row, or does not
RequestSchedules(r, o, d) ==
  /\ request = "running" /\ d > now
  /\ request' = "none"
  /\ CreateSchedule(r, o, d)
  /\ UNCHANGED <<trackerVars, monitor, loopVars, router, open>>

RequestEnds ==
  /\ request = "running"
  /\ request' = "none"
  /\ UNCHANGED <<schedVars, trackerVars, monitor, loopVars, router, open>>

\* Another process inserts a task; its pg_notify only sets the router's event.
OutsideTask ==
  /\ Outsiders /\ ~open /\ open' = TRUE
  /\ UNCHANGED <<schedVars, trackerVars, monitor, request, loopVars, router>>

\* Asleep the loop waits, and at most pings the database; awake it waits for
\* the event or 30 s, then drains.
RouterWaits ==
  /\ router = "head" /\ ~sleeping
  /\ router' = "drain"
  /\ UNCHANGED <<schedVars, trackerVars, monitor, request, loopVars, open>>

RouterDrains ==
  /\ router = "drain"
  /\ router' = "head" /\ open' = FALSE
  /\ UNCHANGED <<schedVars, trackerVars, monitor, request, loopVars>>

-----------------------------------------------------------------------------
(* The delayed runner's run loop.                                            *)

Goto(n, label) == loop' = [loop EXCEPT ![n] = label] /\ UNCHANGED looped

LoopHead(n) ==
  /\ loop[n] = "head"
  /\ loop' = [loop EXCEPT ![n] = IF sleeping THEN "asleep" ELSE "poll"]
  /\ looped' = [looped EXCEPT ![n] = TRUE]
  /\ UNCHANGED <<schedVars, trackerVars, monitor, request, alarm, router, open>>

\* _get_next_scheduled_for: MIN(scheduled_for) over ACTIVE rows still to come
Coming == {dueAt[r] : r \in {q \in Rows : rowState[q] = "ACTIVE" /\ dueAt[q] > now}}
NextScheduledFor == IF Coming = {} THEN {Unset} ELSE {t \in Coming : \A u \in Coming : t <= u}

AlarmDue(n) == alarm[n] # Unset /\ alarm[n] <= now

\* _sleep_while_sleeping returned and the alarm is not due
SleepOn(n) ==
  /\ loop[n] = "asleep" /\ ~AlarmDue(n)
  /\ IF ProgressOn THEN \E t \in NextScheduledFor : alarm' = [alarm EXCEPT ![n] = t]
                   ELSE UNCHANGED alarm
  /\ Goto(n, "head")
  /\ UNCHANGED <<schedVars, trackerVars, monitor, request, router, open>>

\* ... and it is: wake the system before firing
AlarmRings(n) ==
  /\ loop[n] = "asleep" /\ AlarmDue(n)
  /\ touch
  /\ Goto(n, "poll")
  /\ UNCHANGED <<schedVars, monitor, request, alarm, router, open>>

PollReads(n) ==
  /\ loop[n] = "poll" /\ ReadDue(n)
  /\ Goto(n, "cache")
  /\ UNCHANGED <<trackerVars, monitor, request, alarm, router, open>>

\* every row fired touches the tracker before the batch is committed
PollFires(n) ==
  /\ FireDue(n)
  /\ open' = (open \/ batch[n] # {})
  /\ IF \E r \in batch[n] : rowState'[r] = "FIRED" THEN touch ELSE UNCHANGED trackerVars
  /\ UNCHANGED <<monitor, request, loopVars, router>>

PollRetries(n) ==
  /\ RetryErrored(n)
  /\ UNCHANGED <<trackerVars, monitor, request, loopVars, router, open>>

CacheNext(n) ==
  /\ loop[n] = "cache" /\ rpc[n] = "poll"
  /\ \E t \in NextScheduledFor : alarm' = [alarm EXCEPT ![n] = t]
  /\ Goto(n, "head")
  /\ UNCHANGED <<schedVars, trackerVars, monitor, request, router, open>>

\* Redis or the database fails outside the firing transaction.
LoopRaises(n) ==
  /\ loop[n] # "head" /\ rpc[n] = "poll"
  /\ faults < MaxFaults /\ faults' = faults + 1
  /\ UNCHANGED <<now, rowVars, runnerVars, tasks, made>>

\* mutant: a failed poll forgets the alarm, which nothing renews while asleep
PollForgets(n) ==
  /\ RunnerFails(n) \/ LoopRaises(n)
  /\ Goto(n, "head") /\ alarm' = [alarm EXCEPT ![n] = Unset]
  /\ UNCHANGED <<trackerVars, monitor, request, router, open>>
\* except Exception: back to the head of the loop, next_due_at as it was
PollFails(n) ==
  /\ RunnerFails(n) \/ LoopRaises(n)
  /\ Goto(n, "head")
  /\ UNCHANGED <<trackerVars, monitor, request, alarm, router, open>>

LoopStep(n) == \/ LoopHead(n) \/ SleepOn(n) \/ AlarmRings(n)
               \/ PollReads(n) \/ PollFires(n) \/ PollRetries(n) \/ CacheNext(n)

TimePasses ==
  /\ Tick /\ (\A n \in Runners : looped[n]) /\ ~(open /\ ~sleeping)
  /\ looped' = [n \in Runners |-> FALSE]
  /\ UNCHANGED <<trackerVars, monitor, request, loop, alarm, router, open>>

-----------------------------------------------------------------------------
Init ==
  /\ SchedInit
  /\ sleeping = FALSE /\ activity \in {Unset, 0}
  /\ monitor = "wait" /\ request = "none"
  /\ loop = [n \in Runners |-> "head"]
  /\ looped = [n \in Runners |-> FALSE]
  /\ alarm = [n \in Runners |-> Unset]
  /\ router = "head" /\ open = FALSE

Next ==
  \/ MonitorReadsIdle \/ MonitorReadsKey \/ MonitorEntersSleep
  \/ RequestComes \/ RequestEnds
  \/ \E r \in Rows, o \in Owners, d \in 1..MaxTime : RequestSchedules(r, o, d)
  \/ OutsideTask \/ RouterWaits \/ RouterDrains
  \/ \E n \in Runners : LoopStep(n) \/ PollFails(n)
  \/ TimePasses

Spec == Init /\ [][Next]_sleepVars

\* The router and the runners loop for ever, every wait in them being bounded;
\* nothing makes a request come, time pass or the monitor act.
FairSpec == /\ Spec
            /\ WF_sleepVars(RouterWaits) /\ WF_sleepVars(RouterDrains)
            /\ \A n \in Runners : WF_sleepVars(LoopStep(n))

-----------------------------------------------------------------------------
\* 22_performance.md:509 "wakes from memory, fires job": once a sleeping
\* runner's alarm is due, every row that has become due from then on fires,
\* although nobody sends a request and whatever the poll it starts runs into.
CachedAlarmRings == \A n \in Runners, r \in Rows :
  (/\ rowState[r] = "ACTIVE" /\ dueAt[r] <= now
   /\ loop[n] = "asleep" /\ alarm[n] # Unset /\ alarm[n] <= dueAt[r])
    ~> rowState[r] # "ACTIVE"

\* 22_performance.md:527 "A task created by an external system while the app
\* sleeps must still be picked up immediately when the notify fires".
OpenTasksAreRouted == open ~> ~open
=============================================================================
