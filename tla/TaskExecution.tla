------------------------------ MODULE TaskExecution ------------------------------
(***************************************************************************)
(* The background execution engine: rows of execution_tasks, the Redis      *)
(* queues, the task router process and the worker processes                 *)
(* (services/infra/execution/task_factory.py, task_router.py,               *)
(* worker_base.py, outbound.py, operations/connecteam_dead_letter.py).      *)
(*                                                                          *)
(* The router reads a batch with a plain SELECT and writes it in a later    *)
(* commit; a worker may run in between.  The ORM writes by primary key, so  *)
(* a commit overwrites whatever happened to the row since the read.  A      *)
(* worker's own transactions touch one row and read only try_count, which   *)
(* only workers write: each is one step.                                    *)
(*                                                                          *)
(* Time is a Tick that ages locks, running handlers and retry delays.       *)
(* Ages saturate: no condition tells apart two ages above StaleAge.         *)
(***************************************************************************)
EXTENDS Integers, Sequences, FiniteSets

CONSTANTS
  Tasks,            \* client_ids of execution tasks
  Workers,          \* worker processes
  Queues,           \* Redis lists
  QueueOf,          \* QUEUE_MAP applied to the type of each task
  Serves,           \* the queue each worker process was started with
  Outbound,         \* tasks whose type is in OUTBOUND_TASK_TYPES
  Handled,          \* tasks whose type is in the handler_map of their worker
  DeadLetterTasks,  \* tasks of the type the dead-letter command accepts
  NoTask,           \* current_task_id = None
  MaxTry,           \* max_try
  Backoff,          \* BACKOFF_SECONDS, in ticks
  HandlerTimeout,   \* the longest of HANDLER_TIMEOUT_SECONDS, in ticks
  StuckAge,         \* STUCK_PENDING_MINUTES, in ticks
  StaleAge,         \* STALE_IN_PROGRESS_MINUTES, in ticks
  BatchSize,        \* BATCH_SIZE
  MaxFaults,        \* bound: crashes, errors and operator commands
  MaxQueue          \* bound: length a queue may reach through recovery

NULL == -1
MaxCount == MaxTry + 1   \* bound: tryCount and effects saturate here

ASSUME ConstantsAssumption ==
  /\ QueueOf \in [Tasks -> Queues]
  /\ Serves \in [Workers -> Queues]
  /\ Outbound \subseteq Tasks /\ Handled \subseteq Tasks /\ DeadLetterTasks \subseteq Tasks
  /\ NoTask \notin Tasks
  /\ MaxTry \in Nat \ {0}
  /\ Backoff \in Seq(Nat) /\ Len(Backoff) > 0
  /\ HandlerTimeout \in Nat /\ StuckAge \in Nat /\ StaleAge \in Nat
  /\ BatchSize \in Nat \ {0} /\ MaxFaults \in Nat /\ MaxQueue \in Nat

\* task_router.py:59 "must exceed max(HANDLER_TIMEOUT_SECONDS) / 60"
ASSUME StaleExceedsTimeout == /\ HandlerTimeout < StaleAge /\ StuckAge <= StaleAge

VARIABLES
  state,      \* ExecutionTask.state, "NONE" before the row is inserted
  tryCount,   \* ExecutionTask.try_count
  lockedAge,  \* now - ExecutionTask.locked_at, NULL when the column is NULL
  retryIn,    \* ExecutionTask.next_retry_at - now (0 when due), NULL when NULL
  queue,      \* the Redis lists
  rpc,        \* where the router is in its loop
  batch,      \* rows the router has read (or still has to push)
  wpc,        \* where each worker is in run_worker / _process_task
  cur,        \* current_task_id of each worker
  runAge,     \* time since the worker's claim
  outboundEnabled, \* settings.outbound_integrations_enabled
  asleep,     \* what is_sleeping() told the router when it last asked
  faults,     \* faults so far
  effects     \* history: handler executions whose effect was committed

rows    == <<state, tryCount, lockedAge, retryIn>>
router  == <<rpc, batch>>
workers == <<wpc, cur, runAge>>
vars    == <<rows, queue, router, workers, outboundEnabled, asleep, faults, effects>>

States   == {"NONE", "OPEN", "PENDING", "IN_PROGRESS", "RETRY_SCHEDULED",
             "COMPLETED", "FAIL", "CANCEL"}
Terminal == {"COMPLETED", "FAIL", "CANCEL"}
Passes   == {"route", "retry", "stale", "stuck"}
RouterPcs == {"wait", "down", "push"} \cup Passes
                \cup {"routeCommit", "retryCommit", "staleCommit", "stuckCommit"}
\* idle: in blpop.  popped: id taken, claim not yet made.  running: in the handler.
\* returned / raised: handler is over, _finalize_task / _fail_task not yet done.
\* blocked / unhandled: _mark_outbound_disabled / _mark_no_handler not yet done.
\* rescue: an exception left _process_task and the finally block runs.
WorkerPcs == {"idle", "popped", "running", "returned", "raised", "blocked",
              "unhandled", "rescue", "down"}
Holding   == {"running", "returned", "raised", "blocked", "unhandled"}

Least(a, b) == IF a < b THEN a ELSE b
Bump(n)   == Least(n + 1, MaxCount)
OlderBy1(age) == IF age = NULL THEN NULL ELSE Least(age + 1, StaleAge + 1)

Fault == /\ faults < MaxFaults
         /\ faults' = faults + 1

-----------------------------------------------------------------------------
\* outbound_blocked (outbound.py)
outbound_blocked(t) == t \in Outbound /\ ~outboundEnabled

-----------------------------------------------------------------------------
(* The router: one loop of run_task_router is route, retry, stale, stuck.    *)

RetryDue(t) == state[t] = "RETRY_SCHEDULED" /\ retryIn[t] = 0

StaleAtTimeout(t) == state[t] = "IN_PROGRESS" /\ lockedAge[t] >= HandlerTimeout   \* mutant
IsStale(t)  == state[t] = "IN_PROGRESS" /\ lockedAge[t] > StaleAge

StuckIfUnlocked(t) == /\ state[t] = "PENDING" /\ lockedAge[t] = NULL   \* mutant
                      /\ Len(queue[QueueOf[t]]) < MaxQueue
\* The last conjunct is the bound on queue length.
IsStuck(t)  == /\ state[t] = "PENDING" /\ lockedAge[t] > StuckAge
               /\ Len(queue[QueueOf[t]]) < MaxQueue

\* The SELECT of each pass.
Eligible(p) ==
  CASE p = "route" -> {t \in Tasks : state[t] = "OPEN"}
    [] p = "retry" -> {t \in Tasks : RetryDue(t)}
    [] p = "stale" -> {t \in Tasks : IsStale(t)}
    [] p = "stuck" -> {t \in Tasks : IsStuck(t)}

\* .limit(BATCH_SIZE), without an ORDER BY: any rows.
Batches(p) == {b \in SUBSET Eligible(p) :
                 Cardinality(b) = Least(BatchSize, Cardinality(Eligible(p)))}

CommitPc  == [route |-> "routeCommit", retry |-> "retryCommit",
              stale |-> "staleCommit", stuck |-> "stuckCommit"]
PassAfter == [route |-> "retry", retry |-> "stale", stale |-> "stuck", stuck |-> "wait"]

\* A loop in which no pass finds a row changes nothing and is left out.
RouterWake ==
  /\ rpc = "wait" /\ ~asleep
  /\ \E p \in Passes : Eligible(p) # {}
  /\ rpc' = "route"
  /\ UNCHANGED <<rows, queue, batch, workers, outboundEnabled, asleep, faults, effects>>

\* At the head of its loop the router asks whether the app sleeps: asleep it makes no
\* pass.  _sleep_monitor sets the key after some idle time; only a request or a
\* scheduler's alarm deletes it (activity_tracker.py), so no fairness goes with waking.
RouterFindsAsleep ==
  /\ rpc = "wait" /\ ~asleep
  /\ asleep' = TRUE
  /\ UNCHANGED <<rows, queue, router, workers, outboundEnabled, faults, effects>>

RouterFindsAwake ==
  /\ rpc = "wait" /\ asleep
  /\ asleep' = FALSE
  /\ UNCHANGED <<rows, queue, router, workers, outboundEnabled, faults, effects>>

RouterRead(p) ==
  /\ rpc = p
  /\ IF Eligible(p) = {}
       THEN rpc' = PassAfter[p] /\ batch' = {}
       ELSE rpc' = CommitPc[p] /\ batch' \in Batches(p)
  /\ UNCHANGED <<rows, queue, workers, outboundEnabled, asleep, faults, effects>>

\* Blocked rows become CANCEL, the others PENDING; the ids are pushed afterwards.
RouteCommit ==
  /\ rpc = "routeCommit"
  /\ state' = [t \in Tasks |-> IF t \notin batch THEN state[t]
                               ELSE IF outbound_blocked(t) THEN "CANCEL" ELSE "PENDING"]
  /\ lockedAge' = [t \in Tasks |-> IF t \notin batch THEN lockedAge[t]
                                   ELSE IF outbound_blocked(t) THEN NULL ELSE 0]
  /\ batch' = {t \in batch : ~outbound_blocked(t)}
  /\ rpc' = "push"
  /\ UNCHANGED <<tryCount, retryIn, queue, workers, outboundEnabled, asleep, faults, effects>>

RouterPush ==
  /\ rpc = "push"
  /\ \/ \E t \in batch :
          /\ queue' = [queue EXCEPT ![QueueOf[t]] = Append(@, t)]
          /\ batch' = batch \ {t}
          /\ UNCHANGED rpc
     \/ /\ batch = {}
        /\ rpc' = PassAfter["route"]
        /\ UNCHANGED <<queue, batch>>
  /\ UNCHANGED <<rows, workers, outboundEnabled, asleep, faults, effects>>

RetryCommit ==
  /\ rpc = "retryCommit"
  /\ state' = [t \in Tasks |-> IF t \in batch THEN "OPEN" ELSE state[t]]
  /\ retryIn' = [t \in Tasks |-> IF t \in batch THEN NULL ELSE retryIn[t]]
  /\ rpc' = PassAfter["retry"] /\ batch' = {}
  /\ UNCHANGED <<tryCount, lockedAge, queue, workers, outboundEnabled, asleep, faults, effects>>

StaleCommit ==
  /\ rpc = "staleCommit"
  /\ state' = [t \in Tasks |-> IF t \in batch THEN "OPEN" ELSE state[t]]
  /\ lockedAge' = [t \in Tasks |-> IF t \in batch THEN NULL ELSE lockedAge[t]]
  /\ rpc' = PassAfter["stale"] /\ batch' = {}
  /\ UNCHANGED <<tryCount, retryIn, queue, workers, outboundEnabled, asleep, faults, effects>>

\* Only the state is written: locked_at keeps the value it has by now.
StuckCommit ==
  /\ rpc = "stuckCommit"
  /\ state' = [t \in Tasks |-> IF t \in batch THEN "OPEN" ELSE state[t]]
  /\ rpc' = PassAfter["stuck"] /\ batch' = {}
  /\ UNCHANGED <<tryCount, lockedAge, retryIn, queue, workers,
                 outboundEnabled, asleep, faults, effects>>

\* A database or Redis error anywhere in the loop: back to the top after a backoff.
\* Rows committed but not yet pushed stay PENDING with no id in the queue.
RouterError ==
  /\ rpc \notin {"wait", "down"}
  /\ Fault
  /\ rpc' = "wait" /\ batch' = {}
  /\ UNCHANGED <<rows, queue, workers, outboundEnabled, asleep, effects>>

RouterCrash ==
  /\ rpc # "down"
  /\ Fault
  /\ rpc' = "down" /\ batch' = {}
  /\ UNCHANGED <<rows, queue, workers, outboundEnabled, asleep, effects>>

RouterRestart ==
  /\ rpc = "down"
  /\ rpc' = "wait"
  /\ UNCHANGED <<rows, queue, batch, workers, outboundEnabled, asleep, faults, effects>>

-----------------------------------------------------------------------------
(* Task creation and the dead-letter command.                                *)

create_execution_task(t) ==
  /\ state[t] = "NONE"
  /\ state' = [state EXCEPT ![t] = "OPEN"]
  /\ UNCHANGED <<tryCount, lockedAge, retryIn, queue, router, workers,
                 outboundEnabled, asleep, faults, effects>>

RequeueDeadLetter(t) ==
  /\ t \in DeadLetterTasks /\ state[t] = "FAIL"
  /\ Fault
  /\ state' = [state EXCEPT ![t] = "OPEN"]
  /\ tryCount' = [tryCount EXCEPT ![t] = 0]
  /\ retryIn' = [retryIn EXCEPT ![t] = NULL]
  /\ UNCHANGED <<lockedAge, queue, router, workers, outboundEnabled, asleep, effects>>

PurgeDeadLetter(t) ==
  /\ t \in DeadLetterTasks /\ state[t] = "FAIL"
  /\ Fault
  /\ state' = [state EXCEPT ![t] = "CANCEL"]
  /\ UNCHANGED <<tryCount, lockedAge, retryIn, queue, router, workers,
                 outboundEnabled, asleep, effects>>

-----------------------------------------------------------------------------
(* The workers: run_worker and _process_task.                                *)

\* blpop: the id leaves Redis before anything is written to the database.
Pop(w) ==
  /\ wpc[w] = "idle" /\ queue[Serves[w]] # <<>>
  /\ cur' = [cur EXCEPT ![w] = Head(queue[Serves[w]])]
  /\ queue' = [queue EXCEPT ![Serves[w]] = Tail(@)]
  /\ wpc' = [wpc EXCEPT ![w] = "popped"]
  /\ UNCHANGED <<rows, router, runAge, outboundEnabled, asleep, faults, effects>>

BackToIdleKeepsId(w) ==   \* mutant: current_task_id is not reset
  /\ wpc' = [wpc EXCEPT ![w] = "idle"]
  /\ runAge' = [runAge EXCEPT ![w] = 0]
  /\ UNCHANGED cur
BackToIdle(w) ==
  /\ wpc' = [wpc EXCEPT ![w] = "idle"]
  /\ cur' = [cur EXCEPT ![w] = NoTask]
  /\ runAge' = [runAge EXCEPT ![w] = 0]

\* The SELECT ... FOR UPDATE SKIP LOCKED of _claim_task.
Claimable(t) == state[t] = "PENDING"

\* _process_task after the claim: outbound guard, then handler lookup, then the handler.
AfterClaimUnguarded(t) == IF t \notin Handled THEN "unhandled" ELSE "running"   \* mutant
AfterClaim(t) == IF outbound_blocked(t) THEN "blocked"
                 ELSE IF t \notin Handled THEN "unhandled" ELSE "running"

Claim(w) ==
  LET t == cur[w] IN
  /\ wpc[w] = "popped" /\ Claimable(t)
  /\ state' = [state EXCEPT ![t] = "IN_PROGRESS"]
  /\ lockedAge' = [lockedAge EXCEPT ![t] = 0]
  /\ wpc' = [wpc EXCEPT ![w] = AfterClaim(t)]
  /\ runAge' = [runAge EXCEPT ![w] = 0]
  /\ UNCHANGED <<tryCount, retryIn, queue, router, cur, outboundEnabled, asleep, faults, effects>>

\* "already claimed - skipping": the popped id is dropped.
ClaimSkip(w) ==
  /\ wpc[w] = "popped" /\ ~Claimable(cur[w])
  /\ BackToIdle(w)
  /\ UNCHANGED <<rows, queue, router, outboundEnabled, asleep, faults, effects>>

\* The handler commits its effect in a session of its own, then returns.
HandlerReturns(w) ==
  /\ wpc[w] = "running"
  /\ wpc' = [wpc EXCEPT ![w] = "returned"]
  /\ effects' = [effects EXCEPT ![cur[w]] = Bump(@)]
  /\ UNCHANGED <<rows, queue, router, cur, runAge, outboundEnabled, asleep, faults>>

\* It raises, before or after it committed something.
HandlerRaises(w) ==
  /\ wpc[w] = "running"
  /\ wpc' = [wpc EXCEPT ![w] = "raised"]
  /\ \/ UNCHANGED effects
     \/ effects' = [effects EXCEPT ![cur[w]] = Bump(@)]
  /\ UNCHANGED <<rows, queue, router, cur, runAge, outboundEnabled, asleep, faults>>

\* asyncio.wait_for expires and cancels the handler.
TimeoutSwallowed(w) ==   \* mutant: the timeout is not raised
  /\ runAge[w] >= HandlerTimeout
  /\ wpc[w] = "running"
  /\ wpc' = [wpc EXCEPT ![w] = "returned"]
  /\ UNCHANGED <<rows, queue, router, cur, runAge, outboundEnabled, asleep, faults, effects>>
HandlerTimesOut(w) ==
  /\ runAge[w] >= HandlerTimeout
  /\ HandlerRaises(w)

FinalizeTask(w) ==
  /\ wpc[w] = "returned"
  /\ state' = [state EXCEPT ![cur[w]] = "COMPLETED"]
  /\ BackToIdle(w)
  /\ UNCHANGED <<tryCount, lockedAge, retryIn, queue, router,
                 outboundEnabled, asleep, faults, effects>>

\* An error inside _finalize_task is caught like a handler error: the task is
\* retried although its effect happened.
FinalizeError(w) ==
  /\ wpc[w] = "returned"
  /\ Fault
  /\ wpc' = [wpc EXCEPT ![w] = "raised"]
  /\ UNCHANGED <<rows, queue, router, cur, runAge, outboundEnabled, asleep, effects>>

\* _schedule_retry_or_fail.  BACKOFF_SECONDS is indexed from 0 in the code.
RetryDelay(n) == Backoff[Least(n, Len(Backoff))]

RetryForever(t) ==   \* mutant: no next_retry_at on the last attempt's branch
  /\ tryCount' = [tryCount EXCEPT ![t] = Bump(@)]
  /\ state' = [state EXCEPT ![t] = "RETRY_SCHEDULED"]
  /\ retryIn' = IF tryCount[t] + 1 < MaxTry
                  THEN [retryIn EXCEPT ![t] = RetryDelay(tryCount[t] + 1)]
                  ELSE retryIn
RetryOnceMore(t) ==   \* mutant: <= for <, one attempt too many
  /\ tryCount' = [tryCount EXCEPT ![t] = Bump(@)]
  /\ IF tryCount[t] + 1 <= MaxTry
       THEN /\ state' = [state EXCEPT ![t] = "RETRY_SCHEDULED"]
            /\ retryIn' = [retryIn EXCEPT ![t] = RetryDelay(tryCount[t] + 1)]
       ELSE /\ state' = [state EXCEPT ![t] = "FAIL"]
            /\ UNCHANGED retryIn
ScheduleRetryOrFail(t) ==
  /\ tryCount' = [tryCount EXCEPT ![t] = Bump(@)]
  /\ IF tryCount[t] + 1 < MaxTry
       THEN /\ state' = [state EXCEPT ![t] = "RETRY_SCHEDULED"]
            /\ retryIn' = [retryIn EXCEPT ![t] = RetryDelay(tryCount[t] + 1)]
       ELSE /\ state' = [state EXCEPT ![t] = "FAIL"]
            /\ UNCHANGED retryIn

FailTask(w) ==
  /\ wpc[w] = "raised"
  /\ ScheduleRetryOrFail(cur[w])
  /\ BackToIdle(w)
  /\ UNCHANGED <<lockedAge, queue, router, outboundEnabled, asleep, faults, effects>>

MarkNoHandler(w) ==
  /\ wpc[w] = "unhandled"
  /\ state' = [state EXCEPT ![cur[w]] = "FAIL"]
  /\ BackToIdle(w)
  /\ UNCHANGED <<tryCount, lockedAge, retryIn, queue, router,
                 outboundEnabled, asleep, faults, effects>>

MarkOutboundDisabled(w) ==
  /\ wpc[w] = "blocked"
  /\ state' = [state EXCEPT ![cur[w]] = "CANCEL"]
  /\ lockedAge' = [lockedAge EXCEPT ![cur[w]] = NULL]
  /\ BackToIdle(w)
  /\ UNCHANGED <<tryCount, retryIn, queue, router, outboundEnabled, asleep, faults, effects>>

\* A database error in _claim_task, _fail_task, _mark_no_handler or
\* _mark_outbound_disabled leaves _process_task and ends the loop.
ProcessError(w) ==
  /\ wpc[w] \in {"popped", "raised", "unhandled", "blocked"}
  /\ Fault
  /\ wpc' = [wpc EXCEPT ![w] = "rescue"]
  /\ UNCHANGED <<rows, queue, router, cur, runAge, outboundEnabled, asleep, effects>>

Down(w) ==
  /\ wpc' = [wpc EXCEPT ![w] = "down"]
  /\ cur' = [cur EXCEPT ![w] = NoTask]
  /\ runAge' = [runAge EXCEPT ![w] = 0]

\* The finally block of run_worker.  try_count and locked_at stay.
RescueInFlightTask(w) ==
  LET t == cur[w] IN
  /\ wpc[w] = "rescue"
  /\ IF state[t] = "IN_PROGRESS"
       THEN /\ state' = [state EXCEPT ![t] = "RETRY_SCHEDULED"]
            /\ retryIn' = [retryIn EXCEPT ![t] = Backoff[1]]
       ELSE UNCHANGED <<state, retryIn>>
  /\ Down(w)
  /\ UNCHANGED <<tryCount, lockedAge, queue, router, outboundEnabled, asleep, faults, effects>>

\* SIGTERM sets _shutdown_event, which the loop reads between two tasks.
WorkerShutdown(w) ==
  /\ wpc[w] = "idle"
  /\ Fault
  /\ Down(w)
  /\ UNCHANGED <<rows, queue, router, outboundEnabled, asleep, effects>>

\* SIGKILL, out of memory, power: nothing is written, a popped id is lost.
WorkerCrash(w) ==
  /\ wpc[w] # "down"
  /\ Fault
  /\ Down(w)
  /\ UNCHANGED <<rows, queue, router, outboundEnabled, asleep, effects>>

WorkerRestart(w) ==
  /\ wpc[w] = "down"
  /\ wpc' = [wpc EXCEPT ![w] = "idle"]
  /\ UNCHANGED <<rows, queue, router, cur, runAge, outboundEnabled, asleep, faults, effects>>

-----------------------------------------------------------------------------
(* The environment.                                                          *)

\* Redis restarts or evicts a list.
RedisLoses(q) ==
  /\ queue[q] # <<>>
  /\ Fault
  /\ queue' = [queue EXCEPT ![q] = <<>>]
  /\ UNCHANGED <<rows, router, workers, outboundEnabled, asleep, effects>>

\* A redeploy with OUTBOUND_INTEGRATIONS_ENABLED=false recreates every container:
\* settings are read at start.
DisableOutbound ==
  /\ outboundEnabled
  /\ outboundEnabled' = FALSE
  /\ rpc' = "down" /\ batch' = {}
  /\ wpc' = [w \in Workers |-> "down"]
  /\ cur' = [w \in Workers |-> NoTask]
  /\ runAge' = [w \in Workers |-> 0]
  /\ UNCHANGED <<rows, queue, asleep, faults, effects>>

\* Time passes only when nothing that takes milliseconds is under way: no router
\* transaction, no worker transaction, no id an idle worker would pop at once,
\* no handler whose wait_for has expired.
Quiet ==
  /\ rpc \in {"wait", "down"}
  /\ \A w \in Workers : \/ wpc[w] = "down"
                        \/ wpc[w] = "idle" /\ queue[Serves[w]] = <<>>
                        \/ wpc[w] = "running" /\ runAge[w] < HandlerTimeout

Tick ==
  /\ Quiet
  /\ lockedAge' = [t \in Tasks |-> OlderBy1(lockedAge[t])]
  /\ retryIn' = [t \in Tasks |-> IF retryIn[t] > 0 THEN retryIn[t] - 1 ELSE retryIn[t]]
  /\ runAge' = [w \in Workers |-> IF wpc[w] = "running" THEN runAge[w] + 1 ELSE runAge[w]]
  /\ UNCHANGED <<state, tryCount, queue, router, wpc, cur,
                 outboundEnabled, asleep, faults, effects>>

-----------------------------------------------------------------------------
Init ==
  /\ state = [t \in Tasks |-> "NONE"]
  /\ tryCount = [t \in Tasks |-> 0]
  /\ lockedAge = [t \in Tasks |-> NULL]
  /\ retryIn = [t \in Tasks |-> NULL]
  /\ queue = [q \in Queues |-> <<>>]
  /\ rpc = "wait" /\ batch = {}
  /\ wpc = [w \in Workers |-> "idle"]
  /\ cur = [w \in Workers |-> NoTask]
  /\ runAge = [w \in Workers |-> 0]
  /\ outboundEnabled = TRUE /\ asleep = FALSE /\ faults = 0
  /\ effects = [t \in Tasks |-> 0]

RouterStep ==
  \/ RouterWake
  \/ \E p \in Passes : RouterRead(p)
  \/ RouteCommit \/ RouterPush \/ RetryCommit \/ StaleCommit \/ StuckCommit
  \/ RouterRestart

\* What a worker does on its own, the handler's own pace apart.
WorkerStep(w) ==
  \/ Pop(w) \/ Claim(w) \/ ClaimSkip(w)
  \/ HandlerTimesOut(w)
  \/ FinalizeTask(w) \/ FailTask(w) \/ MarkNoHandler(w) \/ MarkOutboundDisabled(w)
  \/ RescueInFlightTask(w) \/ WorkerRestart(w)

WorkerFault(w) == FinalizeError(w) \/ ProcessError(w) \/ WorkerShutdown(w) \/ WorkerCrash(w)

Next ==
  \/ RouterStep \/ RouterFindsAsleep \/ RouterFindsAwake \/ RouterError \/ RouterCrash
  \/ \E t \in Tasks : create_execution_task(t) \/ RequeueDeadLetter(t) \/ PurgeDeadLetter(t)
  \/ \E w \in Workers : WorkerStep(w) \/ HandlerReturns(w) \/ HandlerRaises(w) \/ WorkerFault(w)
  \/ \E q \in Queues : RedisLoses(q)
  \/ DisableOutbound
  \/ Tick

Spec == Init /\ [][Next]_vars

(* Fairness: the router, as long as it finds the app awake, and the workers  *)
(* are single loops under a restart policy, wait_for bounds every handler,   *)
(* and time passes.  Nothing wakes a sleeping app.                           *)
FairSpec ==
  /\ Spec
  /\ WF_vars(RouterStep)
  /\ \A w \in Workers : WF_vars(WorkerStep(w))
  /\ WF_vars(Tick)

-----------------------------------------------------------------------------
\* The columns of execution_tasks, the Redis lists and the loops of the router and
\* of run_worker hold what they can hold; a worker has a current task exactly while
\* it is neither waiting nor down.
TypeOK ==
  /\ state \in [Tasks -> States]
  /\ tryCount \in [Tasks -> Nat]
  /\ lockedAge \in [Tasks -> Nat \cup {NULL}]
  /\ retryIn \in [Tasks -> Nat \cup {NULL}]
  /\ queue \in [Queues -> Seq(Tasks)]
  /\ rpc \in RouterPcs /\ batch \subseteq Tasks
  /\ wpc \in [Workers -> WorkerPcs]
  /\ cur \in [Workers -> Tasks \cup {NoTask}]
  /\ \A w \in Workers : cur[w] = NoTask <=> wpc[w] \in {"idle", "down"}
  /\ runAge \in [Workers -> Nat]
  /\ outboundEnabled \in BOOLEAN /\ asleep \in BOOLEAN /\ faults \in Nat
  /\ effects \in [Tasks -> Nat]

\* Every row that is not settled is visible to one of the router's four scans, now
\* or once time has passed: PENDING and IN_PROGRESS rows carry the locked_at that
\* _recover_stuck_pending_tasks and _cleanup_stale_tasks compare, RETRY_SCHEDULED
\* rows the next_retry_at that _requeue_retry_scheduled_tasks compares.  (A NULL
\* compares as unknown in SQL, so a row without it would be stranded for good.)
NoRowStranded ==
  \A t \in Tasks :
    /\ state[t] \in {"PENDING", "IN_PROGRESS"} => lockedAge[t] # NULL
    /\ state[t] = "RETRY_SCHEDULED" => retryIn[t] # NULL

\* A worker that holds a claim never shows up in the stale scan: the row's lock is
\* at most as old as the worker's own run, and wait_for ends a run before
\* STALE_IN_PROGRESS_MINUTES (task_router.py:59).
LiveClaimIsFresh ==
  \A w \in Workers : wpc[w] \in Holding => ~IsStale(cur[w])

\* _cleanup_stale_tasks commits only rows whose worker is gone, although it read
\* them before and without a lock.
StaleTakesOnlyAbandoned ==
  [][StaleCommit => \A t \in batch : \A w \in Workers : wpc[w] \in Holding => cur[w] # t]_vars

\* COMPLETED means that a handler run committed its effect, whatever crashes,
\* duplicate ids and recovery scans did in between (_finalize_task writes COMPLETED
\* without looking at the row's state).
CompletedHasEffect == \A t \in Tasks : state[t] = "COMPLETED" => effects[t] > 0

-----------------------------------------------------------------------------
(* The inductive strengthening of the invariants above.                      *)

\* wait_for ends every run by HandlerTimeout.
RunsBounded == \A w \in Workers : runAge[w] <= HandlerTimeout

\* A claim stamps the lock when the run begins; later stamps only make it younger.
LockNotOlderThanRun ==
  \A w \in Workers :
    (wpc[w] \in Holding /\ lockedAge[cur[w]] # NULL) => lockedAge[cur[w]] <= runAge[w]

\* No worker can claim a row between the stale scan's read and its commit: claims
\* start from PENDING, and only the router, busy here, makes a row PENDING.
StaleBatchAbandoned ==
  rpc = "staleCommit" =>
    \A t \in batch : /\ state[t] # "PENDING"
                     /\ \A w \in Workers : wpc[w] \in Holding => cur[w] # t

EffectBeforeReturn == \A w \in Workers : wpc[w] = "returned" => effects[cur[w]] > 0

\* Ids in Redis, in the router's hands and in the workers' are ids of rows.
OnlySubmittedMove ==
  /\ \A q \in Queues : \A i \in 1 .. Len(queue[q]) : state[queue[q][i]] # "NONE"
  /\ \A w \in Workers : cur[w] # NoTask => state[cur[w]] # "NONE"
  /\ \A t \in batch : state[t] # "NONE"

\* What _process_task decided after the claim is still so: the switch and the
\* handler map change only with a restart of every process.
ClaimsAreVetted ==
  \A w \in Workers :
    /\ wpc[w] = "running"   => cur[w] \in Handled /\ ~outbound_blocked(cur[w])
    /\ wpc[w] = "blocked"   => outbound_blocked(cur[w])
    /\ wpc[w] = "unhandled" => cur[w] \notin Handled

-----------------------------------------------------------------------------
\* After a redeploy with OUTBOUND_INTEGRATIONS_ENABLED=false no outbound handler has
\* an effect, ids and rows left over from before included (outbound.py: "the router
\* cancels them rather than queueing them, and a worker cancels any it still receives").
OutboundStaysSilent ==
  [][~outboundEnabled => \A t \in Outbound : effects'[t] = effects[t]]_vars

\* While the app is awake every task that is not settled and whose queue has a worker
\* is settled in the end, through lost ids, crashes, timeouts and retries, also those
\* left over from when it slept: each stretch awake settles it unless it ends before.
\* With sleep mode on, the default (config.py:91), a sleeping app settles nothing: a
\* task opened, requeued or lost then waits for a request or an alarm
\* (task_router.py:108-113).
EveryTaskSettles ==
  \A t \in Tasks :
    (/\ state[t] \notin Terminal \cup {"NONE"}
     /\ \E w \in Workers : Serves[w] = QueueOf[t])
      ~> state[t] \in Terminal \/ asleep

-----------------------------------------------------------------------------
(* The engine as its clients see it (TaskContract).                          *)

StatusOf(st) == CASE st = "NONE"      -> "none"
                  [] st = "COMPLETED" -> "done"
                  [] st = "FAIL"      -> "failed"
                  [] st = "CANCEL"    -> "cancelled"
                  [] OTHER            -> "open"

Contract == INSTANCE TaskContract WITH
  Requeueable <- DeadLetterTasks,
  status      <- [t \in Tasks |-> StatusOf(state[t])],
  left        <- [t \in Tasks |-> IF tryCount[t] < MaxTry THEN MaxTry - tryCount[t] ELSE 0],
  performed   <- {t \in Tasks : effects[t] > 0},
  silent      <- IF outboundEnabled THEN {} ELSE Outbound

\* The router, the queues and the workers together keep the promises of TaskContract
\* through crashes, lost and duplicate ids, stale scans and errors: at least one
\* committed effect behind every COMPLETED row, MaxTry failures (counted by
\* _schedule_retry_or_fail) behind every FAIL of a task that has a handler, and no
\* effect of an outbound task once integrations are disabled.
ImplementsContract == Contract!Spec

\* architecture/16_background_jobs.md: "Execution ownership is guaranteed by a
\* DB-level atomic state transition": two workers never hold the same task.
OneOwner ==
  \A v, w \in Workers :
    (v # w /\ wpc[v] \in Holding /\ wpc[w] \in Holding) => cur[v] # cur[w]
================================================================================
