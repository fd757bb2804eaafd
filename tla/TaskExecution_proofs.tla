-------------------------- MODULE TaskExecution_proofs --------------------------
(***************************************************************************)
(* Proofs about the execution engine, for any number of tasks, workers and   *)
(* queues and any number of faults.                                          *)
(*                                                                           *)
(* IInv adds to the checked invariants three facts about clocks and batches: *)
(* a handler run is never older than HandlerTimeout (RunsBounded), the lock  *)
(* of a live run is not older than the run (LockNotOlderThanRun), and the    *)
(* rows the stale pass has read and not yet written belong to no live run    *)
(* (StaleBatchAbandoned).                                                    *)
(***************************************************************************)
EXTENDS TaskExecution, TLAPS

USE DEF NULL

\* A saturated count stays a count ...
LEMMA BumpNat == \A n \in Nat : Bump(n) \in Nat
  BY ConstantsAssumption DEF Bump, MaxCount, Least

\* Every failed attempt has a delay in the backoff table.
LEMMA RetryDelayNat == \A n \in Nat \ {0} : RetryDelay(n) \in Nat
  BY ConstantsAssumption DEF RetryDelay, Least

\* ... and is never zero again.
LEMMA BumpPositive == \A n \in Nat : Bump(n) \in Nat \ {0}
  BY ConstantsAssumption DEF Bump, MaxCount, Least

\* A tick ages a lock by one at most.
LEMMA OlderBy1Bound == \A n \in Nat : OlderBy1(n) \in Nat /\ OlderBy1(n) <= n + 1
  BY ConstantsAssumption DEF OlderBy1, Least

\* Typing holds at the start and one step per action preserves it.
LEMMA TypeOKInit == Init => TypeOK
<1> SUFFICES ASSUME Init PROVE TypeOK
  OBVIOUS
<1>1. /\ state \in [Tasks -> States] /\ tryCount \in [Tasks -> Nat]
      /\ lockedAge \in [Tasks -> Nat \cup {NULL}] /\ retryIn \in [Tasks -> Nat \cup {NULL}]
      /\ effects \in [Tasks -> Nat]
  BY DEF Init, States
<1>2. queue \in [Queues -> Seq(Tasks)]
  <2>1. <<>> \in Seq(Tasks)
    OBVIOUS
  <2> QED BY <2>1 DEF Init
<1>3. /\ rpc \in RouterPcs /\ batch \subseteq Tasks
      /\ outboundEnabled \in BOOLEAN /\ asleep \in BOOLEAN /\ faults \in Nat
  BY DEF Init, RouterPcs, Passes
<1>4. /\ wpc \in [Workers -> WorkerPcs] /\ runAge \in [Workers -> Nat]
      /\ cur \in [Workers -> Tasks \cup {NoTask}]
      /\ \A w \in Workers : cur[w] = NoTask <=> wpc[w] \in {"idle", "down"}
  BY DEF Init, WorkerPcs
<1> QED BY <1>1, <1>2, <1>3, <1>4 DEF TypeOK

\* One row's new value leaves a column typed.
LEMMA Updated ==
  ASSUME NEW S, NEW T, NEW f \in [S -> T], NEW s \in S, NEW x \in T
  PROVE  [f EXCEPT ![s] = x] \in [S -> T]
  OBVIOUS

LEMMA TypeOKStep == TypeOK /\ [Next]_vars => TypeOK'
<1> SUFFICES ASSUME TypeOK, [Next]_vars PROVE TypeOK'
  OBVIOUS
<1> USE ConstantsAssumption
<1> USE DEF TypeOK, rows, router, workers, States, RouterPcs, Passes, WorkerPcs
<1>1. CASE RouterWake
  BY <1>1 DEF RouterWake
<1>2. CASE RouteCommit
  BY <1>2 DEF RouteCommit
<1>3. CASE RouterPush
  <2>1. ASSUME NEW t \in batch,
               queue' = [queue EXCEPT ![QueueOf[t]] = Append(@, t)],
               batch' = batch \ {t}, UNCHANGED rpc
        PROVE  TypeOK'
    <3>1. t \in Tasks /\ queue[QueueOf[t]] \in Seq(Tasks)
      OBVIOUS
    <3>3. Append(queue[QueueOf[t]], t) \in Seq(Tasks)
      BY <3>1
    <3>2. queue' \in [Queues -> Seq(Tasks)]
      BY <2>1, <3>3
    <3> QED
      BY <1>3, <2>1, <3>2 DEF RouterPush
  <2>2. CASE rpc' = PassAfter["route"] /\ UNCHANGED <<queue, batch>>
    BY <1>3, <2>2 DEF RouterPush, PassAfter
  <2> QED
    BY <1>3, <2>1, <2>2 DEF RouterPush
<1>4. CASE RetryCommit
  BY <1>4 DEF RetryCommit, PassAfter
<1>5. CASE StaleCommit
  BY <1>5 DEF StaleCommit, PassAfter
<1>6. CASE StuckCommit
  BY <1>6 DEF StuckCommit, PassAfter
<1>7. CASE RouterRestart
  BY <1>7 DEF RouterRestart
<1>8. CASE RouterError
  BY <1>8 DEF RouterError, Fault
<1>9. CASE RouterCrash
  BY <1>9 DEF RouterCrash, Fault
<1>10. CASE DisableOutbound
  BY <1>10 DEF DisableOutbound
<1>11. CASE Tick
  BY <1>11 DEF Tick, OlderBy1, Least, Quiet
<1>12. ASSUME NEW p \in Passes, RouterRead(p) PROVE TypeOK'
  <2>1. Eligible(p) \subseteq Tasks
    BY DEF Eligible
  <2>2. batch' \subseteq Tasks
    BY <1>12, <2>1 DEF RouterRead, Batches
  <2>3. rpc' \in RouterPcs
    BY <1>12 DEF RouterRead, CommitPc, PassAfter
  <2> QED
    BY <1>12, <2>2, <2>3 DEF RouterRead
<1>13. ASSUME NEW w \in Workers, Pop(w) PROVE TypeOK'
  <2>1. queue[Serves[w]] \in Seq(Tasks) /\ queue[Serves[w]] # <<>>
    BY <1>13 DEF Pop
  <2>2. Head(queue[Serves[w]]) \in Tasks /\ Tail(queue[Serves[w]]) \in Seq(Tasks)
    BY <2>1
  <2> QED
    BY <1>13, <2>2 DEF Pop
<1>14. ASSUME NEW w \in Workers, Claim(w) PROVE TypeOK'
  <2>1. cur[w] \in Tasks
    BY <1>14 DEF Claim
  <2>2. AfterClaim(cur[w]) \in {"blocked", "unhandled", "running"}
    BY DEF AfterClaim
  <2>3. /\ state' \in [Tasks -> States] /\ lockedAge' \in [Tasks -> Nat \cup {NULL}]
        /\ wpc' \in [Workers -> WorkerPcs] /\ runAge' \in [Workers -> Nat]
    BY <1>14, <2>1, <2>2 DEF Claim
  <2>4. \A v \in Workers : cur'[v] = NoTask <=> wpc'[v] \in {"idle", "down"}
    BY <1>14, <2>1, <2>2 DEF Claim
  <2> QED
    BY <1>14, <2>3, <2>4 DEF Claim
<1>15. ASSUME NEW w \in Workers, ClaimSkip(w) PROVE TypeOK'
  BY <1>15 DEF ClaimSkip, BackToIdle
<1>16. ASSUME NEW w \in Workers, HandlerTimesOut(w) PROVE TypeOK'
  <2>1. cur[w] \in Tasks
    BY <1>16 DEF HandlerTimesOut, HandlerRaises
  <2>2. Bump(effects[cur[w]]) \in Nat
    BY <2>1, BumpNat
  <2>3. effects' = effects \/ effects' = [effects EXCEPT ![cur[w]] = Bump(effects[cur[w]])]
    BY <1>16, Zenon DEF HandlerTimesOut, HandlerRaises
  <2>4. effects' \in [Tasks -> Nat]
    <3>1. effects \in [Tasks -> Nat]
      OBVIOUS
    <3>2. [effects EXCEPT ![cur[w]] = Bump(effects[cur[w]])] \in [Tasks -> Nat]
      BY Zenon, <2>1, <2>2, <3>1, Updated
    <3> QED
      BY Zenon, <2>3, <3>1, <3>2
  <2> QED
    BY <1>16, <2>1, <2>4 DEF HandlerTimesOut, HandlerRaises
<1>17. ASSUME NEW w \in Workers, FinalizeTask(w) PROVE TypeOK'
  BY <1>17 DEF FinalizeTask, BackToIdle
<1>18. ASSUME NEW w \in Workers, FailTask(w) PROVE TypeOK'
  <2>1. cur[w] \in Tasks
    BY <1>18 DEF FailTask
  <2>2. tryCount' \in [Tasks -> Nat]
    BY <1>18, <2>1, BumpNat DEF FailTask, ScheduleRetryOrFail
  <2>3. RetryDelay(tryCount[cur[w]] + 1) \in Nat
    <3>1. tryCount[cur[w]] + 1 \in Nat \ {0}
      BY <2>1
    <3> QED
      BY <3>1, RetryDelayNat
  <2>4. state' \in [Tasks -> States] /\ retryIn' \in [Tasks -> Nat \cup {NULL}]
    <3>1. CASE tryCount[cur[w]] + 1 < MaxTry
      <4>1. /\ state' = [state EXCEPT ![cur[w]] = "RETRY_SCHEDULED"]
            /\ retryIn' = [retryIn EXCEPT ![cur[w]] = RetryDelay(tryCount[cur[w]] + 1)]
        BY <1>18, <3>1 DEF FailTask, ScheduleRetryOrFail
      <4> QED
        BY <2>1, <2>3, <4>1
    <3>2. CASE ~(tryCount[cur[w]] + 1 < MaxTry)
      BY <1>18, <2>1, <3>2 DEF FailTask, ScheduleRetryOrFail
    <3> QED
      BY <3>1, <3>2
  <2> QED
    BY <1>18, <2>2, <2>4 DEF FailTask, BackToIdle
<1>19. ASSUME NEW w \in Workers, MarkNoHandler(w) PROVE TypeOK'
  BY <1>19 DEF MarkNoHandler, BackToIdle
<1>20. ASSUME NEW w \in Workers, MarkOutboundDisabled(w) PROVE TypeOK'
  BY <1>20 DEF MarkOutboundDisabled, BackToIdle
<1>21. ASSUME NEW w \in Workers, RescueInFlightTask(w) PROVE TypeOK'
  <2>1. cur[w] \in Tasks
    BY <1>21 DEF RescueInFlightTask
  <2>2. Backoff[1] \in Nat
    OBVIOUS
  <2>3. state' \in [Tasks -> States] /\ retryIn' \in [Tasks -> Nat \cup {NULL}]
    BY <1>21, <2>1, <2>2 DEF RescueInFlightTask
  <2> QED
    BY <1>21, <2>3 DEF RescueInFlightTask, Down
<1>22. ASSUME NEW w \in Workers, WorkerRestart(w) PROVE TypeOK'
  BY <1>22 DEF WorkerRestart
<1>23. ASSUME NEW w \in Workers, FinalizeError(w) PROVE TypeOK'
  <2>1. wpc' \in [Workers -> WorkerPcs] /\ faults' \in Nat
    BY <1>23 DEF FinalizeError, Fault
  <2>2. \A v \in Workers : cur'[v] = NoTask <=> wpc'[v] \in {"idle", "down"}
    BY <1>23 DEF FinalizeError
  <2> QED
    BY <1>23, <2>1, <2>2 DEF FinalizeError
<1>24. ASSUME NEW w \in Workers, ProcessError(w) PROVE TypeOK'
  BY <1>24 DEF ProcessError, Fault
<1>25. ASSUME NEW w \in Workers, WorkerShutdown(w) PROVE TypeOK'
  BY <1>25 DEF WorkerShutdown, Down, Fault
<1>26. ASSUME NEW w \in Workers, WorkerCrash(w) PROVE TypeOK'
  BY <1>26 DEF WorkerCrash, Down, Fault
<1>27. ASSUME NEW w \in Workers, HandlerReturns(w) PROVE TypeOK'
  <2>1. cur[w] \in Tasks
    BY <1>27 DEF HandlerReturns
  <2>2. effects' \in [Tasks -> Nat]
    BY <1>27, <2>1, BumpNat DEF HandlerReturns
  <2> QED
    BY <1>27, <2>1, <2>2 DEF HandlerReturns
<1>28. ASSUME NEW w \in Workers, HandlerRaises(w) PROVE TypeOK'
  <2>1. cur[w] \in Tasks
    BY <1>28 DEF HandlerRaises
  <2>2. Bump(effects[cur[w]]) \in Nat
    BY <2>1, BumpNat
  <2>3. effects' = effects \/ effects' = [effects EXCEPT ![cur[w]] = Bump(effects[cur[w]])]
    BY <1>28, Zenon DEF HandlerRaises
  <2>4. effects' \in [Tasks -> Nat]
    <3>1. effects \in [Tasks -> Nat]
      OBVIOUS
    <3>2. [effects EXCEPT ![cur[w]] = Bump(effects[cur[w]])] \in [Tasks -> Nat]
      BY Zenon, <2>1, <2>2, <3>1, Updated
    <3> QED
      BY Zenon, <2>3, <3>1, <3>2
  <2> QED
    BY <1>28, <2>1, <2>4 DEF HandlerRaises
<1>29. ASSUME NEW t \in Tasks, create_execution_task(t) PROVE TypeOK'
  BY <1>29 DEF create_execution_task
<1>30. ASSUME NEW t \in Tasks, RequeueDeadLetter(t) PROVE TypeOK'
  BY <1>30 DEF RequeueDeadLetter, Fault
<1>31. ASSUME NEW t \in Tasks, PurgeDeadLetter(t) PROVE TypeOK'
  BY <1>31 DEF PurgeDeadLetter, Fault
<1>32. ASSUME NEW q \in Queues, RedisLoses(q) PROVE TypeOK'
  <2>1. queue' = [queue EXCEPT ![q] = <<>>] /\ faults' \in Nat
    BY <1>32 DEF RedisLoses, Fault
  <2>2. queue' \in [Queues -> Seq(Tasks)]
    BY <2>1
  <2> QED
    BY <1>32, <2>1, <2>2 DEF RedisLoses
<1>33. CASE RouterFindsAsleep \/ RouterFindsAwake \/ UNCHANGED vars
  BY <1>33 DEF RouterFindsAsleep, RouterFindsAwake, vars
<1> QED
  BY <1>1, <1>2, <1>3, <1>4, <1>5, <1>6, <1>7, <1>8, <1>9, <1>10, <1>11, <1>12, <1>13, <1>14, <1>15, <1>16, <1>17, <1>18, <1>19, <1>20, <1>21, <1>22, <1>23, <1>24, <1>25, <1>26, <1>27, <1>28, <1>29, <1>30, <1>31, <1>32, <1>33 DEF Next, RouterStep, WorkerStep, WorkerFault

\* Every action that makes a row PENDING, IN_PROGRESS or RETRY_SCHEDULED stamps it.
LEMMA NoRowStrandedStep == TypeOK /\ NoRowStranded /\ [Next]_vars => NoRowStranded'
<1> SUFFICES ASSUME TypeOK, NoRowStranded, [Next]_vars PROVE NoRowStranded'
  OBVIOUS
<1> USE DEF TypeOK, NoRowStranded, rows, router, workers
<1>1. CASE RouterWake
  BY <1>1 DEF RouterWake
<1>2. CASE RouteCommit
  BY <1>2 DEF RouteCommit
<1>3. CASE RouterPush
  BY <1>3 DEF RouterPush, PassAfter
<1>4. CASE RetryCommit
  BY <1>4 DEF RetryCommit, PassAfter
<1>5. CASE StaleCommit
  BY <1>5 DEF StaleCommit, PassAfter
<1>6. CASE StuckCommit
  BY <1>6 DEF StuckCommit, PassAfter
<1>7. CASE RouterRestart
  BY <1>7 DEF RouterRestart
<1>8. CASE RouterError
  BY <1>8 DEF RouterError
<1>9. CASE RouterCrash
  BY <1>9 DEF RouterCrash
<1>10. CASE DisableOutbound
  BY <1>10 DEF DisableOutbound
<1>11. CASE Tick
  <2>1. \A t \in Tasks : lockedAge'[t] = OlderBy1(lockedAge[t]) /\ state'[t] = state[t]
    BY <1>11 DEF Tick
  <2>2. ASSUME NEW t \in Tasks, lockedAge[t] # NULL PROVE lockedAge'[t] # NULL
    <3>1. lockedAge[t] \in Nat
      BY <2>2
    <3>2. lockedAge'[t] = OlderBy1(lockedAge[t])
      BY <2>1
    <3> QED
      BY <3>1, <3>2, ConstantsAssumption DEF OlderBy1, Least
  <2>3. \A t \in Tasks : retryIn[t] # NULL => retryIn'[t] # NULL
    BY <1>11 DEF Tick
  <2> QED
    BY <2>1, <2>2, <2>3
<1>12. ASSUME NEW p \in Passes, RouterRead(p) PROVE NoRowStranded'
  BY <1>12 DEF RouterRead
<1>13. ASSUME NEW w \in Workers, Pop(w) PROVE NoRowStranded'
  BY <1>13 DEF Pop
<1>14. ASSUME NEW w \in Workers, Claim(w) PROVE NoRowStranded'
  BY <1>14 DEF Claim, Claimable, AfterClaim
<1>15. ASSUME NEW w \in Workers, ClaimSkip(w) PROVE NoRowStranded'
  BY <1>15 DEF ClaimSkip, BackToIdle
<1>16. ASSUME NEW w \in Workers, HandlerTimesOut(w) PROVE NoRowStranded'
  <2>1. HandlerRaises(w)
    BY <1>16 DEF HandlerTimesOut
  <2> QED
    BY <2>1 DEF HandlerRaises
<1>17. ASSUME NEW w \in Workers, FinalizeTask(w) PROVE NoRowStranded'
  BY <1>17 DEF FinalizeTask, BackToIdle
<1>18. ASSUME NEW w \in Workers, FailTask(w) PROVE NoRowStranded'
  <2>1. cur[w] \in Tasks
    BY <1>18 DEF FailTask
  <2>2. tryCount[cur[w]] + 1 \in Nat \ {0}
    BY <2>1
  <2>3. RetryDelay(tryCount[cur[w]] + 1) \in Nat
    BY <2>2, RetryDelayNat
  <2>4. CASE tryCount[cur[w]] + 1 < MaxTry
    <3>1. /\ state' = [state EXCEPT ![cur[w]] = "RETRY_SCHEDULED"]
          /\ retryIn' = [retryIn EXCEPT ![cur[w]] = RetryDelay(tryCount[cur[w]] + 1)]
          /\ lockedAge' = lockedAge
      BY <1>18, <2>4 DEF FailTask, ScheduleRetryOrFail
    <3> QED
      BY <2>1, <2>3, <3>1
  <2>5. CASE ~(tryCount[cur[w]] + 1 < MaxTry)
    BY <1>18, <2>1, <2>5 DEF FailTask, ScheduleRetryOrFail
  <2> QED
    BY <2>4, <2>5
<1>19. ASSUME NEW w \in Workers, MarkNoHandler(w) PROVE NoRowStranded'
  BY <1>19 DEF MarkNoHandler, BackToIdle
<1>20. ASSUME NEW w \in Workers, MarkOutboundDisabled(w) PROVE NoRowStranded'
  BY <1>20 DEF MarkOutboundDisabled, BackToIdle
<1>21. ASSUME NEW w \in Workers, RescueInFlightTask(w) PROVE NoRowStranded'
  <2>1. cur[w] \in Tasks
    BY <1>21 DEF RescueInFlightTask
  <2>2. Backoff[1] \in Nat
    BY ConstantsAssumption
  <2>3. CASE state[cur[w]] = "IN_PROGRESS"
    <3>1. /\ state' = [state EXCEPT ![cur[w]] = "RETRY_SCHEDULED"]
          /\ retryIn' = [retryIn EXCEPT ![cur[w]] = Backoff[1]]
          /\ UNCHANGED <<lockedAge, router>>
      BY <1>21, <2>3 DEF RescueInFlightTask
    <3> QED
      BY <2>1, <2>2, <3>1
  <2>4. CASE state[cur[w]] # "IN_PROGRESS"
    BY <1>21, <2>4 DEF RescueInFlightTask
  <2> QED
    BY <2>3, <2>4
<1>22. ASSUME NEW w \in Workers, WorkerRestart(w) PROVE NoRowStranded'
  BY <1>22 DEF WorkerRestart
<1>23. ASSUME NEW w \in Workers, FinalizeError(w) PROVE NoRowStranded'
  BY <1>23 DEF FinalizeError
<1>24. ASSUME NEW w \in Workers, ProcessError(w) PROVE NoRowStranded'
  BY <1>24 DEF ProcessError
<1>25. ASSUME NEW w \in Workers, WorkerShutdown(w) PROVE NoRowStranded'
  BY <1>25 DEF WorkerShutdown, Down
<1>26. ASSUME NEW w \in Workers, WorkerCrash(w) PROVE NoRowStranded'
  BY <1>26 DEF WorkerCrash, Down
<1>27. ASSUME NEW w \in Workers, HandlerReturns(w) PROVE NoRowStranded'
  BY <1>27 DEF HandlerReturns
<1>28. ASSUME NEW w \in Workers, HandlerRaises(w) PROVE NoRowStranded'
  BY <1>28 DEF HandlerRaises
<1>29. ASSUME NEW t \in Tasks, create_execution_task(t) PROVE NoRowStranded'
  BY <1>29 DEF create_execution_task
<1>30. ASSUME NEW t \in Tasks, RequeueDeadLetter(t) PROVE NoRowStranded'
  BY <1>30 DEF RequeueDeadLetter
<1>31. ASSUME NEW t \in Tasks, PurgeDeadLetter(t) PROVE NoRowStranded'
  BY <1>31 DEF PurgeDeadLetter
<1>32. ASSUME NEW q \in Queues, RedisLoses(q) PROVE NoRowStranded'
  BY <1>32 DEF RedisLoses
<1>33. CASE RouterFindsAsleep \/ RouterFindsAwake \/ UNCHANGED vars
  BY <1>33 DEF RouterFindsAsleep, RouterFindsAwake, vars
<1> QED
  BY <1>1, <1>2, <1>3, <1>4, <1>5, <1>6, <1>7, <1>8, <1>9, <1>10, <1>11, <1>12, <1>13, <1>14, <1>15, <1>16, <1>17, <1>18, <1>19, <1>20, <1>21, <1>22, <1>23, <1>24, <1>25, <1>26, <1>27, <1>28, <1>29, <1>30, <1>31, <1>32, <1>33
  DEF Next, RouterStep, WorkerStep, WorkerFault

\* Only Tick ages a run, and Quiet holds it back at HandlerTimeout.
LEMMA RunsBoundedStep == TypeOK /\ RunsBounded /\ [Next]_vars => RunsBounded'
<1> SUFFICES ASSUME TypeOK, RunsBounded, [Next]_vars PROVE RunsBounded'
  OBVIOUS
<1> USE ConstantsAssumption
<1> USE DEF TypeOK, RunsBounded, rows, router, workers
<1>1. CASE RouterWake
  BY <1>1 DEF RouterWake
<1>2. CASE RouteCommit
  BY <1>2 DEF RouteCommit
<1>3. CASE RouterPush
  BY <1>3 DEF RouterPush, PassAfter
<1>4. CASE RetryCommit
  BY <1>4 DEF RetryCommit, PassAfter
<1>5. CASE StaleCommit
  BY <1>5 DEF StaleCommit, PassAfter
<1>6. CASE StuckCommit
  BY <1>6 DEF StuckCommit, PassAfter
<1>7. CASE RouterRestart
  BY <1>7 DEF RouterRestart
<1>8. CASE RouterError
  BY <1>8 DEF RouterError
<1>9. CASE RouterCrash
  BY <1>9 DEF RouterCrash
<1>10. CASE DisableOutbound
  BY <1>10 DEF DisableOutbound
<1>11. CASE Tick
  <2> SUFFICES ASSUME NEW w \in Workers PROVE runAge'[w] <= HandlerTimeout
    OBVIOUS
  <2>1. runAge[w] \in Nat /\ runAge[w] <= HandlerTimeout
    OBVIOUS
  <2>2. CASE wpc[w] = "running"
    <3>1. runAge[w] < HandlerTimeout
      BY <1>11, <2>2, Zenon DEF Tick, Quiet
    <3>2. runAge'[w] = runAge[w] + 1
      BY <1>11, <2>2 DEF Tick
    <3> QED
      BY <2>1, <3>1, <3>2
  <2>3. CASE wpc[w] # "running"
    BY <1>11, <2>1, <2>3 DEF Tick
  <2> QED
    BY <2>2, <2>3
<1>12. ASSUME NEW p \in Passes, RouterRead(p) PROVE RunsBounded'
  BY <1>12 DEF RouterRead
<1>13. ASSUME NEW w \in Workers, Pop(w) PROVE RunsBounded'
  BY <1>13 DEF Pop
<1>14. ASSUME NEW w \in Workers, Claim(w) PROVE RunsBounded'
  BY <1>14 DEF Claim, Claimable, AfterClaim
<1>15. ASSUME NEW w \in Workers, ClaimSkip(w) PROVE RunsBounded'
  BY <1>15 DEF ClaimSkip, BackToIdle
<1>16. ASSUME NEW w \in Workers, HandlerTimesOut(w) PROVE RunsBounded'
  <2>1. HandlerRaises(w)
    BY <1>16 DEF HandlerTimesOut
  <2> QED
    BY <2>1 DEF HandlerRaises
<1>17. ASSUME NEW w \in Workers, FinalizeTask(w) PROVE RunsBounded'
  BY <1>17 DEF FinalizeTask, BackToIdle
<1>18. ASSUME NEW w \in Workers, FailTask(w) PROVE RunsBounded'
  BY <1>18 DEF FailTask, BackToIdle, ScheduleRetryOrFail
<1>19. ASSUME NEW w \in Workers, MarkNoHandler(w) PROVE RunsBounded'
  BY <1>19 DEF MarkNoHandler, BackToIdle
<1>20. ASSUME NEW w \in Workers, MarkOutboundDisabled(w) PROVE RunsBounded'
  BY <1>20 DEF MarkOutboundDisabled, BackToIdle
<1>21. ASSUME NEW w \in Workers, RescueInFlightTask(w) PROVE RunsBounded'
  BY <1>21 DEF RescueInFlightTask, Down
<1>22. ASSUME NEW w \in Workers, WorkerRestart(w) PROVE RunsBounded'
  BY <1>22 DEF WorkerRestart
<1>23. ASSUME NEW w \in Workers, FinalizeError(w) PROVE RunsBounded'
  BY <1>23 DEF FinalizeError
<1>24. ASSUME NEW w \in Workers, ProcessError(w) PROVE RunsBounded'
  BY <1>24 DEF ProcessError
<1>25. ASSUME NEW w \in Workers, WorkerShutdown(w) PROVE RunsBounded'
  BY <1>25 DEF WorkerShutdown, Down
<1>26. ASSUME NEW w \in Workers, WorkerCrash(w) PROVE RunsBounded'
  BY <1>26 DEF WorkerCrash, Down
<1>27. ASSUME NEW w \in Workers, HandlerReturns(w) PROVE RunsBounded'
  BY <1>27 DEF HandlerReturns
<1>28. ASSUME NEW w \in Workers, HandlerRaises(w) PROVE RunsBounded'
  BY <1>28 DEF HandlerRaises
<1>29. ASSUME NEW t \in Tasks, create_execution_task(t) PROVE RunsBounded'
  BY <1>29 DEF create_execution_task
<1>30. ASSUME NEW t \in Tasks, RequeueDeadLetter(t) PROVE RunsBounded'
  BY <1>30 DEF RequeueDeadLetter
<1>31. ASSUME NEW t \in Tasks, PurgeDeadLetter(t) PROVE RunsBounded'
  BY <1>31 DEF PurgeDeadLetter
<1>32. ASSUME NEW q \in Queues, RedisLoses(q) PROVE RunsBounded'
  BY <1>32 DEF RedisLoses
<1>33. CASE RouterFindsAsleep \/ RouterFindsAwake \/ UNCHANGED vars
  BY <1>33 DEF RouterFindsAsleep, RouterFindsAwake, vars
<1> QED
  BY <1>1, <1>2, <1>3, <1>4, <1>5, <1>6, <1>7, <1>8, <1>9, <1>10, <1>11, <1>12, <1>13, <1>14, <1>15, <1>16, <1>17, <1>18, <1>19, <1>20, <1>21, <1>22, <1>23, <1>24, <1>25, <1>26, <1>27, <1>28, <1>29, <1>30, <1>31, <1>32, <1>33
  DEF Next, RouterStep, WorkerStep, WorkerFault

\* Locks age with the runs and are otherwise only renewed or cleared.
LEMMA LockNotOlderStep == TypeOK /\ LockNotOlderThanRun /\ [Next]_vars => LockNotOlderThanRun'
<1> SUFFICES ASSUME TypeOK, LockNotOlderThanRun, [Next]_vars PROVE LockNotOlderThanRun'
  OBVIOUS
<1> USE ConstantsAssumption
<1> USE DEF TypeOK, LockNotOlderThanRun, Holding, rows, router, workers
<1>1. CASE RouterWake
  BY <1>1 DEF RouterWake
<1>2. CASE RouteCommit
  <2> SUFFICES ASSUME NEW w \in Workers, wpc'[w] \in Holding, lockedAge'[cur'[w]] # NULL
               PROVE  lockedAge'[cur'[w]] <= runAge'[w]
    OBVIOUS
  <2>1. wpc'[w] = wpc[w] /\ cur'[w] = cur[w] /\ runAge'[w] = runAge[w] /\ cur[w] \in Tasks
    BY <1>2 DEF RouteCommit
  <2>2. lockedAge'[cur[w]] = lockedAge[cur[w]] \/ lockedAge'[cur[w]] = NULL \/ lockedAge'[cur[w]] = 0
    BY <1>2, <2>1 DEF RouteCommit
  <2> QED
    BY <2>1, <2>2
<1>3. CASE RouterPush
  BY <1>3 DEF RouterPush, PassAfter
<1>4. CASE RetryCommit
  BY <1>4 DEF RetryCommit, PassAfter
<1>5. CASE StaleCommit
  BY <1>5 DEF StaleCommit, PassAfter
<1>6. CASE StuckCommit
  BY <1>6 DEF StuckCommit, PassAfter
<1>7. CASE RouterRestart
  BY <1>7 DEF RouterRestart
<1>8. CASE RouterError
  BY <1>8 DEF RouterError
<1>9. CASE RouterCrash
  BY <1>9 DEF RouterCrash
<1>10. CASE DisableOutbound
  BY <1>10 DEF DisableOutbound
<1>11. CASE Tick
  <2> SUFFICES ASSUME NEW w \in Workers, wpc'[w] \in Holding, lockedAge'[cur'[w]] # NULL
               PROVE  lockedAge'[cur'[w]] <= runAge'[w]
    OBVIOUS
  <2>1. wpc[w] = "running" /\ cur'[w] = cur[w] /\ runAge'[w] = runAge[w] + 1
    BY <1>11 DEF Tick, Quiet
  <2>2. cur[w] \in Tasks
    BY <2>1
  <2>3. lockedAge'[cur[w]] = OlderBy1(lockedAge[cur[w]])
    BY <1>11, <2>2 DEF Tick
  <2>4. lockedAge[cur[w]] # NULL
    BY <2>1, <2>3 DEF OlderBy1
  <2>7. lockedAge[cur[w]] \in Nat /\ runAge[w] \in Nat
    BY <2>2, <2>4
  <2>5. lockedAge'[cur[w]] \in Nat /\ lockedAge'[cur[w]] <= lockedAge[cur[w]] + 1
    <3> HIDE DEF TypeOK, LockNotOlderThanRun
    <3> QED  BY <2>3, <2>7, OlderBy1Bound
  <2>6. lockedAge[cur[w]] <= runAge[w]
    BY <2>1, <2>4
  <2> QED
    BY <2>1, <2>5, <2>6, <2>7
<1>12. ASSUME NEW p \in Passes, RouterRead(p) PROVE LockNotOlderThanRun'
  BY <1>12 DEF RouterRead
<1>13. ASSUME NEW w \in Workers, Pop(w) PROVE LockNotOlderThanRun'
  BY <1>13 DEF Pop
<1>14. ASSUME NEW w \in Workers, Claim(w) PROVE LockNotOlderThanRun'
  BY <1>14 DEF Claim, Claimable, AfterClaim
<1>15. ASSUME NEW w \in Workers, ClaimSkip(w) PROVE LockNotOlderThanRun'
  BY <1>15 DEF ClaimSkip, BackToIdle
<1>16. ASSUME NEW w \in Workers, HandlerTimesOut(w) PROVE LockNotOlderThanRun'
  <2>1. HandlerRaises(w)
    BY <1>16 DEF HandlerTimesOut
  <2> QED
    BY <2>1 DEF HandlerRaises
<1>17. ASSUME NEW w \in Workers, FinalizeTask(w) PROVE LockNotOlderThanRun'
  BY <1>17 DEF FinalizeTask, BackToIdle
<1>18. ASSUME NEW w \in Workers, FailTask(w) PROVE LockNotOlderThanRun'
  BY <1>18 DEF FailTask, BackToIdle, ScheduleRetryOrFail
<1>19. ASSUME NEW w \in Workers, MarkNoHandler(w) PROVE LockNotOlderThanRun'
  BY <1>19 DEF MarkNoHandler, BackToIdle
<1>20. ASSUME NEW w \in Workers, MarkOutboundDisabled(w) PROVE LockNotOlderThanRun'
  BY <1>20 DEF MarkOutboundDisabled, BackToIdle
<1>21. ASSUME NEW w \in Workers, RescueInFlightTask(w) PROVE LockNotOlderThanRun'
  BY <1>21 DEF RescueInFlightTask, Down
<1>22. ASSUME NEW w \in Workers, WorkerRestart(w) PROVE LockNotOlderThanRun'
  BY <1>22 DEF WorkerRestart
<1>23. ASSUME NEW w \in Workers, FinalizeError(w) PROVE LockNotOlderThanRun'
  BY <1>23 DEF FinalizeError
<1>24. ASSUME NEW w \in Workers, ProcessError(w) PROVE LockNotOlderThanRun'
  BY <1>24 DEF ProcessError
<1>25. ASSUME NEW w \in Workers, WorkerShutdown(w) PROVE LockNotOlderThanRun'
  BY <1>25 DEF WorkerShutdown, Down
<1>26. ASSUME NEW w \in Workers, WorkerCrash(w) PROVE LockNotOlderThanRun'
  BY <1>26 DEF WorkerCrash, Down
<1>27. ASSUME NEW w \in Workers, HandlerReturns(w) PROVE LockNotOlderThanRun'
  BY <1>27 DEF HandlerReturns
<1>28. ASSUME NEW w \in Workers, HandlerRaises(w) PROVE LockNotOlderThanRun'
  BY <1>28 DEF HandlerRaises
<1>29. ASSUME NEW t \in Tasks, create_execution_task(t) PROVE LockNotOlderThanRun'
  BY <1>29 DEF create_execution_task
<1>30. ASSUME NEW t \in Tasks, RequeueDeadLetter(t) PROVE LockNotOlderThanRun'
  BY <1>30 DEF RequeueDeadLetter
<1>31. ASSUME NEW t \in Tasks, PurgeDeadLetter(t) PROVE LockNotOlderThanRun'
  BY <1>31 DEF PurgeDeadLetter
<1>32. ASSUME NEW q \in Queues, RedisLoses(q) PROVE LockNotOlderThanRun'
  BY <1>32 DEF RedisLoses
<1>33. CASE RouterFindsAsleep \/ RouterFindsAwake \/ UNCHANGED vars
  BY <1>33 DEF RouterFindsAsleep, RouterFindsAwake, vars
<1> QED
  BY <1>1, <1>2, <1>3, <1>4, <1>5, <1>6, <1>7, <1>8, <1>9, <1>10, <1>11, <1>12, <1>13, <1>14, <1>15, <1>16, <1>17, <1>18, <1>19, <1>20, <1>21, <1>22, <1>23, <1>24, <1>25, <1>26, <1>27, <1>28, <1>29, <1>30, <1>31, <1>32, <1>33
  DEF Next, RouterStep, WorkerStep, WorkerFault

\* The heart of the argument: a live run's lock is younger than HandlerTimeout.
LEMMA StaleIsAbandoned ==
  TypeOK /\ RunsBounded /\ LockNotOlderThanRun => LiveClaimIsFresh
<1> SUFFICES ASSUME TypeOK, RunsBounded, LockNotOlderThanRun,
                    NEW w \in Workers, wpc[w] \in Holding, IsStale(cur[w])
             PROVE  FALSE
  BY DEF LiveClaimIsFresh
<1>1. cur[w] \in Tasks
  BY DEF TypeOK, Holding
<1>2. lockedAge[cur[w]] \in Nat /\ lockedAge[cur[w]] > StaleAge
  BY <1>1, ConstantsAssumption DEF TypeOK, IsStale
<1>3. lockedAge[cur[w]] <= runAge[w] /\ runAge[w] <= HandlerTimeout /\ runAge[w] \in Nat
  BY <1>2 DEF TypeOK, RunsBounded, LockNotOlderThanRun
<1> QED
  BY <1>2, <1>3, ConstantsAssumption, StaleExceedsTimeout

\* The read takes stale rows only, which no live run holds; while the router is
\* between read and commit nothing makes one of them claimable.
LEMMA StaleBatchStep == TypeOK /\ RunsBounded /\ LockNotOlderThanRun /\ StaleBatchAbandoned /\ [Next]_vars => StaleBatchAbandoned'
<1> SUFFICES ASSUME TypeOK, RunsBounded, LockNotOlderThanRun, StaleBatchAbandoned, [Next]_vars PROVE StaleBatchAbandoned'
  OBVIOUS
<1> USE DEF TypeOK, StaleBatchAbandoned, Holding, rows, router, workers
<1>1. CASE RouterWake
  BY <1>1 DEF RouterWake
<1>2. CASE RouteCommit
  BY <1>2 DEF RouteCommit
<1>3. CASE RouterPush
  BY <1>3 DEF RouterPush, PassAfter
<1>4. CASE RetryCommit
  BY <1>4 DEF RetryCommit, PassAfter
<1>5. CASE StaleCommit
  BY <1>5 DEF StaleCommit, PassAfter
<1>6. CASE StuckCommit
  BY <1>6 DEF StuckCommit, PassAfter
<1>7. CASE RouterRestart
  BY <1>7 DEF RouterRestart
<1>8. CASE RouterError
  BY <1>8 DEF RouterError
<1>9. CASE RouterCrash
  BY <1>9 DEF RouterCrash
<1>10. CASE DisableOutbound
  BY <1>10 DEF DisableOutbound
<1>11. CASE Tick
  BY <1>11 DEF Tick, OlderBy1, Least, Quiet
<1>12. ASSUME NEW p \in Passes, RouterRead(p) PROVE StaleBatchAbandoned'
  <2>1. CASE p # "stale"
    BY <1>12, <2>1 DEF RouterRead, CommitPc, PassAfter, Passes
  <2>2. CASE p = "stale"
    <3>1. \A t \in batch' : rpc' = "staleCommit" => IsStale(t)
      BY <1>12, <2>2 DEF RouterRead, CommitPc, PassAfter, Batches, Eligible
    <3>2. ASSUME NEW t \in Tasks, NEW w \in Workers, IsStale(t), wpc[w] \in Holding
          PROVE  cur[w] # t
      BY <3>2, StaleIsAbandoned DEF LiveClaimIsFresh
    <3> QED
      BY <1>12, <3>1, <3>2 DEF RouterRead, IsStale
  <2> QED
    BY <2>1, <2>2
<1>13. ASSUME NEW w \in Workers, Pop(w) PROVE StaleBatchAbandoned'
  BY <1>13 DEF Pop
<1>14. ASSUME NEW w \in Workers, Claim(w) PROVE StaleBatchAbandoned'
  BY <1>14 DEF Claim, Claimable, AfterClaim
<1>15. ASSUME NEW w \in Workers, ClaimSkip(w) PROVE StaleBatchAbandoned'
  BY <1>15 DEF ClaimSkip, BackToIdle
<1>16. ASSUME NEW w \in Workers, HandlerTimesOut(w) PROVE StaleBatchAbandoned'
  <2>1. HandlerRaises(w)
    BY <1>16 DEF HandlerTimesOut
  <2> QED
    BY <2>1 DEF HandlerRaises
<1>17. ASSUME NEW w \in Workers, FinalizeTask(w) PROVE StaleBatchAbandoned'
  BY <1>17 DEF FinalizeTask, BackToIdle
<1>18. ASSUME NEW w \in Workers, FailTask(w) PROVE StaleBatchAbandoned'
  BY <1>18 DEF FailTask, BackToIdle, ScheduleRetryOrFail
<1>19. ASSUME NEW w \in Workers, MarkNoHandler(w) PROVE StaleBatchAbandoned'
  BY <1>19 DEF MarkNoHandler, BackToIdle
<1>20. ASSUME NEW w \in Workers, MarkOutboundDisabled(w) PROVE StaleBatchAbandoned'
  BY <1>20 DEF MarkOutboundDisabled, BackToIdle
<1>21. ASSUME NEW w \in Workers, RescueInFlightTask(w) PROVE StaleBatchAbandoned'
  BY <1>21 DEF RescueInFlightTask, Down
<1>22. ASSUME NEW w \in Workers, WorkerRestart(w) PROVE StaleBatchAbandoned'
  BY <1>22 DEF WorkerRestart
<1>23. ASSUME NEW w \in Workers, FinalizeError(w) PROVE StaleBatchAbandoned'
  BY <1>23 DEF FinalizeError
<1>24. ASSUME NEW w \in Workers, ProcessError(w) PROVE StaleBatchAbandoned'
  BY <1>24 DEF ProcessError
<1>25. ASSUME NEW w \in Workers, WorkerShutdown(w) PROVE StaleBatchAbandoned'
  BY <1>25 DEF WorkerShutdown, Down
<1>26. ASSUME NEW w \in Workers, WorkerCrash(w) PROVE StaleBatchAbandoned'
  BY <1>26 DEF WorkerCrash, Down
<1>27. ASSUME NEW w \in Workers, HandlerReturns(w) PROVE StaleBatchAbandoned'
  BY <1>27 DEF HandlerReturns
<1>28. ASSUME NEW w \in Workers, HandlerRaises(w) PROVE StaleBatchAbandoned'
  BY <1>28 DEF HandlerRaises
<1>29. ASSUME NEW t \in Tasks, create_execution_task(t) PROVE StaleBatchAbandoned'
  BY <1>29 DEF create_execution_task
<1>30. ASSUME NEW t \in Tasks, RequeueDeadLetter(t) PROVE StaleBatchAbandoned'
  BY <1>30 DEF RequeueDeadLetter
<1>31. ASSUME NEW t \in Tasks, PurgeDeadLetter(t) PROVE StaleBatchAbandoned'
  BY <1>31 DEF PurgeDeadLetter
<1>32. ASSUME NEW q \in Queues, RedisLoses(q) PROVE StaleBatchAbandoned'
  BY <1>32 DEF RedisLoses
<1>33. CASE RouterFindsAsleep \/ RouterFindsAwake \/ UNCHANGED vars
  BY <1>33 DEF RouterFindsAsleep, RouterFindsAwake, vars
<1> QED
  BY <1>1, <1>2, <1>3, <1>4, <1>5, <1>6, <1>7, <1>8, <1>9, <1>10, <1>11, <1>12, <1>13, <1>14, <1>15, <1>16, <1>17, <1>18, <1>19, <1>20, <1>21, <1>22, <1>23, <1>24, <1>25, <1>26, <1>27, <1>28, <1>29, <1>30, <1>31, <1>32, <1>33
  DEF Next, RouterStep, WorkerStep, WorkerFault

\* Only _finalize_task writes COMPLETED, and a worker reaches it through a handler
\* that returned.
LEMMA EffectStep == TypeOK /\ EffectBeforeReturn /\ CompletedHasEffect /\ [Next]_vars => (EffectBeforeReturn /\ CompletedHasEffect)'
<1> SUFFICES ASSUME TypeOK, EffectBeforeReturn, CompletedHasEffect, [Next]_vars PROVE (EffectBeforeReturn /\ CompletedHasEffect)'
  OBVIOUS
<1> USE DEF TypeOK, EffectBeforeReturn, CompletedHasEffect, rows, router, workers
<1>1. CASE RouterWake
  BY <1>1 DEF RouterWake
<1>2. CASE RouteCommit
  BY <1>2 DEF RouteCommit
<1>3. CASE RouterPush
  BY <1>3 DEF RouterPush, PassAfter
<1>4. CASE RetryCommit
  BY <1>4 DEF RetryCommit, PassAfter
<1>5. CASE StaleCommit
  BY <1>5 DEF StaleCommit, PassAfter
<1>6. CASE StuckCommit
  BY <1>6 DEF StuckCommit, PassAfter
<1>7. CASE RouterRestart
  BY <1>7 DEF RouterRestart
<1>8. CASE RouterError
  BY <1>8 DEF RouterError
<1>9. CASE RouterCrash
  BY <1>9 DEF RouterCrash
<1>10. CASE DisableOutbound
  BY <1>10 DEF DisableOutbound
<1>11. CASE Tick
  BY <1>11 DEF Tick, OlderBy1, Least, Quiet
<1>12. ASSUME NEW p \in Passes, RouterRead(p) PROVE (EffectBeforeReturn /\ CompletedHasEffect)'
  BY <1>12 DEF RouterRead
<1>13. ASSUME NEW w \in Workers, Pop(w) PROVE (EffectBeforeReturn /\ CompletedHasEffect)'
  BY <1>13 DEF Pop
<1>14. ASSUME NEW w \in Workers, Claim(w) PROVE (EffectBeforeReturn /\ CompletedHasEffect)'
  BY <1>14 DEF Claim, Claimable, AfterClaim
<1>15. ASSUME NEW w \in Workers, ClaimSkip(w) PROVE (EffectBeforeReturn /\ CompletedHasEffect)'
  BY <1>15 DEF ClaimSkip, BackToIdle
<1>16. ASSUME NEW w \in Workers, HandlerTimesOut(w) PROVE (EffectBeforeReturn /\ CompletedHasEffect)'
  <2>1. cur[w] \in Tasks
    BY <1>16 DEF HandlerTimesOut, HandlerRaises
  <2>2. Bump(effects[cur[w]]) \in Nat \ {0}
    BY <2>1, BumpPositive
  <2>3. effects' = effects \/ effects' = [effects EXCEPT ![cur[w]] = Bump(effects[cur[w]])]
    BY <1>16, Zenon DEF HandlerTimesOut, HandlerRaises
  <2>4. \A t \in Tasks : effects[t] > 0 => effects'[t] > 0
    <3>1. CASE effects' = effects
      BY <3>1
    <3>2. CASE effects' = [effects EXCEPT ![cur[w]] = Bump(effects[cur[w]])]
      BY <2>1, <2>2, <3>2
    <3> QED
      BY <2>3, <3>1, <3>2
  <2> QED
    BY <1>16, <2>1, <2>4 DEF HandlerTimesOut, HandlerRaises
<1>17. ASSUME NEW w \in Workers, FinalizeTask(w) PROVE (EffectBeforeReturn /\ CompletedHasEffect)'
  BY <1>17 DEF FinalizeTask, BackToIdle
<1>18. ASSUME NEW w \in Workers, FailTask(w) PROVE (EffectBeforeReturn /\ CompletedHasEffect)'
  <2>1. cur[w] \in Tasks /\ state'[cur[w]] # "COMPLETED"
    BY <1>18 DEF FailTask, ScheduleRetryOrFail
  <2>2. \A t \in Tasks : t # cur[w] => state'[t] = state[t]
    BY <1>18, <2>1 DEF FailTask, ScheduleRetryOrFail
  <2>3. effects' = effects /\ \A v \in Workers : wpc'[v] = "returned" => wpc[v] = "returned" /\ cur'[v] = cur[v]
    BY <1>18 DEF FailTask, BackToIdle
  <2> QED
    BY <2>1, <2>2, <2>3
<1>19. ASSUME NEW w \in Workers, MarkNoHandler(w) PROVE (EffectBeforeReturn /\ CompletedHasEffect)'
  BY <1>19 DEF MarkNoHandler, BackToIdle
<1>20. ASSUME NEW w \in Workers, MarkOutboundDisabled(w) PROVE (EffectBeforeReturn /\ CompletedHasEffect)'
  BY <1>20 DEF MarkOutboundDisabled, BackToIdle
<1>21. ASSUME NEW w \in Workers, RescueInFlightTask(w) PROVE (EffectBeforeReturn /\ CompletedHasEffect)'
  BY <1>21 DEF RescueInFlightTask, Down
<1>22. ASSUME NEW w \in Workers, WorkerRestart(w) PROVE (EffectBeforeReturn /\ CompletedHasEffect)'
  BY <1>22 DEF WorkerRestart
<1>23. ASSUME NEW w \in Workers, FinalizeError(w) PROVE (EffectBeforeReturn /\ CompletedHasEffect)'
  BY <1>23 DEF FinalizeError
<1>24. ASSUME NEW w \in Workers, ProcessError(w) PROVE (EffectBeforeReturn /\ CompletedHasEffect)'
  BY <1>24 DEF ProcessError
<1>25. ASSUME NEW w \in Workers, WorkerShutdown(w) PROVE (EffectBeforeReturn /\ CompletedHasEffect)'
  BY <1>25 DEF WorkerShutdown, Down
<1>26. ASSUME NEW w \in Workers, WorkerCrash(w) PROVE (EffectBeforeReturn /\ CompletedHasEffect)'
  BY <1>26 DEF WorkerCrash, Down
<1>27. ASSUME NEW w \in Workers, HandlerReturns(w) PROVE (EffectBeforeReturn /\ CompletedHasEffect)'
  <2>1. cur[w] \in Tasks
    BY <1>27 DEF HandlerReturns
  <2>2. Bump(effects[cur[w]]) \in Nat \ {0}
    BY <2>1, BumpPositive
  <2>3. \A t \in Tasks : effects[t] > 0 => effects'[t] > 0
    BY <1>27, <2>1, <2>2 DEF HandlerReturns
  <2>4. effects'[cur[w]] > 0
    BY <1>27, <2>1, <2>2 DEF HandlerReturns
  <2> QED
    BY <1>27, <2>1, <2>3, <2>4 DEF HandlerReturns
<1>28. ASSUME NEW w \in Workers, HandlerRaises(w) PROVE (EffectBeforeReturn /\ CompletedHasEffect)'
  <2>1. cur[w] \in Tasks
    BY <1>28 DEF HandlerRaises
  <2>2. Bump(effects[cur[w]]) \in Nat \ {0}
    BY <2>1, BumpPositive
  <2>3. effects' = effects \/ effects' = [effects EXCEPT ![cur[w]] = Bump(effects[cur[w]])]
    BY <1>28, Zenon DEF HandlerRaises
  <2>4. \A t \in Tasks : effects[t] > 0 => effects'[t] > 0
    <3>1. CASE effects' = effects
      BY <3>1
    <3>2. CASE effects' = [effects EXCEPT ![cur[w]] = Bump(effects[cur[w]])]
      BY <2>1, <2>2, <3>2
    <3> QED
      BY <2>3, <3>1, <3>2
  <2> QED
    BY <1>28, <2>1, <2>4 DEF HandlerRaises
<1>29. ASSUME NEW t \in Tasks, create_execution_task(t) PROVE (EffectBeforeReturn /\ CompletedHasEffect)'
  BY <1>29 DEF create_execution_task
<1>30. ASSUME NEW t \in Tasks, RequeueDeadLetter(t) PROVE (EffectBeforeReturn /\ CompletedHasEffect)'
  BY <1>30 DEF RequeueDeadLetter
<1>31. ASSUME NEW t \in Tasks, PurgeDeadLetter(t) PROVE (EffectBeforeReturn /\ CompletedHasEffect)'
  BY <1>31 DEF PurgeDeadLetter
<1>32. ASSUME NEW q \in Queues, RedisLoses(q) PROVE (EffectBeforeReturn /\ CompletedHasEffect)'
  BY <1>32 DEF RedisLoses
<1>33. CASE RouterFindsAsleep \/ RouterFindsAwake \/ UNCHANGED vars
  BY <1>33 DEF RouterFindsAsleep, RouterFindsAwake, vars
<1> QED
  BY <1>1, <1>2, <1>3, <1>4, <1>5, <1>6, <1>7, <1>8, <1>9, <1>10, <1>11, <1>12, <1>13, <1>14, <1>15, <1>16, <1>17, <1>18, <1>19, <1>20, <1>21, <1>22, <1>23, <1>24, <1>25, <1>26, <1>27, <1>28, <1>29, <1>30, <1>31, <1>32, <1>33
  DEF Next, RouterStep, WorkerStep, WorkerFault

IInv == /\ TypeOK /\ NoRowStranded
        /\ RunsBounded /\ LockNotOlderThanRun /\ StaleBatchAbandoned
        /\ EffectBeforeReturn /\ CompletedHasEffect

\* The inductive invariant, put together from the step lemmas.
LEMMA IInvHolds == Spec => []IInv
<1>1. Init => IInv
  <2> SUFFICES ASSUME Init PROVE IInv
    OBVIOUS
  <2>1. TypeOK
    BY TypeOKInit
  <2> QED
    BY <2>1, ConstantsAssumption
    DEF IInv, Init, NoRowStranded, RunsBounded, LockNotOlderThanRun, Holding,
        StaleBatchAbandoned, EffectBeforeReturn, CompletedHasEffect
<1>2. IInv /\ [Next]_vars => IInv'
  BY TypeOKStep, NoRowStrandedStep, RunsBoundedStep, LockNotOlderStep, StaleBatchStep,
     EffectStep DEF IInv
<1> QED
  BY <1>1, <1>2, PTL DEF Spec

\* The columns, queues and process states of the execution engine keep their types
\* (execution_task.py, task_router.py, worker_base.py).
THEOREM TypeCorrect == Spec => []TypeOK
  BY IInvHolds, PTL DEF IInv

\* No unsettled row of execution_tasks is invisible to all recovery scans of
\* task_router.py.
THEOREM RecoverySeesEveryRow == Spec => []NoRowStranded
  BY IInvHolds, PTL DEF IInv

\* COMPLETED is written only after the handler's effect (worker_base.py
\* _finalize_task), for any number of workers, duplicate ids and faults.
THEOREM CompletedOnlyAfterEffect == Spec => []CompletedHasEffect
  BY IInvHolds, PTL DEF IInv

\* With STALE_IN_PROGRESS_MINUTES above every handler timeout, the stale scan never
\* sees a row a live worker holds (task_router.py:59).
THEOREM LiveClaimsStayFresh == Spec => []LiveClaimIsFresh
<1>1. IInv => LiveClaimIsFresh
  BY StaleIsAbandoned DEF IInv
<1> QED
  BY <1>1, IInvHolds, PTL

\* _cleanup_stale_tasks re-opens only abandoned rows, its read-to-commit gap included.
THEOREM StaleCleanupIsSafe == Spec => StaleTakesOnlyAbandoned
<1>1. IInv => (StaleCommit => \A t \in batch : \A w \in Workers : wpc[w] \in Holding => cur[w] # t)
  BY DEF IInv, StaleBatchAbandoned, StaleCommit
<1> QED
  BY <1>1, IInvHolds, PTL DEF StaleTakesOnlyAbandoned

================================================================================
