--------------------------- MODULE TaskContract_proofs ---------------------------
(***************************************************************************)
(* The execution engine implements TaskContract: its initial states map to   *)
(* initial states of the contract and every step of the router, of a worker, *)
(* of an operator or of the environment maps to a step of it or to none.     *)
(*                                                                           *)
(* Two facts beside TaskExecution_proofs' IInv are needed: only ids of rows  *)
(* that exist move about (OnlySubmittedMove), and what a worker decided when *)
(* it claimed a task still holds when it acts on it (ClaimsAreVetted).       *)
(***************************************************************************)
EXTENDS TaskExecution_proofs

\* A row is never taken back: no step puts state to "NONE".
LEMMA RowsStay ==
  ASSUME TypeOK, [Next]_vars, NEW t \in Tasks, state[t] # "NONE"
  PROVE  state'[t] # "NONE"
<1> USE DEF TypeOK, rows, router, workers
<1>1. CASE RouterStep
  BY <1>1 DEF RouterStep, RouterWake, RouterRead, RouteCommit, RouterPush, RetryCommit,
              StaleCommit, StuckCommit, RouterRestart
<1>2. CASE \/ RouterFindsAsleep \/ RouterFindsAwake
           \/ RouterError \/ RouterCrash \/ DisableOutbound \/ Tick \/ UNCHANGED vars
  BY <1>2 DEF RouterFindsAsleep, RouterFindsAwake, RouterError, RouterCrash, DisableOutbound, Tick, vars
<1>3. ASSUME NEW u \in Tasks,
             create_execution_task(u) \/ RequeueDeadLetter(u) \/ PurgeDeadLetter(u)
      PROVE  state'[t] # "NONE"
  BY <1>3 DEF create_execution_task, RequeueDeadLetter, PurgeDeadLetter
<1>4. ASSUME NEW w \in Workers, WorkerStep(w) PROVE state'[t] # "NONE"
  <2>1. CASE Pop(w) \/ ClaimSkip(w) \/ HandlerTimesOut(w) \/ WorkerRestart(w)
    BY <2>1 DEF Pop, ClaimSkip, HandlerTimesOut, HandlerRaises, WorkerRestart
  <2>2. CASE Claim(w)
    BY <2>2 DEF Claim
  <2>3. CASE FinalizeTask(w) \/ MarkNoHandler(w) \/ MarkOutboundDisabled(w)
    BY <2>3 DEF FinalizeTask, MarkNoHandler, MarkOutboundDisabled
  <2>4. CASE FailTask(w)
    BY <2>4 DEF FailTask, ScheduleRetryOrFail
  <2>5. CASE RescueInFlightTask(w)
    BY <2>5 DEF RescueInFlightTask
  <2> QED
    BY <1>4, <2>1, <2>2, <2>3, <2>4, <2>5 DEF WorkerStep
<1>5. ASSUME NEW w \in Workers, HandlerReturns(w) \/ HandlerRaises(w) \/ WorkerFault(w)
      PROVE  state'[t] # "NONE"
  BY <1>5 DEF HandlerReturns, HandlerRaises, WorkerFault, FinalizeError, ProcessError,
              WorkerShutdown, WorkerCrash
<1>6. ASSUME NEW q \in Queues, RedisLoses(q) PROVE state'[t] # "NONE"
  BY <1>6 DEF RedisLoses
<1> QED
  BY <1>1, <1>2, <1>3, <1>4, <1>5, <1>6 DEF Next

\* What rpush and blpop do to the contents of a list.
LEMMA Pushed ==
  ASSUME NEW S, NEW s \in Seq(S), NEW e \in S, NEW i \in 1 .. Len(Append(s, e))
  PROVE  Append(s, e)[i] = e \/ (i \in 1 .. Len(s) /\ Append(s, e)[i] = s[i])
  OBVIOUS

LEMMA Popped ==
  ASSUME NEW S, NEW s \in Seq(S), s # <<>>, NEW i \in 1 .. Len(Tail(s))
  PROVE  i + 1 \in 1 .. Len(s) /\ Tail(s)[i] = s[i + 1]
  OBVIOUS

\* What the queues hold, the router reads and a worker pops is an id of a row.
LEMMA SubmittedStep == TypeOK /\ OnlySubmittedMove /\ [Next]_vars => OnlySubmittedMove'
<1> SUFFICES ASSUME TypeOK, OnlySubmittedMove, [Next]_vars PROVE OnlySubmittedMove'
  OBVIOUS
<1> DEFINE Row(t) == t \in Tasks /\ state[t] # "NONE"
<1>0. \A t \in Tasks : state[t] # "NONE" => state'[t] # "NONE"
  BY RowsStay
<1>1. /\ \A q \in Queues : \A i \in 1 .. Len(queue[q]) : Row(queue[q][i])
      /\ \A w \in Workers : cur[w] # NoTask => Row(cur[w])
      /\ \A t \in batch : Row(t)
  BY DEF OnlySubmittedMove, TypeOK
<1>2. ASSUME \A q \in Queues : \A i \in 1 .. Len(queue'[q]) : Row(queue'[q][i]),
             \A w \in Workers : cur'[w] # NoTask => Row(cur'[w]),
             \A t \in batch' : Row(t)
      PROVE  OnlySubmittedMove'
  BY <1>0, <1>2 DEF OnlySubmittedMove
<1> USE DEF rows, router, workers
<1>3. ASSUME UNCHANGED queue, UNCHANGED cur, batch' \subseteq batch PROVE OnlySubmittedMove'
  BY <1>1, <1>2, <1>3
<1>4. ASSUME UNCHANGED queue, UNCHANGED batch,
             \A w \in Workers : cur'[w] = cur[w] \/ cur'[w] = NoTask
      PROVE  OnlySubmittedMove'
  BY <1>1, <1>2, <1>4
<1>5. CASE RouterStep
  <2>1. CASE RouterWake \/ RouteCommit \/ RetryCommit \/ StaleCommit \/ StuckCommit \/ RouterRestart
    BY <1>3, <2>1 DEF RouterWake, RouteCommit, RetryCommit, StaleCommit, StuckCommit, RouterRestart
  <2>2. ASSUME NEW p \in Passes, RouterRead(p) PROVE OnlySubmittedMove'
    <3>1. Eligible(p) \subseteq {t \in Tasks : state[t] # "NONE"}
      BY DEF Eligible, Passes, RetryDue, IsStale, IsStuck
    <3>2. batch' \subseteq Eligible(p) \cup batch
      BY <2>2 DEF RouterRead, Batches
    <3> QED
      BY <1>1, <1>2, <2>2, <3>1, <3>2 DEF RouterRead
  <2>3. CASE RouterPush
    <3>1. ASSUME NEW t \in batch, batch' = batch \ {t},
                 queue' = [queue EXCEPT ![QueueOf[t]] = Append(@, t)]
          PROVE  OnlySubmittedMove'
      <4>1. t \in Tasks /\ QueueOf[t] \in Queues /\ queue[QueueOf[t]] \in Seq(Tasks)
        BY ConstantsAssumption DEF TypeOK
      <4>2. \A q \in Queues : queue'[q] = IF q = QueueOf[t] THEN Append(queue[q], t) ELSE queue[q]
        BY <3>1, <4>1 DEF TypeOK
      <4>3. \A i \in 1 .. Len(queue'[QueueOf[t]]) :
               queue'[QueueOf[t]][i] = t \/ (i \in 1 .. Len(queue[QueueOf[t]])
                                             /\ queue'[QueueOf[t]][i] = queue[QueueOf[t]][i])
        <5>1. queue'[QueueOf[t]] = Append(queue[QueueOf[t]], t)
          BY <4>1, <4>2
        <5> QED
          BY <4>1, <5>1, Pushed
      <4>4. \A q \in Queues : \A i \in 1 .. Len(queue'[q]) : Row(queue'[q][i])
        BY <1>1, <4>1, <4>2, <4>3
      <4> QED
        BY <1>1, <1>2, <2>3, <3>1, <4>4 DEF RouterPush
    <3> QED
      BY <1>3, <2>3, <3>1 DEF RouterPush
  <2> QED
    BY <1>5, <2>1, <2>2, <2>3 DEF RouterStep
<1>6. CASE \/ RouterFindsAsleep \/ RouterFindsAwake
           \/ RouterError \/ RouterCrash \/ Tick \/ UNCHANGED vars
  BY <1>3, <1>6 DEF RouterFindsAsleep, RouterFindsAwake, RouterError, RouterCrash, Tick, vars
<1>7. CASE DisableOutbound
  BY <1>1, <1>2, <1>7 DEF DisableOutbound
<1>8. ASSUME NEW t \in Tasks,
             create_execution_task(t) \/ RequeueDeadLetter(t) \/ PurgeDeadLetter(t)
      PROVE  OnlySubmittedMove'
  BY <1>3, <1>8 DEF create_execution_task, RequeueDeadLetter, PurgeDeadLetter
<1>9. ASSUME NEW w \in Workers, Pop(w) PROVE OnlySubmittedMove'
  <2>1. Serves[w] \in Queues /\ queue[Serves[w]] \in Seq(Tasks) /\ queue[Serves[w]] # <<>>
    BY <1>9, ConstantsAssumption DEF TypeOK, Pop
  <2>2. Row(Head(queue[Serves[w]]))
    <3>1. 1 \in 1 .. Len(queue[Serves[w]]) /\ Head(queue[Serves[w]]) = queue[Serves[w]][1]
      BY <2>1
    <3> QED
      BY <1>1, <2>1, <3>1
  <2>3. \A q \in Queues : queue'[q] = IF q = Serves[w] THEN Tail(queue[q]) ELSE queue[q]
    BY <1>9, <2>1 DEF Pop, TypeOK
  <2>4. \A i \in 1 .. Len(queue'[Serves[w]]) :
           i + 1 \in 1 .. Len(queue[Serves[w]]) /\ queue'[Serves[w]][i] = queue[Serves[w]][i + 1]
    <3>1. queue'[Serves[w]] = Tail(queue[Serves[w]])
      BY <2>1, <2>3
    <3>2. \A i \in 1 .. Len(Tail(queue[Serves[w]])) :
            /\ i + 1 \in 1 .. Len(queue[Serves[w]])
            /\ Tail(queue[Serves[w]])[i] = queue[Serves[w]][i + 1]
      BY <2>1, Popped
    <3> QED
      BY Zenon, <3>1, <3>2
  <2>5. \A q \in Queues : \A i \in 1 .. Len(queue'[q]) : Row(queue'[q][i])
    BY <1>1, <2>1, <2>3, <2>4
  <2>6. \A v \in Workers : cur'[v] = cur[v] \/ cur'[v] = Head(queue[Serves[w]])
    BY <1>9 DEF Pop, TypeOK
  <2> QED
    BY <1>1, <1>2, <1>9, <2>2, <2>5, <2>6 DEF Pop
<1>10. ASSUME NEW w \in Workers, WorkerStep(w), ~Pop(w) PROVE OnlySubmittedMove'
  <2>1. UNCHANGED queue /\ UNCHANGED batch
    BY <1>10 DEF WorkerStep, Claim, ClaimSkip, HandlerTimesOut, HandlerRaises, FinalizeTask, FailTask,
                 MarkNoHandler, MarkOutboundDisabled, RescueInFlightTask, WorkerRestart
  <2>2. UNCHANGED cur \/ cur' = [cur EXCEPT ![w] = NoTask]
    BY <1>10 DEF WorkerStep, Claim, ClaimSkip, HandlerTimesOut, HandlerRaises, FinalizeTask, FailTask,
                 MarkNoHandler, MarkOutboundDisabled, RescueInFlightTask, WorkerRestart, BackToIdle, Down
  <2> QED
    BY <1>4, <2>1, <2>2 DEF TypeOK
<1>11. ASSUME NEW w \in Workers, HandlerReturns(w) \/ HandlerRaises(w) \/ WorkerFault(w)
       PROVE  OnlySubmittedMove'
  BY <1>4, <1>11 DEF TypeOK, HandlerReturns, HandlerRaises, WorkerFault, FinalizeError, ProcessError,
                     WorkerShutdown, WorkerCrash, Down
<1>12. ASSUME NEW q \in Queues, RedisLoses(q) PROVE OnlySubmittedMove'
  <2>1. \A r \in Queues : queue'[r] = queue[r] \/ queue'[r] = <<>>
    BY <1>12 DEF RedisLoses, TypeOK
  <2>2. \A r \in Queues : \A i \in 1 .. Len(queue'[r]) : Row(queue'[r][i])
    BY <1>1, <2>1
  <2> QED
    BY <1>1, <1>2, <1>12, <2>2 DEF RedisLoses
<1> QED
  BY <1>5, <1>6, <1>7, <1>8, <1>9, <1>10, <1>11, <1>12 DEF Next

\* A worker acts on the verdict of its claim while it is still true.
LEMMA VettedStep == TypeOK /\ ClaimsAreVetted /\ [Next]_vars => ClaimsAreVetted'
<1> SUFFICES ASSUME TypeOK, ClaimsAreVetted, [Next]_vars PROVE ClaimsAreVetted'
  OBVIOUS
<1> USE DEF TypeOK, ClaimsAreVetted, outbound_blocked, rows, router, workers
<1>1. CASE RouterStep
  BY <1>1 DEF RouterStep, RouterWake, RouterRead, RouteCommit, RouterPush, RetryCommit,
              StaleCommit, StuckCommit, RouterRestart
<1>2. CASE \/ RouterFindsAsleep \/ RouterFindsAwake
           \/ RouterError \/ RouterCrash \/ DisableOutbound \/ Tick \/ UNCHANGED vars
  BY <1>2 DEF RouterFindsAsleep, RouterFindsAwake, RouterError, RouterCrash, DisableOutbound, Tick, vars
<1>3. ASSUME NEW t \in Tasks,
             create_execution_task(t) \/ RequeueDeadLetter(t) \/ PurgeDeadLetter(t)
      PROVE  ClaimsAreVetted'
  BY <1>3 DEF create_execution_task, RequeueDeadLetter, PurgeDeadLetter
<1>4. ASSUME NEW w \in Workers, Claim(w) PROVE ClaimsAreVetted'
  BY <1>4 DEF Claim, AfterClaim
<1>5. ASSUME NEW w \in Workers, WorkerStep(w), ~Claim(w) PROVE ClaimsAreVetted'
  <2>1. UNCHANGED outboundEnabled
    BY <1>5 DEF WorkerStep, Pop, ClaimSkip, HandlerTimesOut, HandlerRaises, FinalizeTask, FailTask,
                 MarkNoHandler, MarkOutboundDisabled, RescueInFlightTask, WorkerRestart
  <2>2. \A v \in Workers : v # w => wpc'[v] = wpc[v] /\ cur'[v] = cur[v]
    BY <1>5 DEF WorkerStep, Pop, ClaimSkip, HandlerTimesOut, HandlerRaises, FinalizeTask, FailTask,
                 MarkNoHandler, MarkOutboundDisabled, RescueInFlightTask, WorkerRestart, BackToIdle, Down
  <2>3. wpc'[w] \in {"popped", "idle", "raised", "down"}
    BY <1>5 DEF WorkerStep, Pop, ClaimSkip, HandlerTimesOut, HandlerRaises, FinalizeTask, FailTask,
                 MarkNoHandler, MarkOutboundDisabled, RescueInFlightTask, WorkerRestart, BackToIdle, Down
  <2> QED
    BY <2>1, <2>2, <2>3
<1>6. ASSUME NEW w \in Workers, HandlerReturns(w) \/ HandlerRaises(w) \/ WorkerFault(w)
       PROVE  ClaimsAreVetted'
  BY <1>6 DEF HandlerReturns, HandlerRaises, WorkerFault, FinalizeError, ProcessError,
              WorkerShutdown, WorkerCrash, Down
<1>7. ASSUME NEW q \in Queues, RedisLoses(q) PROVE ClaimsAreVetted'
  BY <1>7 DEF RedisLoses
<1> QED
  BY <1>1, <1>2, <1>3, <1>4, <1>5, <1>6, <1>7 DEF Next

-----------------------------------------------------------------------------
(* The steps, seen from outside.                                             *)

RInv == IInv /\ OnlySubmittedMove /\ ClaimsAreVetted

LEMMA RInvHolds == Spec => []RInv
<1>1. Init => OnlySubmittedMove /\ ClaimsAreVetted
  BY DEF Init, OnlySubmittedMove, ClaimsAreVetted
<1>2. IInv /\ OnlySubmittedMove /\ ClaimsAreVetted /\ [Next]_vars => (OnlySubmittedMove /\ ClaimsAreVetted)'
  BY SubmittedStep, VettedStep DEF IInv
<1> QED
  BY <1>1, <1>2, IInvHolds, PTL DEF Spec, RInv

\* A step that leaves rows, effects and the switch alone is invisible.
LEMMA Invisible ==
  ASSUME UNCHANGED <<state, tryCount, effects, outboundEnabled>>
  PROVE  UNCHANGED Contract!vars
  BY DEF Contract!vars

\* What each visible step of the engine is to its clients.
LEMMA MappedStep == RInv /\ [Next]_vars => [Contract!Next]_(Contract!vars)
<1> SUFFICES ASSUME RInv, [Next]_vars PROVE Contract!Next \/ UNCHANGED Contract!vars
  OBVIOUS
<1>a. TypeOK /\ EffectBeforeReturn /\ OnlySubmittedMove /\ ClaimsAreVetted
  BY DEF RInv, IInv
<1>b. \A w \in Workers : wpc[w] \notin {"idle", "down"} => cur[w] \in Tasks /\ state[cur[w]] # "NONE"
  BY <1>a DEF TypeOK, OnlySubmittedMove
<1>c. batch \subseteq {t \in Tasks : state[t] # "NONE"}
  BY <1>a DEF TypeOK, OnlySubmittedMove
<1> USE DEF rows, router, workers
<1>1. CASE RouterStep
  <2>1. CASE RouterWake \/ RouterPush \/ RouterRestart \/ \E p \in Passes : RouterRead(p)
    BY <2>1, Invisible DEF RouterWake, RouterPush, RouterRestart, RouterRead
  <2>2. CASE RouteCommit
    <3>1. Contract!Deliver(batch)
      BY <1>a, <1>c, <2>2
      DEF RouteCommit, outbound_blocked, TypeOK, Contract!Deliver, Contract!Submitted, StatusOf, States
    <3> QED
      BY <1>c, <3>1 DEF Contract!Next
  <2>3. CASE RetryCommit \/ StaleCommit \/ StuckCommit
    <3>1. Contract!Reopen(batch)
      BY <1>a, <1>c, <2>3
      DEF RetryCommit, StaleCommit, StuckCommit, TypeOK, Contract!Reopen, Contract!Submitted, StatusOf, States
    <3> QED
      BY <1>c, <3>1 DEF Contract!Next
  <2> QED
    BY <1>1, <2>1, <2>2, <2>3 DEF RouterStep
<1>2. CASE \/ RouterFindsAsleep \/ RouterFindsAwake
           \/ RouterError \/ RouterCrash \/ Tick \/ UNCHANGED vars
  BY <1>2, Invisible DEF RouterFindsAsleep, RouterFindsAwake, RouterError, RouterCrash, Tick, vars
<1>3. CASE DisableOutbound
  BY <1>3 DEF DisableOutbound, Contract!Next, Contract!Silence
<1>4. ASSUME NEW t \in Tasks, create_execution_task(t) PROVE Contract!Next
  <2>1. Contract!Submit(t)
    BY <1>a, <1>4 DEF create_execution_task, TypeOK, Contract!Submit, StatusOf
  <2> QED
    BY <2>1 DEF Contract!Next
<1>5. ASSUME NEW t \in Tasks, RequeueDeadLetter(t) PROVE Contract!Next
  <2> DEFINE Left(n) == IF n < MaxTry THEN MaxTry - n ELSE 0
  <2>1. /\ \A u \in Tasks : StatusOf(state'[u]) = IF u = t THEN "open" ELSE StatusOf(state[u])
        /\ \A u \in Tasks : tryCount'[u] = IF u = t THEN 0 ELSE tryCount[u]
        /\ UNCHANGED <<effects, outboundEnabled>> /\ StatusOf(state[t]) = "failed"
    BY <1>a, <1>5 DEF RequeueDeadLetter, TypeOK, StatusOf
  <2>2. Left(0) = MaxTry
    BY ConstantsAssumption
  <2>3. /\ [u \in Tasks |-> StatusOf(state'[u])]
           = [[u \in Tasks |-> StatusOf(state[u])] EXCEPT ![t] = "open"]
        /\ [u \in Tasks |-> Left(tryCount'[u])]
           = [[u \in Tasks |-> Left(tryCount[u])] EXCEPT ![t] = MaxTry]
    <3> HIDE DEF Left
    <3> QED
      BY <2>1, <2>2
  <2>4. Contract!Requeue(t)
    BY <1>5, <2>1, <2>3 DEF RequeueDeadLetter, Contract!Requeue
  <2> QED
    BY <2>4 DEF Contract!Next
<1>6. ASSUME NEW t \in Tasks, PurgeDeadLetter(t) PROVE Contract!Next
  <2>1. Contract!Purge(t)
    BY <1>a, <1>6 DEF PurgeDeadLetter, TypeOK, Contract!Purge, StatusOf
  <2> QED
    BY <2>1 DEF Contract!Next
<1>7. ASSUME NEW w \in Workers,
             Pop(w) \/ ClaimSkip(w) \/ WorkerRestart(w) \/ WorkerFault(w)
      PROVE  UNCHANGED Contract!vars
  BY <1>7, Invisible DEF Pop, ClaimSkip, WorkerRestart, WorkerFault, FinalizeError, ProcessError,
                         WorkerShutdown, WorkerCrash
<1>8. ASSUME NEW w \in Workers, Claim(w) \/ RescueInFlightTask(w) PROVE UNCHANGED Contract!vars
  <2>1. \A t \in Tasks : StatusOf(state'[t]) = StatusOf(state[t])
    BY <1>a, <1>b, <1>8 DEF Claim, Claimable, RescueInFlightTask, TypeOK, StatusOf
  <2>2. UNCHANGED <<tryCount, effects, outboundEnabled>>
    BY <1>8 DEF Claim, RescueInFlightTask
  <2> QED
    BY <2>1, <2>2 DEF Contract!vars
<1>9. ASSUME NEW w \in Workers, HandlerReturns(w) \/ HandlerRaises(w)
      PROVE  Contract!Next \/ UNCHANGED Contract!vars
  <2>1. cur[w] \in Tasks /\ state[cur[w]] # "NONE" /\ cur[w] \in Handled
        /\ ~outbound_blocked(cur[w])
    BY <1>a, <1>b, <1>9 DEF HandlerReturns, HandlerRaises, ClaimsAreVetted
  <2>2. UNCHANGED <<state, tryCount, outboundEnabled>>
    BY <1>9 DEF HandlerReturns, HandlerRaises
  <2>3. CASE UNCHANGED effects
    BY <2>2, <2>3, Invisible
  <2>4. CASE effects' = [effects EXCEPT ![cur[w]] = Bump(effects[cur[w]])]
    <3>1. Bump(effects[cur[w]]) \in Nat \ {0}
      BY <1>a, <2>1, BumpPositive DEF TypeOK
    <3>2. {t \in Tasks : effects'[t] > 0} = {t \in Tasks : effects[t] > 0} \cup {cur[w]}
      BY <1>a, <2>1, <2>4, <3>1 DEF TypeOK
    <3>3. StatusOf(state[cur[w]]) # "none"
      BY <1>a, <2>1 DEF StatusOf, TypeOK, States
    <3>4. PICK c \in Tasks : c = cur[w]
      BY <2>1
    <3>5. Contract!Perform(c)
      BY <2>1, <2>2, <3>2, <3>3, <3>4 DEF Contract!Perform, Contract!Submitted, outbound_blocked
    <3> QED
      BY <3>5 DEF Contract!Next
  <2> QED
    BY <1>9, <2>3, <2>4, Zenon DEF HandlerReturns, HandlerRaises
<1>10. ASSUME NEW w \in Workers, FinalizeTask(w) PROVE Contract!Next
  <2>1. cur[w] \in Tasks /\ state[cur[w]] # "NONE" /\ effects[cur[w]] > 0
    BY <1>a, <1>b, <1>10 DEF FinalizeTask, EffectBeforeReturn
  <2>2. Contract!Complete(cur[w])
    BY <1>a, <1>10, <2>1 DEF FinalizeTask, TypeOK, Contract!Complete, Contract!Submitted, StatusOf, States
  <2> QED
    BY <2>1, <2>2 DEF Contract!Next
<1>11. ASSUME NEW w \in Workers, MarkNoHandler(w) PROVE Contract!Next
  <2>1. cur[w] \in Tasks /\ state[cur[w]] # "NONE" /\ cur[w] \notin Handled
    BY <1>a, <1>b, <1>11 DEF MarkNoHandler, ClaimsAreVetted
  <2>2. Contract!FailUnhandled(cur[w])
    BY <1>a, <1>11, <2>1 DEF MarkNoHandler, TypeOK, Contract!FailUnhandled, Contract!Submitted, StatusOf, States
  <2> QED
    BY <2>1, <2>2 DEF Contract!Next
<1>12. ASSUME NEW w \in Workers, MarkOutboundDisabled(w) PROVE Contract!Next
  <2>1. cur[w] \in Tasks /\ state[cur[w]] # "NONE" /\ outbound_blocked(cur[w])
    BY <1>a, <1>b, <1>12 DEF MarkOutboundDisabled, ClaimsAreVetted
  <2>2. Contract!Deliver({cur[w]})
    BY <1>a, <1>12, <2>1
    DEF MarkOutboundDisabled, outbound_blocked, TypeOK, Contract!Deliver, Contract!Submitted, StatusOf, States
  <2> QED
    BY <2>1, <2>2 DEF Contract!Next
<1>13. ASSUME NEW w \in Workers, FailTask(w) PROVE Contract!Next
  <2>1. cur[w] \in Tasks /\ state[cur[w]] # "NONE" /\ tryCount[cur[w]] \in Nat
    BY <1>a, <1>b, <1>13 DEF FailTask, TypeOK
  <2> DEFINE t == cur[w]
             n == tryCount[cur[w]]
             Left(k) == IF k < MaxTry THEN MaxTry - k ELSE 0
  <2>2. /\ Left(Bump(n)) = IF Left(n) > 1 THEN Left(n) - 1 ELSE 0
        /\ n + 1 < MaxTry <=> Left(n) > 1
    BY <2>1, ConstantsAssumption DEF Bump, Least, MaxCount
  <2>3. /\ \A u \in Tasks : StatusOf(state'[u]) = IF u # t THEN StatusOf(state[u])
                                                ELSE IF n + 1 < MaxTry THEN "open" ELSE "failed"
        /\ \A u \in Tasks : tryCount'[u] = IF u = t THEN Bump(n) ELSE tryCount[u]
        /\ UNCHANGED <<effects, outboundEnabled>> /\ StatusOf(state[t]) # "none"
    <3>1. CASE n + 1 < MaxTry
      BY <1>a, <1>13, <2>1, <3>1 DEF FailTask, ScheduleRetryOrFail, TypeOK, StatusOf, States
    <3>2. CASE ~(n + 1 < MaxTry)
      BY <1>a, <1>13, <2>1, <3>2 DEF FailTask, ScheduleRetryOrFail, TypeOK, StatusOf, States
    <3> QED
      BY <3>1, <3>2
  <2>4. /\ [u \in Tasks |-> StatusOf(state'[u])]
           = [[u \in Tasks |-> StatusOf(state[u])] EXCEPT ![t] = IF Left(n) > 1 THEN "open" ELSE "failed"]
        /\ [u \in Tasks |-> Left(tryCount'[u])]
           = [[u \in Tasks |-> Left(tryCount[u])]
                EXCEPT ![t] = IF Left(n) > 1 THEN Left(n) - 1 ELSE 0]
    <3> HIDE DEF Left
    <3> QED
      BY <2>1, <2>2, <2>3
  <2>5. PICK c \in Tasks : c = t
    BY <2>1
  <2>6. Contract!FailAttempt(c)
    BY <2>1, <2>3, <2>4, <2>5 DEF Contract!FailAttempt, Contract!Submitted
  <2> QED
    BY <2>6 DEF Contract!Next
<1>14. ASSUME NEW w \in Workers, HandlerTimesOut(w) PROVE Contract!Next \/ UNCHANGED Contract!vars
  BY <1>9, <1>14 DEF HandlerTimesOut
<1>15. ASSUME NEW q \in Queues, RedisLoses(q) PROVE UNCHANGED Contract!vars
  BY <1>15, Invisible DEF RedisLoses
<1> QED
  BY <1>1, <1>2, <1>3, <1>4, <1>5, <1>6, <1>7, <1>8, <1>9, <1>10, <1>11, <1>12, <1>13, <1>14, <1>15
  DEF Next, WorkerStep

\* For any number of tasks, workers, queues and faults the execution engine
\* (task_router.py, worker_base.py) keeps the promises of TaskContract.
THEOREM EngineKeepsContract == Spec => ImplementsContract
<1>1. Init => Contract!Init
  BY ConstantsAssumption DEF Init, Contract!Init, StatusOf
<1> QED
  BY <1>1, MappedStep, RInvHolds, PTL DEF Spec, ImplementsContract, Contract!Spec

\* Once a redeploy has switched integrations off, no outbound handler has an effect
\* any more, whatever ids and rows were left over (worker_base.py _process_task).
THEOREM SwitchedOffIsSilent == Spec => OutboundStaysSilent
<1>1. RInv /\ [Next]_vars => (~outboundEnabled => \A t \in Outbound : effects'[t] = effects[t])
  <2> SUFFICES ASSUME RInv, [Next]_vars, ~outboundEnabled, NEW t \in Outbound
               PROVE  effects'[t] = effects[t]
    OBVIOUS
  <2>1. TypeOK /\ ClaimsAreVetted /\ t \in Tasks
    BY ConstantsAssumption DEF RInv, IInv
  <2>2. CASE UNCHANGED effects
    BY <2>2
  <2>3. ASSUME NEW w \in Workers, HandlerReturns(w) \/ HandlerRaises(w) \/ HandlerTimesOut(w)
        PROVE  effects'[t] = effects[t]
    <3>1. cur[w] # t
      BY <2>1, <2>3 DEF HandlerReturns, HandlerRaises, HandlerTimesOut, ClaimsAreVetted, outbound_blocked
    <3> QED
      BY <2>1, <2>3, <3>1 DEF HandlerReturns, HandlerRaises, HandlerTimesOut, TypeOK
  <2>4. UNCHANGED effects \/ \E w \in Workers : HandlerReturns(w) \/ HandlerRaises(w) \/ HandlerTimesOut(w)
    BY DEF Next, RouterStep, WorkerStep, WorkerFault, vars, RouterWake, RouterRead, RouteCommit, RouterPush,
           RetryCommit, StaleCommit, StuckCommit, RouterRestart, RouterFindsAsleep,
           RouterFindsAwake, RouterError, RouterCrash,
           create_execution_task, RequeueDeadLetter, PurgeDeadLetter, Pop, Claim, ClaimSkip, FinalizeTask,
           FailTask, MarkNoHandler, MarkOutboundDisabled, RescueInFlightTask, WorkerRestart, FinalizeError,
           ProcessError, WorkerShutdown, WorkerCrash, RedisLoses, DisableOutbound, Tick
  <2> QED
    BY <2>2, <2>3, <2>4
<1> QED
  BY <1>1, RInvHolds, PTL DEF Spec, OutboundStaysSilent
================================================================================
