\* Two tasks on one queue served by two workers: one internal task with a handler
\* that the dead-letter command accepts, one outbound task without a handler.
CONSTANTS
  t1 = t1
  t2 = t2
  w1 = w1
  w2 = w2
  q1 = q1
  q2 = q2
  NoTask = NoTask
  Tasks = {t1, t2}
  Workers = {w1, w2}
  Queues = {q1}
  QueueOf <- BothOnQ1
  Serves <- TwoServeQ1
  Outbound = {t2}
  Handled = {t1}
  DeadLetterTasks = {t1}
  MaxTry = 1
  Backoff <- OneDelay
  HandlerTimeout = 1
  StuckAge = 0
  StaleAge = 2
  BatchSize = 1
  MaxFaults = 1
  MaxQueue = 2
SPECIFICATION Spec
INVARIANTS TypeOK NoRowStranded LiveClaimIsFresh CompletedHasEffect
PROPERTIES StaleTakesOnlyAbandoned
