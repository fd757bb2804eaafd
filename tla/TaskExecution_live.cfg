\* Two workers, one outbound task, two attempts, two faults, under fairness.
CONSTANTS
  t1 = t1
  t2 = t2
  w1 = w1
  w2 = w2
  q1 = q1
  q2 = q2
  NoTask = NoTask
  Tasks = {t1}
  Workers = {w1, w2}
  Queues = {q1}
  QueueOf <- OneOnQ1
  Serves <- TwoServeQ1
  Outbound = {t1}
  Handled = {t1}
  DeadLetterTasks = {t1}
  MaxTry = 2
  Backoff <- OneDelay
  HandlerTimeout = 1
  StuckAge = 0
  StaleAge = 2
  BatchSize = 1
  MaxFaults = 2
  MaxQueue = 2
SPECIFICATION FairSpec
PROPERTIES OutboundStaysSilent EveryTaskSettles ImplementsContract
