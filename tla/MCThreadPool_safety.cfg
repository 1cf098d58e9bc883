SPECIFICATION Spec
CONSTANTS
  Producers = {p1, p2}
  Workers = {w1, w2, w3, w4}
  Tasks = {t1, t2, t3}
  NoTask = NoTask
  NoWorker = NoWorker
  Start = {w1}
  minNum = 1
  maxNum = 2
  maxTaskNum = 1
  num = 2
  priority <- EqualPriority
  TornSizes <- Tearing
  ExitCap = 2
SYMMETRY Symmetry
INVARIANTS TypeOK QueueBound PoolSizeBounds ExitNumNonNegative BusyExact ListedThreads
PROPERTY ImplementsTaskPool
CHECK_DEADLOCK FALSE
