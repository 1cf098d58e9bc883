SPECIFICATION FairSpec
CONSTANTS
  Producers = {p1}
  Workers = {w1, w2, w3}
  Tasks = {t1, t2, t3}
  NoTask = NoTask
  NoWorker = NoWorker
  Start = {w1}
  minNum = 1
  maxNum = 2
  maxTaskNum = 1
  num = 1
  priority <- EqualPriority
  TornSizes <- NoTearing
  ExitCap = 1
PROPERTIES TaskProgress ProducerProgress
CHECK_DEADLOCK FALSE
