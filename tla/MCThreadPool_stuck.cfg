SPECIFICATION FairSpec
CONSTANTS
  Producers = {p1}
  Workers = {w1, w2, w3, w4}
  Tasks = {t1, t2, t3}
  NoTask = NoTask
  NoWorker = NoWorker
  Start = {w1, w2, w3}
  minNum = 1
  maxNum = 3
  maxTaskNum = 1
  num = 2
  priority <- EqualPriority
  TornSizes <- NoTearing
  ExitCap = 2
PROPERTY BlockedProducerResumes
CHECK_DEADLOCK FALSE
