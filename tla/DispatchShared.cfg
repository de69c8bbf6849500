SPECIFICATION Spec
CONSTANTS
  w1 = w1 w2 = w2 s1 = s1 s2 = s2 t1 = t1 t2 = t2 t3 = t3
  Workers = {w1,w2}
  Streams = {s1, s2}
  Tasks = {t1, t2, t3}
  NoWorker = NoWorker NoTask = NoTask NoStream = NoStream
  StreamWorker <- OneStreamEach
  Priority <- HighAndNormal
  CreatedAt <- SameInstant
  Flaky = {}
  SlowTasks = {}
  Operated = {w2}
  MaxRetries = 1
  MaxDLQRetries = 0
  FailureThreshold = 1
  SuccessThreshold = 1
INVARIANTS TypeOK NoLostWakeup
CHECK_DEADLOCK FALSE
