SPECIFICATION Spec
CONSTANTS
  w1 = w1 w2 = w2 s1 = s1 s2 = s2 t1 = t1 t2 = t2 t3 = t3
  Workers = {w1}
  Streams = {s1, s2}
  Tasks = {t1}
  NoWorker = NoWorker NoTask = NoTask NoStream = NoStream
  StreamWorker <- RestartedWorker
  Priority <- AllNormal
  CreatedAt <- SameInstant
  Flaky = {s1, s2}
  SlowTasks = {t1}
  Operated = {}
  MaxRetries = 2
  MaxDLQRetries = 1
  FailureThreshold = 1
  SuccessThreshold = 1
INVARIANTS NoLostWakeup StateMatchesPlace NoTaskLost
PROPERTY ImplementsAtLeastOnce
CHECK_DEADLOCK FALSE
