SPECIFICATION Spec
CONSTANTS
  w1 = w1 w2 = w2 s1 = s1 s2 = s2 s3 = s3
  Workers = {w1, w2}
  Streams = {s1, s2, s3}
  StreamWorker <- RestartedWorker
  HeartbeatTimeout = 1
  WorkerDeadTimeout = 2
INVARIANT DeadIsUnreachable
