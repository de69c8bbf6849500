SPECIFICATION Spec
CONSTANTS
  Streams = {s1}
  Requests = {r1}
INVARIANT RequestsFinish
CHECK_DEADLOCK FALSE
