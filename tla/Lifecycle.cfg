SPECIFICATION FairSpec
CONSTANTS
  Streams = {s1, s2}
  Requests = {r1, r2}
INVARIANTS NoStreamCut UnreadyWhileStopping
PROPERTY StopsUnlessHeld
CHECK_DEADLOCK FALSE
