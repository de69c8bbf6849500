SPECIFICATION Spec
CONSTANTS
  Callers = {c1, c2, c3}
  NoBreaker = NoBreaker
  FailureThreshold = 3
  SuccessThreshold = 2
  MaxOutstanding = 3
INVARIANTS TypeOK SharedBreaker ClosedCountsStreak HalfOpenCountsSuccesses
