SPECIFICATION FairSpec
CONSTANTS
  MaxConcurrentTasks = 2
  Window = 2
  Assignments = 7
  Endless = {2, 5}
  Breakable = TRUE
INVARIANTS Capacity BackPressure DrainWaits
PROPERTY AssignmentsServed
PROPERTY ProcessExits
CHECK_DEADLOCK FALSE
