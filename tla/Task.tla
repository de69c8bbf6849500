-------------------------------- MODULE Task --------------------------------
(***************************************************************************)
(* The task domain model of internal/task/task.go: the validated state     *)
(* machine and the methods of Task.  A task object is a record; a method   *)
(* is an operator from the object before the call to the object after it.  *)
(* A method that returns an error leaves the object as it was: every       *)
(* caller in the repository drops that error or only logs it.              *)
(*                                                                         *)
(* Times are kept as the comparisons the code makes with them:             *)
(*   retryDue - now.After(t.NextRetryAt), TRUE for the zero time;          *)
(*   overdue  - now.After(t.StartedAt + TimeoutSec), for a RUNNING task;   *)
(*              CheckTimeouts looks at no other, and Start restarts it.    *)
(* Transition's look at State and its write of it are taken as one step.   *)
(* Script, output, error text and exit code are not modelled.              *)
(***************************************************************************)
EXTENDS Integers

CONSTANTS Workers,     \* worker ids
          NoWorker,    \* the empty WorkerID
          MaxRetries   \* Task.MaxRetries (3 in task.New)

ASSUME WorkersAssumption == NoWorker \notin Workers
ASSUME MaxRetriesAssumption == MaxRetries \in Nat \ {0}

TaskState == {"QUEUED", "ASSIGNED", "RUNNING", "COMPLETED", "FAILED",
              "RETRYING", "DEAD"}

\* Attempt is only ever compared with MaxRetries, so it is kept up to one more.
Attempt == 0 .. MaxRetries + 1

NextAttempt(n) == IF n <= MaxRetries THEN n + 1 ELSE n

Task == [state : TaskState, attempt : Attempt, workerID : Workers \cup {NoWorker},
         retryDue : BOOLEAN, overdue : BOOLEAN]

validTransitions ==
  { <<"QUEUED", "ASSIGNED">>,
    <<"ASSIGNED", "RUNNING">>,  <<"ASSIGNED", "QUEUED">>,
    <<"RUNNING", "COMPLETED">>, <<"RUNNING", "FAILED">>,
    <<"FAILED", "RETRYING">>,   <<"FAILED", "DEAD">>,
    <<"RETRYING", "QUEUED">>,
    <<"DEAD", "QUEUED">> }

NewTask == [state |-> "QUEUED", attempt |-> 0, workerID |-> NoWorker,
            retryDue |-> TRUE, overdue |-> FALSE]

CanTransition(k, to) == <<k.state, to>> \in validTransitions

Transition(k, to) ==
  IF CanTransition(k, to) THEN [k EXCEPT !.state = to, !.overdue = FALSE] ELSE k

\* Assign and Start are called without a lock, so that others can see the task
\* between their writes: first State, if Transition allows it, then the rest.
AssignState(k) == Transition(k, "ASSIGNED")

AssignRest(k, w) == [k EXCEPT !.workerID = w, !.attempt = NextAttempt(@)]

\* Leaving the task ASSIGNED while the worker executes it.
StartState_Omitted(k, stale) == k

\* Until StartedAt is written the deadline is that of the attempt before; of a
\* task that was never started it is long past.
StartState(k, stale) ==
  IF CanTransition(k, "RUNNING") THEN [k EXCEPT !.state = "RUNNING", !.overdue = stale]
                                 ELSE k

StartRest(k) == [k EXCEPT !.overdue = FALSE]

TaskComplete(k) == Transition(k, "COMPLETED")

TaskFail(k) == Transition(k, "FAILED")

\* The retry budget compared with > instead of >=.
ScheduleRetry_OffByOne(k) ==
  IF k.attempt > MaxRetries
    THEN Transition(k, "DEAD")
    ELSE IF CanTransition(k, "RETRYING")
      THEN [k EXCEPT !.state = "RETRYING", !.retryDue = FALSE]
      ELSE k

ScheduleRetry(k) ==
  IF k.attempt >= MaxRetries
    THEN Transition(k, "DEAD")
    ELSE IF CanTransition(k, "RETRYING")
      THEN [k EXCEPT !.state = "RETRYING", !.retryDue = FALSE]
      ELSE k

TaskRequeue(k) == Transition(k, "QUEUED")

TaskRetryFromDLQ(k) ==
  IF CanTransition(k, "QUEUED")
    THEN [k EXCEPT !.state = "QUEUED", !.attempt = 0]
    ELSE k

\* The stream handler, when Send has failed, and the scheduler, when a worker
\* has gone, write State and WorkerID directly, past the transition table: the
\* one in two statements without a lock, the other in one step under mu.
Unsend(k) == [k EXCEPT !.state = "QUEUED", !.overdue = FALSE]

Disown(k) == [k EXCEPT !.workerID = NoWorker]

TakeBack(k) == [k EXCEPT !.state = "QUEUED", !.workerID = NoWorker,
                         !.overdue = FALSE]
=============================================================================
