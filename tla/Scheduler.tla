----------------------------- MODULE Scheduler ------------------------------
(***************************************************************************)
(* The Scheduler of internal/task/scheduler.go.  Every method runs under   *)
(* Scheduler.mu and is one step.  The handlers write to tasks without that *)
(* lock, also while a method runs: such a write can be moved before or     *)
(* after the method, but for the cases in section 2 of the README; the one *)
(* that a failed Send leads to is the parameter of CheckTimeouts.          *)
(*                                                                         *)
(* The containers hold pointers to the same Task objects, so one task can  *)
(* be in several of them, and in the slices several times: like queue, the *)
(* others are functions from tasks to the number of entries.               *)
(*                                                                         *)
(* completed is the set of tasks Complete has ever appended: trimming the  *)
(* slice to the last maxCompleted entries, the lifetime counters and the   *)
(* read-only methods (Stats, AllTasks, InFlightTasks) are left out.        *)
(***************************************************************************)
EXTENDS Task, TaskQueue

VARIABLES
  task,        \* the Task objects
  submitted,   \* tasks handed to NodeServer.enqueue so far
  retryQueue,  \* Scheduler.retryQueue
  deadLetter,  \* Scheduler.deadLetter
  inFlight,    \* Scheduler.inFlight
  completed,   \* Scheduler.completed
  notify       \* the one-slot channel Scheduler.notify holds a signal

schedVars == <<task, submitted, queue, retryQueue, deadLetter, inFlight,
               completed, notify>>

SchedTypeOK ==
  /\ task \in [Tasks -> Task]
  /\ submitted \in SUBSET Tasks
  /\ queue \in [Tasks -> Nat]
  /\ retryQueue \in [Tasks -> Nat]
  /\ deadLetter \in [Tasks -> Nat]
  /\ inFlight \in SUBSET Tasks
  /\ completed \in SUBSET Tasks
  /\ notify \in BOOLEAN

NewScheduler ==
  /\ task = [t \in Tasks |-> NewTask]
  /\ submitted = {}
  /\ queue = [t \in Tasks |-> 0]
  /\ retryQueue = [t \in Tasks |-> 0]
  /\ deadLetter = [t \in Tasks |-> 0]
  /\ inFlight = {}
  /\ completed = {}
  /\ notify = FALSE

Enqueue(t) ==
  /\ Put(t)
  /\ notify' = TRUE

\* Dequeue without the re-arm: one signal, one task.
Dequeue_NoRearm(t) ==
  /\ Take(t)
  /\ inFlight' = inFlight \cup {t}
  /\ UNCHANGED <<task, submitted, retryQueue, deadLetter, completed, notify>>

\* The case of a non-empty queue; the other returns nil and changes nothing.
Dequeue(t) ==
  /\ Take(t)
  /\ inFlight' = inFlight \cup {t}
  /\ notify' = (notify \/ \E u \in Tasks : queue'[u] > 0)
  /\ UNCHANGED <<task, submitted, retryQueue, deadLetter, completed>>

Notify == notify' = TRUE

\* A report for a task that is not in flight changes nothing.
Complete(t) ==
  /\ IF t \in inFlight
       THEN /\ inFlight' = inFlight \ {t}
            /\ task' = [task EXCEPT ![t] = TaskComplete(@)]
            /\ completed' = completed \cup {t}
       ELSE UNCHANGED <<inFlight, task, completed>>
  /\ UNCHANGED <<submitted, queue, retryQueue, deadLetter, notify>>

\* Dead tasks leave inFlight but are not appended to the dead letter queue.
FailAndSchedule_DropDead(k, S) ==
  LET failed == [t \in Tasks |-> IF t \in S THEN ScheduleRetry(TaskFail(k[t]))
                                            ELSE k[t]]
      dead   == {t \in S : failed[t].state = "DEAD"}
  IN  /\ task' = failed
      /\ inFlight' = inFlight \ S
      /\ retryQueue' = Push(retryQueue, S \ dead)
      /\ UNCHANGED <<submitted, queue, deadLetter, completed, notify>>

\* Shared by Fail and CheckTimeouts: the tasks of S leave inFlight for the
\* dead letter queue or, whatever their state is, for the retry queue.  k is
\* the tasks as t.Fail finds them.
FailAndSchedule(k, S) ==
  LET failed == [t \in Tasks |-> IF t \in S THEN ScheduleRetry(TaskFail(k[t]))
                                            ELSE k[t]]
      dead   == {t \in S : failed[t].state = "DEAD"}
  IN  /\ task' = failed
      /\ inFlight' = inFlight \ S
      /\ deadLetter' = Push(deadLetter, dead)
      /\ retryQueue' = Push(retryQueue, S \ dead)
      /\ UNCHANGED <<submitted, queue, completed, notify>>

Fail(t) == FailAndSchedule(task, {t} \cap inFlight)

\* A worker's tasks are reset and leave inFlight, but go to no queue.
RequeueFromWorker_NoPush(w) ==
  LET lost == {t \in inFlight : task[t].workerID = w}
  IN  /\ inFlight' = inFlight \ lost
      /\ task' = [t \in Tasks |-> IF t \in lost THEN TakeBack(task[t]) ELSE task[t]]
      /\ UNCHANGED <<queue, notify, submitted, retryQueue, deadLetter, completed>>

RequeueFromWorker(w) ==
  LET lost == {t \in inFlight : task[t].workerID = w}
  IN  /\ inFlight' = inFlight \ lost
      /\ task' = [t \in Tasks |-> IF t \in lost THEN TakeBack(task[t]) ELSE task[t]]
      /\ queue' = Push(queue, lost)
      /\ notify' = (notify \/ lost # {})
      /\ UNCHANGED <<submitted, retryQueue, deadLetter, completed>>

Ready == {t \in Tasks : retryQueue[t] > 0 /\ task[t].retryDue}

\* A retry loop that forgets to drop the entries it has moved.
ProcessRetries_KeepEntry ==
  /\ Ready # {}
  /\ task' = [t \in Tasks |-> IF t \in Ready THEN TaskRequeue(task[t]) ELSE task[t]]
  /\ queue' = [t \in Tasks |-> IF t \in Ready THEN queue[t] + retryQueue[t]
                                              ELSE queue[t]]
  /\ notify' = TRUE
  /\ UNCHANGED <<submitted, retryQueue, deadLetter, inFlight, completed>>

\* With nothing ready the call changes nothing.
ProcessRetries ==
  /\ Ready # {}
  /\ task' = [t \in Tasks |-> IF t \in Ready THEN TaskRequeue(task[t]) ELSE task[t]]
  /\ queue' = [t \in Tasks |-> IF t \in Ready THEN queue[t] + retryQueue[t]
                                              ELSE queue[t]]
  /\ retryQueue' = [t \in Tasks |-> IF t \in Ready THEN 0 ELSE retryQueue[t]]
  /\ notify' = TRUE
  /\ UNCHANGED <<submitted, deadLetter, inFlight, completed>>

TimedOut == {t \in inFlight : task[t].state = "RUNNING" /\ task[t].overdue}

\* CheckTimeouts first looks at all tasks and then fails those it has found;
\* what handlers write in between is in k.
CheckTimeouts(k) == /\ TimedOut # {}
                    /\ FailAndSchedule(k, TimedOut)

\* The case of a task found in the dead letter queue.
RetryFromDLQ(t) ==
  /\ deadLetter[t] > 0
  /\ deadLetter' = [deadLetter EXCEPT ![t] = @ - 1]
  /\ task' = [task EXCEPT ![t] = TaskRetryFromDLQ(@)]
  /\ Enqueue(t)
  /\ UNCHANGED <<submitted, retryQueue, inFlight, completed>>
-----------------------------------------------------------------------------
(* The passing of time, as far as the scheduler looks at the clock. *)

RetryComesDue(t) ==
  /\ retryQueue[t] > 0 /\ ~task[t].retryDue
  /\ task' = [task EXCEPT ![t].retryDue = TRUE]
  /\ UNCHANGED <<submitted, queue, retryQueue, deadLetter, inFlight, completed,
                 notify>>

TaskOverruns(t) ==
  /\ task[t].state = "RUNNING" /\ ~task[t].overdue
  /\ task' = [task EXCEPT ![t].overdue = TRUE]
  /\ UNCHANGED <<submitted, queue, retryQueue, deadLetter, inFlight, completed,
                 notify>>
=============================================================================
