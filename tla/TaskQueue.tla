----------------------------- MODULE TaskQueue ------------------------------
(***************************************************************************)
(* What the scheduler's priority queue promises, without the heap: a bag   *)
(* of tasks from which an entry of highest priority is taken, the oldest   *)
(* of those ("Higher priority tasks are dequeued first. For equal priority,*)
(* earlier creation time wins").  The order is stated on its own, without  *)
(* priorityQueue.Less.                                                     *)
(* A task can be queued more than once, so the queue is a function from    *)
(* tasks to the number of entries.  A task is identified with its ID.      *)
(* PriorityQueue implements this specification; Scheduler builds on it.    *)
(***************************************************************************)
EXTENDS Integers

CONSTANTS Tasks,      \* task ids
          Priority,   \* Task.Priority, fixed when the task is built
          CreatedAt   \* Task.CreatedAt, likewise

ASSUME OrderAssumption == /\ Priority \in [Tasks -> 0 .. 2]
                          /\ CreatedAt \in [Tasks -> Nat]

VARIABLE queue   \* Scheduler.queue, as a bag

QueueEmpty == \A t \in Tasks : queue[t] = 0

Queued == {t \in Tasks : queue[t] > 0}

\* Popping without the test for an empty queue.
Front_NoEmptyTest == {t \in Tasks : \A u \in Queued : Priority[t] >= Priority[u]}

\* What Dequeue may return: an entry of highest priority, the oldest of those.
Front == {t \in Queued : \A u \in Queued :
            \/ Priority[t] > Priority[u]
            \/ Priority[t] = Priority[u] /\ CreatedAt[t] <= CreatedAt[u]}

\* One more entry in slice b for every task of S.
Push(b, S) == [t \in Tasks |-> IF t \in S THEN b[t] + 1 ELSE b[t]]

Put(t) == queue' = Push(queue, {t})

Take(t) == t \in Front /\ queue' = [queue EXCEPT ![t] = @ - 1]

QueueSpec == /\ queue = [t \in Tasks |-> 0]
             /\ [][\E t \in Tasks : Put(t) \/ Take(t)]_queue
=============================================================================
