--------------------------- MODULE PriorityQueue ----------------------------
(***************************************************************************)
(* The priorityQueue of internal/task/scheduler.go under container/heap:   *)
(* an array in heap order, with heap.Push and heap.Pop.  The loops of the  *)
(* Go library, up and down, are steps; the scheduler holds its lock over   *)
(* each call, so nobody sees the array before op is "idle" again.  Indices *)
(* start at 1 here: the children of i are 2i and 2i + 1.                   *)
(***************************************************************************)
EXTENDS Integers, Sequences, FiniteSets

CONSTANTS Tasks, Priority, CreatedAt,
          MaxLen   \* bound on the length of the queue

ASSUME HeapAssumption == /\ Priority \in [Tasks -> 0 .. 2]
                         /\ CreatedAt \in [Tasks -> Nat]

VARIABLES pq,   \* the array
          op,   \* "idle", or the loop that runs: "up" of Push, "down" of Pop
          at,   \* its variable: where the entry that moves is; 0 when idle
          bag   \* history: how many entries of each task were pushed, not popped

vars == <<pq, op, at, bag>>

Queue == INSTANCE TaskQueue WITH queue <- bag

\* A queue that serves the newest task of a priority first.
Before_NewestFirst(t, u) ==
  IF Priority[t] # Priority[u] THEN Priority[t] > Priority[u]
                               ELSE CreatedAt[t] > CreatedAt[u]

\* priorityQueue.Less, on the tasks at its two indices.
Before(t, u) ==
  IF Priority[t] # Priority[u] THEN Priority[t] > Priority[u]
                               ELSE CreatedAt[t] < CreatedAt[u]

Less(h, i, j) == Before(h[i], h[j])

\* An exchange in two statements: the second reads what the first has written.
Swap_NoTemp(h, i, j) == [h EXCEPT ![i] = h[j]]

Swap(h, i, j) == [h EXCEPT ![i] = h[j], ![j] = h[i]]

\* The smaller child of i among the first n entries, the left one in a tie.
Child(h, i, n) ==
  LET l == 2 * i IN IF l + 1 <= n /\ Less(h, l + 1, l) THEN l + 1 ELSE l

Init == /\ pq = << >>
        /\ op = "idle" /\ at = 0
        /\ bag = [t \in Tasks |-> 0]
-----------------------------------------------------------------------------
\* heap.Push(&s.queue, t) up to its loop.
Push(t) ==
  /\ op = "idle" /\ Len(pq) < MaxLen
  /\ pq' = Append(pq, t)
  /\ op' = "up" /\ at' = Len(pq) + 1
  /\ bag' = [bag EXCEPT ![t] = @ + 1]

\* One round of the loop: the entry changes places with its parent, or is there.
Up ==
  /\ op = "up"
  /\ IF at > 1 /\ Less(pq, at, at \div 2)
       THEN pq' = Swap(pq, at, at \div 2) /\ at' = at \div 2 /\ UNCHANGED op
       ELSE op' = "idle" /\ at' = 0 /\ UNCHANGED pq
  /\ UNCHANGED bag

\* heap.Pop(&s.queue) up to its loop: the root goes to the end of the array.
PopRoot ==
  /\ op = "idle" /\ pq # << >>
  /\ pq' = Swap(pq, 1, Len(pq))
  /\ op' = "down" /\ at' = 1
  /\ UNCHANGED bag

\* The loop leaves the last entry alone.
MoreDown ==
  LET n == Len(pq) - 1
  IN  2 * at <= n /\ Less(pq, Child(pq, at, n), at)

Down ==
  /\ op = "down" /\ MoreDown
  /\ LET j == Child(pq, at, Len(pq) - 1)
     IN  pq' = Swap(pq, at, j) /\ at' = j
  /\ UNCHANGED <<op, bag>>

\* priorityQueue.Pop, which cuts the last entry off and returns it.
Pop ==
  /\ op = "down" /\ ~MoreDown
  /\ pq' = SubSeq(pq, 1, Len(pq) - 1)
  /\ op' = "idle" /\ at' = 0
  /\ bag' = [bag EXCEPT ![pq[Len(pq)]] = @ - 1]

Next == Up \/ PopRoot \/ Down \/ Pop \/ \E t \in Tasks : Push(t)

Spec == Init /\ [][Next]_vars
-----------------------------------------------------------------------------
Positions(h, t) == {i \in 1 .. Len(h) : h[i] = t}

\* Between calls the array is a heap: no entry is Less than its parent.  And no
\* call loses or duplicates an entry: the array holds exactly those that were
\* pushed and not yet popped.
HeapOrder ==
  /\ op = "idle" => \A j \in 2 .. Len(pq) : ~Less(pq, j, j \div 2)
  /\ \A t \in Tasks : Cardinality(Positions(pq, t)) = bag[t]

\* Push and Pop on the array implement the bag the scheduler relies on: what
\* Pop returns is an entry of highest priority, the oldest of that priority.
ImplementsTaskQueue == Queue!QueueSpec
=============================================================================
