--------------------------- MODULE DispatchProofs ---------------------------
(***************************************************************************)
(* Dispatch for any number of tasks, workers and streams: its types, the   *)
(* wakeup, the places of tasks; that it implements AtLeastOnce; what holds  *)
(* of a task that was never taken back; and the retry budget.              *)
(***************************************************************************)
EXTENDS Dispatch, CircuitBreakerProofs

(* What the methods of Task do to a task object, for every object. *)

\* The capped attempt counter: 0 is in its range, and counting keeps it there.
LEMMA AttemptFacts == /\ 0 \in Attempt
                      /\ \A n \in Attempt : NextAttempt(n) \in Attempt
                      /\ \A n \in Attempt : n \in Int
  BY MaxRetriesAssumption DEF NextAttempt, Attempt

\* No method of task.go, nor a direct write of State and WorkerID, leaves the
\* set of well-formed tasks.
LEMMA TaskMethodsType ==
  ASSUME NEW k \in Task
  PROVE  /\ AssignState(k) \in Task
         /\ \A w \in Workers : AssignRest(k, w) \in Task
         /\ \A stale \in BOOLEAN : StartState(k, stale) \in Task
         /\ StartRest(k) \in Task
         /\ TaskComplete(k) \in Task
         /\ TaskFail(k) \in Task
         /\ ScheduleRetry(k) \in Task
         /\ TaskRequeue(k) \in Task
         /\ TaskRetryFromDLQ(k) \in Task
         /\ Unsend(k) \in Task /\ Disown(k) \in Task /\ TakeBack(k) \in Task
<1>1. \A to \in TaskState : Transition(k, to) \in Task
  BY DEF Transition, Task
<1>2. \A w \in Workers : AssignRest(k, w) \in Task
  BY AttemptFacts DEF AssignRest, Task
<1>3. TaskRetryFromDLQ(k) \in Task
  BY AttemptFacts DEF TaskRetryFromDLQ, Task, TaskState
<1>4. Unsend(k) \in Task /\ Disown(k) \in Task /\ TakeBack(k) \in Task
  BY DEF Unsend, Disown, TakeBack, Task, TaskState
<1>5. ScheduleRetry(k) \in Task
  BY <1>1 DEF ScheduleRetry, Task, TaskState
<1>6. /\ \A stale \in BOOLEAN : StartState(k, stale) \in Task
      /\ StartRest(k) \in Task
  BY DEF StartState, StartRest, Task, TaskState
<1> QED
  BY <1>1, <1>2, <1>3, <1>4, <1>5, <1>6
     DEF AssignState, TaskComplete, TaskFail, TaskRequeue, TaskState

\* Fail followed by ScheduleRetry, the way Scheduler.Fail and CheckTimeouts
\* call them: a RUNNING task ends RETRYING or DEAD, according to its budget, and
\* a task in a state other than RUNNING and FAILED stays as it is.
LEMMA FailThenSchedule ==
  ASSUME NEW k \in Task, k.state # "FAILED"
  PROVE  /\ ScheduleRetry(TaskFail(k)) \in Task
         /\ k.state = "RUNNING" =>
              /\ ScheduleRetry(TaskFail(k)).state =
                   IF k.attempt >= MaxRetries THEN "DEAD" ELSE "RETRYING"
              /\ ScheduleRetry(TaskFail(k)).attempt = k.attempt
         /\ k.state # "RUNNING" => ScheduleRetry(TaskFail(k)) = k
<1>1. CASE k.state = "RUNNING"
  <2> DEFINE f == [k EXCEPT !.state = "FAILED", !.overdue = FALSE]
  <2>1. TaskFail(k) = f
    BY <1>1 DEF TaskFail, Transition, CanTransition, validTransitions
  <2>2. f \in Task /\ f.state = "FAILED" /\ f.attempt = k.attempt
    BY DEF Task, TaskState
  <2>3. CanTransition(f, "DEAD") /\ CanTransition(f, "RETRYING")
    BY <2>2 DEF CanTransition, validTransitions
  <2> HIDE DEF f
  <2>4. CASE k.attempt >= MaxRetries
    <3>1. ScheduleRetry(f) = [f EXCEPT !.state = "DEAD", !.overdue = FALSE]
      BY <2>2, <2>3, <2>4 DEF ScheduleRetry, Transition
    <3> QED
      BY <1>1, <2>1, <2>2, <2>4, <3>1 DEF Task, TaskState
  <2>5. CASE ~(k.attempt >= MaxRetries)
    <3>1. ScheduleRetry(f) = [f EXCEPT !.state = "RETRYING", !.retryDue = FALSE]
      BY <2>2, <2>3, <2>5 DEF ScheduleRetry
    <3> QED
      BY <1>1, <2>1, <2>2, <2>5, <3>1 DEF Task, TaskState
  <2> QED
    BY <2>4, <2>5
<1>2. CASE k.state # "RUNNING"
  <2>1. TaskFail(k) = k
    BY <1>2 DEF TaskFail, Transition, CanTransition, validTransitions
  <2>2. ~CanTransition(k, "DEAD") /\ ~CanTransition(k, "RETRYING")
    BY DEF CanTransition, validTransitions
  <2>3. ScheduleRetry(k) = k
    BY <2>2 DEF ScheduleRetry, Transition
  <2> QED
    BY <1>2, <2>1, <2>3
<1> QED
  BY <1>1, <1>2

\* Where each method can lead, as far as the scheduler's invariants ask.
LEMMA TaskMethodsState ==
  ASSUME NEW k \in Task
  PROVE  /\ k.state = "QUEUED" => AssignState(k).state = "ASSIGNED"
         /\ k.state # "QUEUED" => AssignState(k) = k
         /\ \A w \in Workers : AssignRest(k, w).state = k.state
         /\ \A stale \in BOOLEAN :
              /\ k.state = "ASSIGNED" => StartState(k, stale).state = "RUNNING"
              /\ k.state # "ASSIGNED" => StartState(k, stale) = k
         /\ StartRest(k).state = k.state
         /\ k.state = "RUNNING" => TaskComplete(k).state = "COMPLETED"
         /\ k.state # "RUNNING" => TaskComplete(k) = k
         /\ TaskComplete(k).attempt = k.attempt
         /\ k.state \in {"RETRYING", "DEAD", "ASSIGNED"} =>
              TaskRequeue(k).state = "QUEUED" /\ TaskRetryFromDLQ(k).state = "QUEUED"
         /\ k.state \notin {"RETRYING", "DEAD", "ASSIGNED"} =>
              TaskRequeue(k) = k /\ TaskRetryFromDLQ(k) = k
         /\ Unsend(k).state = "QUEUED" /\ Disown(k).state = k.state
         /\ TakeBack(k).state = "QUEUED"
<1> USE DEF CanTransition, validTransitions, Transition, Task
<1>1. /\ k.state = "QUEUED" => AssignState(k).state = "ASSIGNED"
      /\ k.state # "QUEUED" => AssignState(k) = k
      /\ \A w \in Workers : AssignRest(k, w).state = k.state
  BY DEF AssignState, AssignRest
<1>2. /\ \A stale \in BOOLEAN :
           /\ k.state = "ASSIGNED" => StartState(k, stale).state = "RUNNING"
           /\ k.state # "ASSIGNED" => StartState(k, stale) = k
      /\ StartRest(k).state = k.state
  BY DEF StartState, StartRest
<1>3. /\ k.state = "RUNNING" => TaskComplete(k).state = "COMPLETED"
      /\ k.state # "RUNNING" => TaskComplete(k) = k
      /\ TaskComplete(k).attempt = k.attempt
  BY DEF TaskComplete
<1>4. k.state \in {"RETRYING", "DEAD", "ASSIGNED"} =>
        TaskRequeue(k).state = "QUEUED" /\ TaskRetryFromDLQ(k).state = "QUEUED"
  BY DEF TaskRequeue, TaskRetryFromDLQ
<1>5. k.state \notin {"RETRYING", "DEAD", "ASSIGNED"} =>
        TaskRequeue(k) = k /\ TaskRetryFromDLQ(k) = k
  BY DEF TaskRequeue, TaskRetryFromDLQ
<1>6. /\ Unsend(k).state = "QUEUED" /\ Disown(k).state = k.state
      /\ TakeBack(k).state = "QUEUED"
  BY DEF Unsend, Disown, TakeBack
<1> QED
  BY <1>1, <1>2, <1>3, <1>4, <1>5, <1>6
-----------------------------------------------------------------------------
(* The types. *)

TypeInv == TypeOK /\ \A w \in Workers : Sane(cb[w])

\* What Push returns: one more entry for the tasks of S, the others as they were.
LEMMA PushType ==
  ASSUME NEW q \in [Tasks -> Nat], NEW S
  PROVE  /\ Push(q, S) \in [Tasks -> Nat]
         /\ \A t \in Tasks : Push(q, S)[t] >= q[t]
         /\ \A t \in Tasks : t \in S => Push(q, S)[t] > 0
         /\ \A t \in Tasks : t \notin S => Push(q, S)[t] = q[t]
  BY DEF Push

\* Counting one execution of a worker up or down keeps the type of exec.
LEMMA ExecUpdate ==
  ASSUME NEW e \in [Workers -> [Tasks -> Nat]],
         NEW w \in Workers, NEW t \in Tasks, NEW n \in Nat
  PROVE  [e EXCEPT ![w][t] = n] \in [Workers -> [Tasks -> Nat]]
<1>1. [e[w] EXCEPT ![t] = n] \in [Tasks -> Nat]
  OBVIOUS
<1> QED
  BY <1>1

\* The master starts with well-typed state and sane breakers.
LEMMA TypeInit == Init => TypeInv
<1> SUFFICES ASSUME Init PROVE TypeInv
  OBVIOUS
<1>1. NewTask \in Task
  BY AttemptFacts DEF NewTask, Task, TaskState
<1>2. SchedTypeOK
  BY <1>1 DEF Init, NewScheduler, SchedTypeOK
<1>3. \A w \in Workers : cb[w] \in Breaker /\ Sane(cb[w])
  BY NewBreakerSane DEF Init, Sane
<1>4. cb \in [Workers -> Breaker]
  BY NewBreakerSane DEF Init, Sane
<1> QED
  BY <1>2, <1>3, <1>4 DEF Init, TypeInv, TypeOK, PC, Holding

\* TaskMethodsType for the tasks of the scheduler.
LEMMA TypedTask ==
  ASSUME task \in [Tasks -> Task], NEW t \in Tasks
  PROVE  /\ task[t] \in Task
         /\ TaskComplete(task[t]) \in Task
         /\ ScheduleRetry(TaskFail(task[t])) \in Task
         /\ TaskRequeue(task[t]) \in Task
         /\ TaskRetryFromDLQ(task[t]) \in Task
         /\ Unsend(task[t]) \in Task /\ Disown(task[t]) \in Task
         /\ TakeBack(task[t]) \in Task
         /\ AssignState(task[t]) \in Task
         /\ \A w \in Workers : AssignRest(task[t], w) \in Task
         /\ \A stale \in BOOLEAN : StartState(task[t], stale) \in Task
         /\ StartRest(task[t]) \in Task
  BY TaskMethodsType

\* The scheduler's methods keep its variables in their types.
LEMMA SchedulerType ==
  ASSUME SchedTypeOK,
         \/ \E t \in Tasks : \/ Dequeue(t) \/ Complete(t) \/ Fail(t)
                             \/ RetryFromDLQ(t)
                             \/ RetryComesDue(t) \/ TaskOverruns(t)
         \/ \E w \in Workers : RequeueFromWorker(w)
         \/ ProcessRetries
         \/ \E k \in [Tasks -> Task] : CheckTimeouts(k)
  PROVE  SchedTypeOK'
<1> USE DEF SchedTypeOK
<1>1. ASSUME NEW t \in Tasks, Dequeue(t) PROVE SchedTypeOK'
  BY <1>1 DEF Dequeue, Take, Front, Queued
<1>2. ASSUME NEW t \in Tasks, Complete(t) PROVE SchedTypeOK'
  <2>1. TaskComplete(task[t]) \in Task
    BY TypedTask
  <2> QED
    BY <1>2, <2>1 DEF Complete
<1>3. ASSUME NEW k \in [Tasks -> Task], NEW S, FailAndSchedule(k, S)
      PROVE  SchedTypeOK'
  <2>1. \A t \in Tasks : k[t] \in Task /\ ScheduleRetry(TaskFail(k[t])) \in Task
    BY TaskMethodsType
  <2>2. task' \in [Tasks -> Task]
    BY <1>3, <2>1 DEF FailAndSchedule
  <2>3. deadLetter' \in [Tasks -> Nat] /\ retryQueue' \in [Tasks -> Nat]
    BY <1>3, PushType DEF FailAndSchedule
  <2> QED
    BY <1>3, <2>2, <2>3 DEF FailAndSchedule
<1>4. ASSUME NEW t \in Tasks, RetryFromDLQ(t) PROVE SchedTypeOK'
  <2>1. TaskRetryFromDLQ(task[t]) \in Task
    BY TypedTask
  <2>2. queue' \in [Tasks -> Nat]
    BY <1>4, PushType DEF RetryFromDLQ, Enqueue, Put
  <2>3. deadLetter' \in [Tasks -> Nat]
    BY <1>4 DEF RetryFromDLQ
  <2>4. task' \in [Tasks -> Task]
    BY <1>4, <2>1 DEF RetryFromDLQ
  <2>5. notify' \in BOOLEAN
    BY <1>4 DEF RetryFromDLQ, Enqueue
  <2> QED
    BY <1>4, <2>2, <2>3, <2>4, <2>5 DEF RetryFromDLQ
<1>5. ASSUME NEW t \in Tasks, RetryComesDue(t) PROVE SchedTypeOK'
  BY <1>5 DEF RetryComesDue, Task
<1>6. ASSUME NEW t \in Tasks, TaskOverruns(t) PROVE SchedTypeOK'
  BY <1>6 DEF TaskOverruns, Task
<1>7. ASSUME NEW w \in Workers, RequeueFromWorker(w) PROVE SchedTypeOK'
  <2>1. \A t \in Tasks : TakeBack(task[t]) \in Task
    BY TypedTask
  <2>2. task' \in [Tasks -> Task]
    BY <1>7, <2>1 DEF RequeueFromWorker
  <2>3. queue' \in [Tasks -> Nat]
    BY <1>7, PushType DEF RequeueFromWorker
  <2> QED
    BY <1>7, <2>2, <2>3 DEF RequeueFromWorker
<1>8. ASSUME ProcessRetries PROVE SchedTypeOK'
  <2>1. \A t \in Tasks : TaskRequeue(task[t]) \in Task
    BY TypedTask
  <2>2. task' \in [Tasks -> Task]
    BY <1>8, <2>1 DEF ProcessRetries
  <2>3. queue' \in [Tasks -> Nat] /\ retryQueue' \in [Tasks -> Nat]
    BY <1>8 DEF ProcessRetries
  <2> QED
    BY <1>8, <2>2, <2>3 DEF ProcessRetries
<1> QED
  BY <1>1, <1>2, <1>3, <1>4, <1>5, <1>6, <1>7, <1>8 DEF Fail, CheckTimeouts

\* The steps in which a handler writes to the task it holds.
WriterStep(s) == \/ Assign(s) \/ RecordAssign(s) \/ Start(s) \/ RecordStart(s)
                 \/ SendFail(s) \/ ClearWorker(s)

WriterLabels == {"assigned", "start", "started", "send", "unsent", "unowned"}

\* Each of them writes a task and goes on to the next label.
LEMMA WriterWrites ==
  ASSUME task \in [Tasks -> Task], NEW s \in Streams, held[s] \in Tasks,
         WriterStep(s)
  PROVE  \E k \in Task, l \in WriterLabels : WriteTask(s, k, l)
<1>0. StreamWorker[s] \in Workers
  BY StreamsAssumption
<1>1. CASE Assign(s)
  BY <1>1, TypedTask DEF Assign, WriterLabels
<1>2. CASE RecordAssign(s)
  BY <1>0, <1>2, TypedTask DEF RecordAssign, WriterLabels
<1>3. CASE Start(s)
  BY <1>3, TypedTask DEF Start, WriterLabels
<1>4. CASE RecordStart(s)
  BY <1>4, TypedTask DEF RecordStart, WriterLabels
<1>5. CASE SendFail(s) \/ ClearWorker(s)
  BY <1>5, TypedTask DEF SendFail, ClearWorker, WriterLabels
<1> QED
  BY <1>1, <1>2, <1>3, <1>4, <1>5 DEF WriterStep

\* What CheckTimeouts works on: the tasks, some of which the handlers of R, whose
\* Send has failed, have written to since it looked at them.
LEMMA TimeoutWrites ==
  ASSUME task \in [Tasks -> Task], TimeoutTick
  PROVE  \E k \in [Tasks -> Task], R \in SUBSET Streams :
           /\ CheckTimeouts(k)
           /\ \A s \in R : pc[s] = "send" /\ held[s] \in TimedOut
           /\ pc' = [s \in Streams |-> IF s \in R THEN "unsent" ELSE pc[s]]
           /\ \A t \in Tasks : \/ k[t] = task[t] /\ \A s \in R : held[s] # t
                               \/ k[t] = Unsend(task[t]) /\ \E s \in R : held[s] = t
<1>1. PICK R \in SUBSET {s \in Streams : /\ pc[s] = "send" /\ conn[s] = "broken"
                                         /\ held[s] \in TimedOut} :
        /\ CheckTimeouts([t \in Tasks |-> IF \E s \in R : held[s] = t
                                            THEN Unsend(task[t]) ELSE task[t]])
        /\ pc' = [s \in Streams |-> IF s \in R THEN "unsent" ELSE pc[s]]
  BY DEF TimeoutTick
<1> DEFINE k == [t \in Tasks |-> IF \E s \in R : held[s] = t
                                   THEN Unsend(task[t]) ELSE task[t]]
<1>2. k \in [Tasks -> Task]
  BY TypedTask
<1>3. \A t \in Tasks : k[t] = IF \E s \in R : held[s] = t
                              THEN Unsend(task[t]) ELSE task[t]
  OBVIOUS
<1>4. CheckTimeouts(k)
  BY <1>1
<1> HIDE DEF k
<1>5. \A t \in Tasks : \/ k[t] = task[t] /\ \A s \in R : held[s] # t
                       \/ k[t] = Unsend(task[t]) /\ \E s \in R : held[s] = t
  BY <1>3
<1> QED
  BY <1>1, <1>2, <1>4, <1>5

\* Every step keeps the types and leaves the breakers sane.
LEMMA TypeNext == TypeInv /\ [Next]_vars => TypeInv'
<1> SUFFICES ASSUME TypeInv, [Next]_vars PROVE TypeInv'
  OBVIOUS
<1>0. /\ SchedTypeOK
      /\ pc \in [Streams -> PC]
      /\ held \in [Streams -> Tasks \cup {NoTask}]
      /\ \A s \in Streams : Holding(s) => held[s] \in Tasks
      /\ conn \in [Streams -> {"open", "cancelled", "broken"}]
      /\ workerStreams \in [Workers -> Streams \cup {NoStream}]
      /\ exec \in [Workers -> [Tasks -> Nat]]
      /\ cb \in [Workers -> Breaker]
      /\ dlqRetries \in Nat /\ recalled \in SUBSET Tasks
      /\ \A w \in Workers : Sane(cb[w])
  BY DEF TypeInv, TypeOK
<1>a. ASSUME SchedTypeOK',
             pc' \in [Streams -> PC], held' \in [Streams -> Tasks \cup {NoTask}],
             \A s \in Streams : Holding(s)' => held'[s] \in Tasks,
             conn' \in [Streams -> {"open", "cancelled", "broken"}],
             workerStreams' \in [Workers -> Streams \cup {NoStream}],
             exec' \in [Workers -> [Tasks -> Nat]],
             cb' \in [Workers -> Breaker], \A w \in Workers : Sane(cb'[w]),
             dlqRetries' \in Nat, recalled' \in SUBSET Tasks
      PROVE  TypeInv'
  BY <1>a DEF TypeInv, TypeOK, Sane
<1>b. ASSUME NEW w \in Workers, NEW nb, Sane(nb), cb' = [cb EXCEPT ![w] = nb]
      PROVE  cb' \in [Workers -> Breaker] /\ \A v \in Workers : Sane(cb'[v])
  BY <1>0, <1>b DEF Sane
<1>1. ASSUME UNCHANGED streamVars, UNCHANGED <<exec, cb>>, SchedTypeOK',
             dlqRetries' \in Nat, UNCHANGED recalled
      PROVE  TypeInv'
  BY <1>0, <1>1, <1>a DEF streamVars, Holding
<1>2. ASSUME NEW t \in Tasks, Submit(t) PROVE TypeInv'
  <2>1. SchedTypeOK'
    BY <1>0, <1>2, PushType DEF SchedTypeOK, Submit, enqueue, Enqueue, Put
  <2> QED
    BY <1>0, <1>2, <2>1, <1>1 DEF Submit, enqueue
<1>3. ASSUME NEW t \in Tasks, RetryDLQ(t) PROVE TypeInv'
  <2>1. SchedTypeOK'
    BY <1>0, <1>3, SchedulerType DEF RetryDLQ
  <2> QED
    BY <1>0, <1>3, <2>1, <1>1 DEF RetryDLQ
<1>4. ASSUME NEW t \in Tasks, RetryDue(t) \/ Overrun(t) PROVE TypeInv'
  <2>1. SchedTypeOK'
    BY <1>0, <1>4, SchedulerType DEF RetryDue, Overrun
  <2> QED
    BY <1>0, <1>4, <2>1, <1>1 DEF RetryDue, Overrun
<1>5. ASSUME RetryTick PROVE TypeInv'
  <2>1. SchedTypeOK'
    BY <1>0, <1>5, SchedulerType DEF RetryTick
  <2> QED
    BY <1>0, <1>5, <2>1, <1>1 DEF RetryTick
<1>21. ASSUME TimeoutTick PROVE TypeInv'
  <2>0. task \in [Tasks -> Task]
    BY <1>0 DEF SchedTypeOK
  <2>1. PICK k \in [Tasks -> Task], R \in SUBSET Streams :
          /\ CheckTimeouts(k)
          /\ \A s \in R : pc[s] = "send"
          /\ pc' = [s \in Streams |-> IF s \in R THEN "unsent" ELSE pc[s]]
    BY <1>21, <2>0, TimeoutWrites
  <2>2. SchedTypeOK'
    BY <1>0, <2>1, SchedulerType
  <2>3. /\ UNCHANGED <<held, conn, workerStreams, exec, cb, dlqRetries>>
        /\ recalled' = recalled \cup TimedOut /\ TimedOut \subseteq inFlight
    BY <1>21 DEF TimeoutTick, TimedOut
  <2>4. pc' \in [Streams -> PC] /\ \A s \in Streams : Holding(s)' => Holding(s)
    BY <1>0, <2>1 DEF Holding, PC
  <2>5. recalled' \in SUBSET Tasks
    BY <1>0, <2>3 DEF SchedTypeOK
  <2> QED
    BY <1>0, <1>a, <2>2, <2>3, <2>4, <2>5
<1>6. ASSUME UNCHANGED schedVars PROVE SchedTypeOK'
  BY <1>0, <1>6 DEF SchedTypeOK, schedVars
<1>7. ASSUME NEW w \in Workers, DisconnectWorker(w) PROVE TypeInv'
  <2>1. workerStreams[w] \in Streams
    BY <1>7, StreamsAssumption DEF DisconnectWorker
  <2> QED
    BY <1>0, <1>6, <1>7, <1>a, <2>1 DEF DisconnectWorker, Holding
<1>8. ASSUME NEW w \in Workers, TripBreaker(w) \/ ResetBreaker(w) \/ BreakerCools(w)
      PROVE  TypeInv'
  <2>1. \E nb : Sane(nb) /\ cb' = [cb EXCEPT ![w] = nb]
    BY <1>0, <1>8, BreakerMethods DEF TripBreaker, ResetBreaker, BreakerCools
  <2>2. cb' \in [Workers -> Breaker] /\ \A v \in Workers : Sane(cb'[v])
    BY <1>b, <2>1
  <2>3. UNCHANGED <<schedVars, streamVars, exec, dlqRetries, recalled>>
    BY <1>8 DEF TripBreaker, ResetBreaker, BreakerCools
  <2> QED
    BY <1>0, <1>6, <1>a, <2>2, <2>3 DEF streamVars, Holding
<1>9. ASSUME NEW w \in Workers, NEW t \in Tasks,
             ReportCompleted(w, t) \/ ReportFailed(w, t) \/ ReportLost(w, t)
      PROVE  TypeInv'
  <2>1. exec' \in [Workers -> [Tasks -> Nat]]
    <3>1. exec[w][t] > 0 /\ exec' = [exec EXCEPT ![w][t] = @ - 1]
      BY <1>9 DEF ReportCompleted, ReportFailed, ReportLost
    <3>2. exec[w][t] - 1 \in Nat
      BY <1>0, <3>1
    <3> QED
      BY <1>0, <3>1, <3>2, ExecUpdate
  <2>2. cb' \in [Workers -> Breaker] /\ \A v \in Workers : Sane(cb'[v])
    <3>1. CASE ReportLost(w, t)
      BY <1>0, <3>1 DEF ReportLost
    <3>2. CASE ReportCompleted(w, t)
      BY <1>0, <1>b, <3>2, BreakerMethods DEF ReportCompleted
    <3>3. CASE ReportFailed(w, t)
      BY <1>0, <1>b, <3>3, BreakerMethods DEF ReportFailed
    <3> QED
      BY <1>9, <3>1, <3>2, <3>3
  <2>3. SchedTypeOK'
    BY <1>0, <1>6, <1>9, SchedulerType DEF ReportCompleted, ReportFailed, ReportLost
  <2>4. UNCHANGED streamVars /\ UNCHANGED <<dlqRetries, recalled>>
    BY <1>9 DEF ReportCompleted, ReportFailed, ReportLost
  <2> QED
    BY <1>0, <1>a, <2>1, <2>2, <2>3, <2>4 DEF streamVars, Holding
<1>10. ASSUME NEW s \in Streams, Connect(s) \/ StreamBreaks(s) PROVE TypeInv'
  <2>1. StreamWorker[s] \in Workers
    BY StreamsAssumption
  <2>2. CASE Connect(s)
    BY <1>0, <1>6, <1>a, <2>1, <2>2 DEF Connect, Holding, PC
  <2>3. CASE StreamBreaks(s)
    BY <1>0, <1>6, <1>a, <2>3 DEF StreamBreaks, Holding
  <2> QED
    BY <1>10, <2>2, <2>3
<1>11. ASSUME NEW s \in Streams, Receive(s) \/ Skip(s) PROVE TypeInv'
  <2>1. SchedTypeOK'
    BY <1>0, <1>11 DEF Receive, Skip, Notify, SchedTypeOK
  <2> QED
    BY <1>0, <1>11, <1>a, <2>1 DEF Receive, Skip, Holding, PC
<1>12. ASSUME NEW s \in Streams, CtxDone(s) \/ DequeueNil(s) PROVE TypeInv'
  BY <1>0, <1>6, <1>12, <1>a DEF CtxDone, DequeueNil, Holding, PC
<1>13. ASSUME NEW s \in Streams, Admit(s) PROVE TypeInv'
  <2>1. StreamWorker[s] \in Workers
    BY StreamsAssumption
  <2>2. cb' \in [Workers -> Breaker] /\ \A v \in Workers : Sane(cb'[v])
    BY <1>0, <1>b, <1>13, <2>1, BreakerMethods DEF Admit
  <2> QED
    BY <1>0, <1>6, <1>13, <1>a, <2>2 DEF Admit, Holding, PC
<1>14. ASSUME NEW s \in Streams, DequeueTask(s) PROVE TypeInv'
  <2>1. PICK t \in Tasks : Dequeue(t) /\ held' = [held EXCEPT ![s] = t]
    BY <1>14 DEF DequeueTask
  <2>2. SchedTypeOK'
    BY <1>0, <2>1, SchedulerType
  <2> QED
    BY <1>0, <1>14, <1>a, <2>1, <2>2 DEF DequeueTask, Holding, PC
<1>15. ASSUME NEW s \in Streams, WriterStep(s) PROVE TypeInv'
  <2>1. held[s] \in Tasks
    BY <1>0, <1>15 DEF WriterStep, Assign, RecordAssign, Start, RecordStart,
                       SendFail, ClearWorker, Holding
  <2>2. PICK k \in Task, l \in WriterLabels : WriteTask(s, k, l)
    BY <1>0, <1>15, <2>1, WriterWrites DEF SchedTypeOK
  <2>3. SchedTypeOK'
    BY <1>0, <2>1, <2>2 DEF WriteTask, SchedTypeOK
  <2>4. recalled' \in SUBSET Tasks
    BY <1>0, <1>15, <2>1 DEF WriterStep, Assign, RecordAssign, Start, RecordStart,
                             SendFail, ClearWorker
  <2> QED
    BY <1>0, <1>a, <2>1, <2>2, <2>3, <2>4 DEF WriteTask, WriterLabels, Holding, PC
<1>16. ASSUME NEW s \in Streams, SendOk(s) \/ SendLost(s) PROVE TypeInv'
  <2>1. StreamWorker[s] \in Workers
    BY StreamsAssumption
  <2>2. held[s] \in Tasks
    BY <1>0, <1>16 DEF SendOk, SendLost, Holding
  <2>3. exec' \in [Workers -> [Tasks -> Nat]]
    <3>1. exec[StreamWorker[s]][held[s]] + 1 \in Nat
      BY <1>0, <2>1, <2>2
    <3>2. [exec EXCEPT ![StreamWorker[s]][held[s]] = @ + 1]
            \in [Workers -> [Tasks -> Nat]]
      BY <1>0, <2>1, <2>2, <3>1, ExecUpdate
    <3> QED
      BY <1>0, <1>16, <3>2 DEF SendOk, SendLost
  <2> QED
    BY <1>0, <1>6, <1>16, <1>a, <2>3 DEF SendOk, SendLost, NextTurn, Holding, PC
<1>17. ASSUME NEW s \in Streams, PutBack(s) PROVE TypeInv'
  <2>1. queue' \in [Tasks -> Nat] /\ notify' \in BOOLEAN
    BY <1>0, <1>17, PushType DEF PutBack, Enqueue, Put, SchedTypeOK
  <2>2. SchedTypeOK'
    BY <1>0, <1>17, <2>1 DEF PutBack, SchedTypeOK
  <2> QED
    BY <1>0, <1>17, <1>a, <2>2 DEF PutBack, Holding, PC
<1>18. ASSUME NEW s \in Streams, RequeueTasks(s) PROVE TypeInv'
  <2>1. StreamWorker[s] \in Workers
    BY StreamsAssumption
  <2>2. SchedTypeOK'
    BY <1>0, <1>18, <2>1, SchedulerType DEF RequeueTasks
  <2>3. recalled' \in SUBSET Tasks
    BY <1>0, <1>18 DEF RequeueTasks, SchedTypeOK
  <2> QED
    BY <1>0, <1>18, <1>a, <2>1, <2>2, <2>3 DEF RequeueTasks, Holding, PC
<1>19. ASSUME NEW s \in Streams, ForgetStream(s) PROVE TypeInv'
  BY <1>0, <1>6, <1>19, <1>a, StreamsAssumption DEF ForgetStream, Holding, PC
<1>20. ASSUME UNCHANGED vars PROVE TypeInv'
  BY <1>0, <1>1, <1>6, <1>20 DEF vars, schedVars, streamVars
<1> QED
  BY <1>2, <1>3, <1>4, <1>5, <1>7, <1>8, <1>9, <1>10, <1>11, <1>12, <1>13, <1>14,
     <1>15, <1>16, <1>17, <1>18, <1>19, <1>20, <1>21 DEF Next, HandlerStep, WriterStep

\* The state of the master keeps its type in every behaviour.
THEOREM TypeCorrect == Spec => []TypeOK
<1>1. TypeInv => TypeOK
  BY DEF TypeInv
<1> QED
  BY TypeInit, TypeNext, <1>1, PTL DEF Spec
-----------------------------------------------------------------------------
\* The signal is never lost.
LEMMA WakeupNext == TypeInv /\ NoLostWakeup /\ [Next]_vars => NoLostWakeup'
<1> SUFFICES ASSUME TypeInv, NoLostWakeup, [Next]_vars PROVE NoLostWakeup'
  OBVIOUS
<1>0. /\ queue \in [Tasks -> Nat]
      /\ pc \in [Streams -> PC]
  BY DEF TypeInv, TypeOK, SchedTypeOK
<1>q. queue' \in [Tasks -> Nat]
  BY TypeNext DEF TypeInv, TypeOK, SchedTypeOK
\* A signal in the channel is enough; and so is an unchanged queue, if the
\* signal and the handlers that have taken it stay.
<1>a. ASSUME notify' PROVE NoLostWakeup'
  BY <1>a DEF NoLostWakeup
<1>b. ASSUME QueueEmpty' PROVE NoLostWakeup'
  BY <1>b DEF NoLostWakeup
<1>c. ASSUME queue' = queue, notify' = notify,
             \A s \in Streams : pc[s] \in {"check", "dequeue"} =>
                                pc'[s] \in {"check", "dequeue"}
      PROVE  NoLostWakeup'
  BY <1>c DEF NoLostWakeup, QueueEmpty
<1>1. ASSUME NEW t \in Tasks,
             Submit(t) \/ RetryDLQ(t) \/ RetryDue(t) \/ Overrun(t)
      PROVE  NoLostWakeup'
  <2>1. CASE Submit(t) \/ RetryDLQ(t)
    BY <1>a, <2>1 DEF Submit, enqueue, RetryDLQ, RetryFromDLQ, Enqueue
  <2>2. CASE RetryDue(t) \/ Overrun(t)
    BY <1>c, <2>2 DEF RetryDue, RetryComesDue, Overrun, TaskOverruns, streamVars
  <2> QED
    BY <1>1, <2>1, <2>2
<1>2. ASSUME NEW s \in Streams, Connect(s) \/ StreamBreaks(s) \/ SendOk(s)
      PROVE  NoLostWakeup'
  BY <1>0, <1>2, <1>c DEF Connect, StreamBreaks, SendOk, NextTurn, schedVars
<1>3. ASSUME NEW s \in Streams, Receive(s) PROVE NoLostWakeup'
  BY <1>0, <1>3 DEF Receive, NoLostWakeup
<1>4. ASSUME NEW s \in Streams, HandlerStep(s) PROVE NoLostWakeup'
  <2>0. CASE WriterStep(s)
    BY <1>0, <1>c, <2>0
       DEF WriterStep, Assign, RecordAssign, Start, RecordStart, SendFail,
           ClearWorker, WriteTask
  <2>1. CASE CtxDone(s) \/ Admit(s) \/ SendLost(s) \/ ForgetStream(s)
    BY <1>0, <1>c, <2>1
       DEF CtxDone, Admit, SendLost, NextTurn, ForgetStream, schedVars
  <2>2. CASE Skip(s) \/ PutBack(s)
    BY <1>a, <2>2 DEF Skip, Notify, PutBack, Enqueue
  <2>3. CASE DequeueNil(s)
    BY <1>b, <2>3 DEF DequeueNil, QueueEmpty, schedVars
  <2>4. CASE DequeueTask(s)
    <3>1. CASE QueueEmpty'
      BY <1>b, <3>1
    <3>2. CASE ~QueueEmpty'
      <4>1. \E u \in Tasks : queue'[u] > 0
        BY <1>q, <3>2 DEF QueueEmpty
      <4> QED
        BY <1>a, <2>4, <4>1 DEF DequeueTask, Dequeue
    <3> QED
      BY <3>1, <3>2
  <2>5. CASE RequeueTasks(s)
    <3> DEFINE lost == {t \in inFlight : task[t].workerID = StreamWorker[s]}
    <3>1. CASE lost # {}
      BY <1>a, <2>5, <3>1 DEF RequeueTasks, RequeueFromWorker
    <3>2. CASE lost = {}
      <4>0. queue' = Push(queue, lost) /\ notify' = (notify \/ lost # {})
        BY <2>5 DEF RequeueTasks, RequeueFromWorker
      <4>1. queue' = Push(queue, {}) /\ notify' = notify
        BY <3>2, <4>0 DEF TypeInv, TypeOK, SchedTypeOK
      <4>2. queue' = queue
        BY <1>0, <4>1 DEF Push
      <4>3. \A r \in Streams : pc[r] \in {"check", "dequeue"} =>
                               pc'[r] \in {"check", "dequeue"}
        BY <1>0, <2>5 DEF RequeueTasks
      <4> QED
        BY <1>c, <4>1, <4>2, <4>3
    <3> QED
      BY <3>1, <3>2
  <2> QED
    BY <1>4, <2>0, <2>1, <2>2, <2>3, <2>4, <2>5 DEF HandlerStep, WriterStep
<1>5. ASSUME NEW w \in Workers,
             \/ DisconnectWorker(w) \/ TripBreaker(w) \/ ResetBreaker(w)
             \/ BreakerCools(w)
      PROVE  NoLostWakeup'
  BY <1>5, <1>c
     DEF DisconnectWorker, TripBreaker, ResetBreaker, BreakerCools, schedVars, streamVars
<1>6. ASSUME NEW w \in Workers, NEW t \in Tasks,
             ReportCompleted(w, t) \/ ReportFailed(w, t) \/ ReportLost(w, t)
      PROVE  NoLostWakeup'
  BY <1>6, <1>c
     DEF ReportCompleted, Complete, ReportFailed, Fail, FailAndSchedule, ReportLost,
         schedVars, streamVars
<1>7. ASSUME RetryTick \/ TimeoutTick PROVE NoLostWakeup'
  <2>1. CASE RetryTick
    BY <1>a, <2>1 DEF RetryTick, ProcessRetries
  <2>2. CASE TimeoutTick
    <3>1. \A s \in Streams : pc[s] \in {"check", "dequeue"} =>
                             pc'[s] \in {"check", "dequeue"}
      BY <2>2 DEF TimeoutTick
    <3> QED
      BY <1>c, <2>2, <3>1 DEF TimeoutTick, CheckTimeouts, FailAndSchedule
  <2> QED
    BY <1>7, <2>1, <2>2
<1>8. ASSUME UNCHANGED vars PROVE NoLostWakeup'
  BY <1>8, <1>c DEF vars
<1> QED
  BY <1>1, <1>2, <1>3, <1>4, <1>5, <1>6, <1>7, <1>8 DEF Next

\* For any number of tasks and workers, a queued task never sits behind an empty
\* notify channel with every handler asleep: the re-arm in Dequeue, the signal
\* of a skipping handler and those of Enqueue, RequeueFromWorker, ProcessRetries
\* and RetryFromDLQ are together enough.
THEOREM WakeupSafe == Spec => []NoLostWakeup
<1>1. Init => NoLostWakeup
  BY DEF Init, NewScheduler, NoLostWakeup, QueueEmpty
<1> QED
  BY TypeInit, TypeNext, WakeupNext, <1>1, PTL DEF Spec
-----------------------------------------------------------------------------
Accounted(t) == InPlace(t) /\ (t \in submitted \ completed => Found(t))

\* A step in which the handler of s, if it is about to assign, start or put back
\* t, stays where it is.
Stays(s, t) == \A l \in {"assign", "assigned", "start", "unsent", "unowned"} :
                 At(s, l, t) => At(s, l, t)'

\* A task stays accounted for when its object does not change, it leaves no
\* place, and no handler that is about to assign, start or put it back moves.
LEMMA AccountedQuiet ==
  ASSUME NEW t \in Tasks, Accounted(t), UNCHANGED task[t],
         queue[t] > 0 => queue'[t] > 0,
         retryQueue[t] > 0 => retryQueue'[t] > 0,
         deadLetter[t] > 0 => deadLetter'[t] > 0,
         t \in inFlight => t \in inFlight',
         t \in completed => t \in completed',
         t \in submitted' => t \in submitted,
         \A s \in Streams : Stays(s, t)
  PROVE  Accounted(t)'
  BY DEF Accounted, InPlace, Found, Stays

\* What fails other tasks leaves t alone.
LEMMA FailLeaves ==
  ASSUME retryQueue \in [Tasks -> Nat], deadLetter \in [Tasks -> Nat],
         NEW k, NEW S, FailAndSchedule(k, S), NEW t \in Tasks \ S
  PROVE  /\ task'[t] = k[t]
         /\ UNCHANGED <<retryQueue[t], deadLetter[t], queue, submitted, completed>>
         /\ t \in inFlight' <=> t \in inFlight
<1>1. PICK dead \in SUBSET S :
        deadLetter' = Push(deadLetter, dead) /\ retryQueue' = Push(retryQueue, S \ dead)
  BY DEF FailAndSchedule
<1>2. UNCHANGED <<retryQueue[t], deadLetter[t]>>
  BY <1>1, PushType
<1>3. task'[t] = k[t]
  BY DEF FailAndSchedule
<1> QED
  BY <1>2, <1>3 DEF FailAndSchedule

\* Nothing the scheduler does to a task, while the handlers that assign, start or
\* put it back stand still, loses it.
LEMMA AccountedScheduler ==
  ASSUME TypeInv, SchedTypeOK', NEW t \in Tasks, Accounted(t),
         \A s \in Streams : Stays(s, t),
         \/ \E u \in Tasks : Complete(u) \/ Fail(u) \/ RetryFromDLQ(u)
         \/ ProcessRetries
         \/ \E k : CheckTimeouts(k) /\ k[t] \in {task[t], Unsend(task[t])}
                  /\ (k[t] # task[t] => t \in TimedOut)
  PROVE  Accounted(t)'
<1>0. /\ task \in [Tasks -> Task] /\ task[t] \in Task
      /\ queue \in [Tasks -> Nat] /\ retryQueue \in [Tasks -> Nat]
      /\ deadLetter \in [Tasks -> Nat]
  BY DEF TypeInv, TypeOK, SchedTypeOK
<1>1. ASSUME NEW u \in Tasks, Complete(u) PROVE Accounted(t)'
  <2>1. CASE u = t /\ t \in inFlight
    <3>1. t \in completed' /\ task'[t] = TaskComplete(task[t])
      BY <1>0, <1>1, <2>1 DEF Complete
    <3>2. task'[t].state = "COMPLETED" \/ task'[t] = task[t]
      BY <1>0, <3>1, TaskMethodsState
    <3>3. UNCHANGED <<retryQueue, deadLetter>>
      BY <1>1 DEF Complete
    <3> QED
      BY <3>1, <3>2, <3>3 DEF Accounted, InPlace, Stays
  <2>2. CASE ~(u = t /\ t \in inFlight)
    BY <1>0, <1>1, <2>2, AccountedQuiet DEF Complete
  <2> QED
    BY <2>1, <2>2
<1>2. ASSUME NEW k, NEW S \in SUBSET inFlight, FailAndSchedule(k, S),
             k[t] \in {task[t], Unsend(task[t])}, k[t] # task[t] => t \in S
      PROVE  Accounted(t)'
  <2>1. CASE t \in S
    <3> DEFINE r == ScheduleRetry(TaskFail(k[t]))
    <3>0. task[t].state # "FAILED"
      BY DEF Accounted, InPlace
    <3>1. /\ task'[t] = r
          /\ r.state = "DEAD" => deadLetter'[t] > 0
          /\ r.state # "DEAD" => retryQueue'[t] > 0
      BY <1>0, <1>2, <2>1, PushType DEF FailAndSchedule
    <3>2. k[t] \in Task /\ k[t].state \in {task[t].state, "QUEUED"}
      <4>1. CASE k[t] = task[t]
        BY <1>0, <4>1
      <4>2. CASE k[t] = Unsend(task[t])
        <5>1. Unsend(task[t]) \in Task /\ Unsend(task[t]).state = "QUEUED"
          BY <1>0, TaskMethodsType, TaskMethodsState
        <5> QED
          BY <4>2, <5>1
      <4> QED
        BY <1>2, <4>1, <4>2
    <3>3. r.state \in {"DEAD", "RETRYING"} \/ r.state \in {task[t].state, "QUEUED"}
      BY <3>0, <3>2, FailThenSchedule
    <3>4. retryQueue'[t] > 0 \/ deadLetter'[t] > 0
      BY <3>1
    <3>5. UNCHANGED completed
      BY <1>2 DEF FailAndSchedule
    <3> HIDE DEF r
    <3>6. CASE r.state = "DEAD"
      BY <3>1, <3>6 DEF Accounted, InPlace, Found
    <3>7. CASE r.state = "RETRYING"
      BY <3>1, <3>7 DEF Accounted, InPlace, Found
    <3>8. CASE r.state \in {task[t].state, "QUEUED"} /\ r.state \notin {"DEAD", "RETRYING"}
      BY <3>1, <3>4, <3>5, <3>8 DEF Accounted, InPlace, Found, Stays
    <3> QED
      BY <3>3, <3>6, <3>7, <3>8
  <2>2. CASE t \notin S
    <3>1. /\ UNCHANGED <<task[t], retryQueue[t], deadLetter[t], queue, submitted, completed>>
          /\ t \in inFlight => t \in inFlight'
      BY <1>0, <1>2, <2>2, FailLeaves
    <3> QED
      BY <3>1, AccountedQuiet
  <2> QED
    BY <2>1, <2>2
<1>3. ASSUME NEW u \in Tasks, RetryFromDLQ(u) PROVE Accounted(t)'
  <2>0. /\ queue' = Push(queue, {u})
        /\ UNCHANGED <<submitted, retryQueue, inFlight, completed>>
    BY <1>3 DEF RetryFromDLQ, Enqueue, Put
  <2>1. CASE u = t
    <3>1. queue'[t] > 0
      BY <1>0, <2>0, <2>1, PushType
    <3>2. task'[t] = TaskRetryFromDLQ(task[t])
      BY <1>0, <1>3, <2>1 DEF RetryFromDLQ
    <3>3. \/ task'[t].state = "QUEUED"
          \/ task'[t] = task[t] /\ task[t].state \notin {"DEAD", "ASSIGNED"}
      BY <1>0, <3>2, TaskMethodsState
    <3> QED
      BY <2>0, <3>1, <3>3 DEF Accounted, InPlace, Found
  <2>2. CASE u # t
    <3>1. UNCHANGED <<task[t], queue[t], deadLetter[t]>>
      BY <1>0, <1>3, <2>0, <2>2, PushType DEF RetryFromDLQ
    <3> QED
      BY <2>0, <3>1, AccountedQuiet
  <2> QED
    BY <2>1, <2>2
<1>4. ASSUME ProcessRetries PROVE Accounted(t)'
  <2>0. UNCHANGED <<submitted, deadLetter, inFlight, completed>>
    BY <1>4 DEF ProcessRetries
  <2>1. CASE t \in Ready
    <3>1. queue'[t] = queue[t] + retryQueue[t] /\ task'[t] = TaskRequeue(task[t])
      BY <1>4, <2>1 DEF ProcessRetries
    <3>2. queue'[t] > 0
      BY <1>0, <2>1, <3>1 DEF Ready
    <3>3. \/ task'[t].state = "QUEUED"
          \/ task'[t] = task[t] /\ task[t].state \notin {"RETRYING", "ASSIGNED"}
      BY <1>0, <3>1, TaskMethodsState
    <3> QED
      BY <2>0, <3>2, <3>3 DEF Accounted, InPlace, Found
  <2>2. CASE t \notin Ready
    <3>1. UNCHANGED <<task[t], queue[t], retryQueue[t]>>
      BY <1>0, <1>4, <2>2 DEF ProcessRetries
    <3> QED
      BY <2>0, <3>1, AccountedQuiet
  <2> QED
    BY <2>1, <2>2
<1>5. TimedOut \subseteq inFlight
  BY DEF TimedOut
<1> QED
  BY <1>1, <1>2, <1>3, <1>4, <1>5 DEF Fail, CheckTimeouts

\* The steps of a handler that change the scheduler or a task.
LEMMA AccountedHandler ==
  ASSUME TypeInv, NEW t \in Tasks, Accounted(t), NEW s \in Streams,
         DequeueTask(s) \/ WriterStep(s) \/ PutBack(s) \/ RequeueTasks(s)
  PROVE  Accounted(t)'
<1>0. /\ task \in [Tasks -> Task] /\ task[t] \in Task
      /\ queue \in [Tasks -> Nat]
      /\ pc \in [Streams -> PC] /\ held \in [Streams -> Tasks \cup {NoTask}]
      /\ StreamWorker[s] \in Workers
      /\ Holding(s) => held[s] \in Tasks
  BY StreamsAssumption DEF TypeInv, TypeOK, SchedTypeOK, Holding
<1>1. CASE DequeueTask(s)
  <2>1. PICK u \in Tasks : Dequeue(u) /\ held' = [held EXCEPT ![s] = u]
    BY <1>1 DEF DequeueTask
  <2>2. /\ pc[s] = "dequeue" /\ pc' = [pc EXCEPT ![s] = "assign"]
        /\ inFlight' = inFlight \cup {u} /\ queue' = [queue EXCEPT ![u] = @ - 1]
        /\ UNCHANGED <<task, submitted, retryQueue, deadLetter, completed>>
    BY <1>1, <2>1 DEF DequeueTask, Dequeue, Take
  <2>3. \A r \in Streams : Stays(r, t)
    BY <1>0, <2>1, <2>2 DEF At, Stays
  <2>4. CASE u = t
    <3>1. t \in inFlight' /\ At(s, "assign", t)'
      BY <1>0, <2>1, <2>2, <2>4 DEF At
    <3>2. InPlace(t)'
      BY <2>2, <2>3 DEF Accounted, InPlace, Stays
    <3>3. task[t].state \in {"QUEUED", "ASSIGNED", "RUNNING", "COMPLETED", "RETRYING", "DEAD"}
      BY <1>0 DEF Accounted, InPlace, Task, TaskState
    <3>4. t \notin completed => Found(t)'
      BY <2>2, <3>1, <3>3 DEF Accounted, InPlace, Found
    <3> QED
      BY <2>2, <3>2, <3>4 DEF Accounted
  <2>5. CASE u # t
    BY <1>0, <2>2, <2>3, <2>5, AccountedQuiet
  <2> QED
    BY <2>4, <2>5
<1>2. ASSUME NEW k, NEW l \in PC, WriteTask(s, k, l), held[s] \in Tasks
      PROVE  /\ pc' = [pc EXCEPT ![s] = l]
             /\ held[s] = t => task'[t] = k
             /\ held[s] # t => UNCHANGED task[t] /\ Stays(s, t)
             /\ \A r \in Streams \ {s} : Stays(r, t)
             /\ UNCHANGED <<submitted, queue, retryQueue, deadLetter, inFlight,
                            completed, held>>
  BY <1>0, <1>2 DEF WriteTask, Stays, At
<1>3. CASE WriterStep(s)
  <2>0. held[s] \in Tasks
    BY <1>0, <1>3 DEF WriterStep, Assign, RecordAssign, Start, RecordStart,
                      SendFail, ClearWorker, Holding
  <2>1. CASE held[s] # t
    <3>1. PICK k \in Task, l \in WriterLabels : WriteTask(s, k, l)
      BY <1>0, <1>3, <2>0, WriterWrites
    <3>2. l \in PC
      BY DEF WriterLabels, PC
    <3> QED
      BY <1>2, <2>0, <2>1, <3>1, <3>2, AccountedQuiet
  <2>2. CASE Assign(s) /\ held[s] = t
    <3>1. /\ pc[s] = "assign"
          /\ \E l \in PC : /\ WriteTask(s, AssignState(task[t]), l)
                           /\ task[t].state = "QUEUED" => l = "assigned"
      BY <2>2 DEF Assign, PC, CanTransition, validTransitions
    <3>2. PICK l \in PC : /\ WriteTask(s, AssignState(task[t]), l)
                          /\ task[t].state = "QUEUED" => l = "assigned"
      BY <3>1
    <3>3. /\ task'[t] = AssignState(task[t]) /\ At(s, l, t)'
          /\ \A r \in Streams \ {s} : Stays(r, t)
          /\ UNCHANGED <<submitted, queue, retryQueue, deadLetter, inFlight, completed>>
      BY <1>0, <1>2, <2>0, <2>2, <3>2 DEF At
    <3>4. CASE task[t].state = "QUEUED"
      <4>1. task'[t].state = "ASSIGNED" /\ At(s, "assigned", t)'
        BY <1>0, <3>2, <3>3, <3>4, TaskMethodsState
      <4>2. \A r \in Streams, m \in {"unsent", "unowned"} : At(r, m, t) => At(r, m, t)'
        BY <3>1, <3>3 DEF Stays, At
      <4> QED
        BY <3>3, <4>1, <4>2 DEF Accounted, InPlace, Found
    <3>5. CASE task[t].state # "QUEUED"
      <4>1. UNCHANGED task[t]
        BY <1>0, <3>3, <3>5, TaskMethodsState
      <4>2. \A r \in Streams, m \in {"assigned", "start", "unsent", "unowned"} :
              At(r, m, t) => At(r, m, t)'
        BY <3>1, <3>3 DEF Stays, At
      <4> QED
        BY <3>3, <3>5, <4>1, <4>2 DEF Accounted, InPlace, Found
    <3> QED
      BY <3>4, <3>5
  <2>3. CASE RecordAssign(s) /\ held[s] = t
    <3>1. /\ WriteTask(s, AssignRest(task[t], StreamWorker[s]), "start")
          /\ "start" \in PC /\ pc[s] = "assigned"
      BY <2>3 DEF RecordAssign, PC
    <3>2. /\ task'[t] = AssignRest(task[t], StreamWorker[s]) /\ At(s, "start", t)'
          /\ \A r \in Streams \ {s} : Stays(r, t)
          /\ UNCHANGED <<submitted, queue, retryQueue, deadLetter, inFlight, completed>>
      BY <1>0, <1>2, <2>0, <2>3, <3>1 DEF At
    <3>3. task'[t].state = task[t].state
      BY <1>0, <3>2, TaskMethodsState
    <3>4. \A r \in Streams, m \in {"assign", "unsent", "unowned"} :
            At(r, m, t) => At(r, m, t)'
      BY <3>1, <3>2 DEF Stays, At
    <3> QED
      BY <3>2, <3>3, <3>4 DEF Accounted, InPlace, Found
  <2>4. CASE Start(s) /\ held[s] = t
    <3>1. PICK stale \in BOOLEAN, l \in WriterLabels :
            WriteTask(s, StartState(task[t], stale), l)
      BY <2>4 DEF Start, WriterLabels
    <3>2. l \in PC /\ pc[s] = "start"
      BY <2>4 DEF Start, WriterLabels, PC
    <3>3. /\ task'[t] = StartState(task[t], stale)
          /\ \A r \in Streams \ {s} : Stays(r, t)
          /\ UNCHANGED <<submitted, queue, retryQueue, deadLetter, inFlight, completed>>
      BY <1>2, <2>0, <2>4, <3>1, <3>2
    <3>4. \A r \in Streams, m \in {"assign", "unsent", "unowned"} :
            At(r, m, t) => At(r, m, t)'
      BY <3>2, <3>3 DEF Stays, At
    <3>5. CASE task[t].state = "ASSIGNED"
      <4>1. task'[t].state = "RUNNING"
        BY <1>0, <3>3, <3>5, TaskMethodsState
      <4> QED
        BY <3>3, <3>4, <3>5, <4>1 DEF Accounted, InPlace, Found
    <3>6. CASE task[t].state # "ASSIGNED"
      <4>1. UNCHANGED task[t]
        BY <1>0, <3>3, <3>6, TaskMethodsState
      <4> QED
        BY <3>3, <3>4, <3>6, <4>1 DEF Accounted, InPlace, Found
    <3> QED
      BY <3>5, <3>6
  <2>5. CASE RecordStart(s) /\ held[s] = t
    <3>1. /\ WriteTask(s, StartRest(task[t]), "send")
          /\ "send" \in PC /\ pc[s] = "started"
      BY <2>5 DEF RecordStart, PC
    <3>2. /\ task'[t] = StartRest(task[t])
          /\ \A r \in Streams \ {s} : Stays(r, t)
          /\ UNCHANGED <<submitted, queue, retryQueue, deadLetter, inFlight, completed>>
      BY <1>2, <2>0, <2>5, <3>1
    <3>3. task'[t].state = task[t].state
      BY <1>0, <3>2, TaskMethodsState
    <3>4. \A r \in Streams : Stays(r, t)
      BY <3>1, <3>2 DEF Stays, At
    <3> QED
      BY <3>2, <3>3, <3>4 DEF Accounted, InPlace, Found, Stays
  <2>6. CASE SendFail(s) /\ held[s] = t
    <3>1. WriteTask(s, Unsend(task[t]), "unsent") /\ "unsent" \in PC
      BY <2>6 DEF SendFail, PC
    <3>2. task'[t] = Unsend(task[t]) /\ At(s, "unsent", t)'
      BY <1>0, <1>2, <2>0, <2>6, <3>1 DEF At
    <3>3. task'[t].state = "QUEUED"
      BY <1>0, <3>2, TaskMethodsState
    <3> QED
      BY <3>2, <3>3 DEF Accounted, InPlace, Found
  <2>7. CASE ClearWorker(s) /\ held[s] = t
    <3>1. /\ WriteTask(s, Disown(task[t]), "unowned")
          /\ "unowned" \in PC /\ pc[s] = "unsent"
      BY <2>7 DEF ClearWorker, PC
    <3>2. /\ task'[t] = Disown(task[t]) /\ At(s, "unowned", t)'
          /\ \A r \in Streams \ {s} : Stays(r, t)
          /\ UNCHANGED <<submitted, queue, retryQueue, deadLetter, inFlight, completed>>
      BY <1>0, <1>2, <2>0, <2>7, <3>1 DEF At
    <3>3. task'[t].state = task[t].state
      BY <1>0, <3>2, TaskMethodsState
    <3>4. \A r \in Streams, m \in {"assigned", "start"} : At(r, m, t) => At(r, m, t)'
      BY <3>1, <3>2 DEF Stays, At
    <3> QED
      BY <3>2, <3>3, <3>4 DEF Accounted, InPlace, Found
  <2> QED
    BY <1>3, <2>1, <2>2, <2>3, <2>4, <2>5, <2>6, <2>7 DEF WriterStep
<1>4. CASE PutBack(s)
  <2>1. /\ held[s] \in Tasks /\ pc[s] = "unowned"
        /\ queue' = Push(queue, {held[s]})
        /\ held' = [held EXCEPT ![s] = NoTask]
        /\ pc' = [pc EXCEPT ![s] = "cleanup"]
        /\ UNCHANGED <<task, submitted, retryQueue, deadLetter, inFlight, completed>>
    BY <1>0, <1>4 DEF PutBack, Enqueue, Put, Holding
  <2>2. CASE held[s] = t
    <3>1. queue'[t] > 0
      BY <1>0, <2>1, <2>2, PushType
    <3>2. \A r \in Streams, m \in {"assigned", "start"} : At(r, m, t) => At(r, m, t)'
      BY <1>0, <2>1 DEF At
    <3> QED
      BY <2>1, <3>1, <3>2 DEF Accounted, InPlace, Found
  <2>3. CASE held[s] # t
    <3>1. UNCHANGED queue[t]
      BY <1>0, <2>1, <2>3, PushType
    <3>2. \A r \in Streams : Stays(r, t)
      BY <1>0, <2>1, <2>3 DEF At, Stays
    <3> QED
      BY <2>1, <3>1, <3>2, AccountedQuiet
  <2> QED
    BY <2>2, <2>3
<1>5. CASE RequeueTasks(s)
  <2> DEFINE lost == {u \in inFlight : task[u].workerID = StreamWorker[s]}
  <2>1. /\ pc[s] = "requeue" /\ pc' = [pc EXCEPT ![s] = "closed"]
        /\ queue' = Push(queue, lost) /\ inFlight' = inFlight \ lost
        /\ task' = [u \in Tasks |-> IF u \in lost THEN TakeBack(task[u]) ELSE task[u]]
        /\ UNCHANGED <<submitted, retryQueue, deadLetter, completed, held>>
    BY <1>5 DEF RequeueTasks, RequeueFromWorker
  <2> HIDE DEF lost
  <2>2. CASE t \in lost
    <3>1. task'[t].state = "QUEUED" /\ queue'[t] > 0
      BY <1>0, <2>1, <2>2, TaskMethodsState, PushType
    <3> QED
      BY <3>1 DEF Accounted, InPlace, Found
  <2>3. CASE t \notin lost
    <3>1. UNCHANGED <<task[t], queue[t]>> /\ (t \in inFlight => t \in inFlight')
      BY <1>0, <2>1, <2>3, PushType
    <3>2. \A r \in Streams : Stays(r, t)
      BY <1>0, <2>1 DEF At, Stays
    <3> QED
      BY <2>1, <3>1, <3>2, AccountedQuiet
  <2> QED
    BY <2>2, <2>3
<1> QED
  BY <1>1, <1>3, <1>4, <1>5

AllAccounted == \A t \in Tasks : Accounted(t)

\* Every step of the system keeps every task accounted for.
LEMMA AccountedNext == TypeInv /\ AllAccounted /\ [Next]_vars => AllAccounted'
<1> SUFFICES ASSUME TypeInv, AllAccounted, [Next]_vars, NEW t \in Tasks
             PROVE  Accounted(t)'
  BY DEF AllAccounted
<1>0. /\ task \in [Tasks -> Task] /\ task[t] \in Task
      /\ queue \in [Tasks -> Nat]
      /\ pc \in [Streams -> PC] /\ held \in [Streams -> Tasks \cup {NoTask}]
      /\ SchedTypeOK'
      /\ Accounted(t)
  BY TypeNext DEF TypeInv, TypeOK, SchedTypeOK, AllAccounted
<1>a. ASSUME UNCHANGED <<task, submitted, queue, retryQueue, deadLetter, inFlight, completed>>,
             \A s \in Streams : Stays(s, t)
      PROVE  Accounted(t)'
  BY <1>0, <1>a, AccountedQuiet
<1>b. ASSUME UNCHANGED <<pc, held>>
      PROVE  \A s \in Streams : Stays(s, t)
  BY <1>b DEF At, Stays
<1>1. ASSUME NEW u \in Tasks, Submit(u) PROVE Accounted(t)'
  <2>1. /\ queue' = Push(queue, {u}) /\ submitted' = submitted \cup {u}
        /\ UNCHANGED <<task, retryQueue, deadLetter, inFlight, completed, pc, held>>
    BY <1>1 DEF Submit, enqueue, Enqueue, Put, streamVars
  <2>2. CASE u = t
    <3>1. queue'[t] > 0
      BY <1>0, <2>1, <2>2, PushType
    <3> QED
      BY <1>0, <1>b, <2>1, <3>1 DEF Accounted, InPlace, Found, Stays
  <2>3. CASE u # t
    <3>1. UNCHANGED queue[t] /\ (t \in submitted' => t \in submitted)
      BY <1>0, <2>1, <2>3, PushType
    <3> QED
      BY <1>0, <1>b, <2>1, <3>1, AccountedQuiet
  <2> QED
    BY <2>2, <2>3
<1>2. ASSUME NEW u \in Tasks, RetryDue(u) \/ Overrun(u) PROVE Accounted(t)'
  <2>1. UNCHANGED <<submitted, queue, retryQueue, deadLetter, inFlight, completed, pc, held>>
    BY <1>2 DEF RetryDue, RetryComesDue, Overrun, TaskOverruns, streamVars
  <2>2. task'[t].state = task[t].state
    BY <1>0, <1>2 DEF RetryDue, RetryComesDue, Overrun, TaskOverruns, Task
  <2> QED
    BY <1>0, <1>b, <2>1, <2>2 DEF Accounted, InPlace, Found, Stays
<1>3. ASSUME NEW u \in Tasks, RetryDLQ(u) PROVE Accounted(t)'
  BY <1>0, <1>3, <1>b, AccountedScheduler DEF RetryDLQ, streamVars
<1>4. ASSUME RetryTick \/ TimeoutTick PROVE Accounted(t)'
  <2>1. CASE RetryTick
    BY <1>0, <1>b, <2>1, AccountedScheduler DEF RetryTick, streamVars
  <2>2. CASE TimeoutTick
    <3>1. PICK k \in [Tasks -> Task], R \in SUBSET Streams :
            /\ CheckTimeouts(k)
            /\ \A s \in R : pc[s] = "send" /\ held[s] \in TimedOut
            /\ pc' = [s \in Streams |-> IF s \in R THEN "unsent" ELSE pc[s]]
            /\ \/ k[t] = task[t] /\ \A s \in R : held[s] # t
               \/ k[t] = Unsend(task[t]) /\ \E s \in R : held[s] = t
      BY <1>0, <2>2, TimeoutWrites
    <3>2. k[t] \in {task[t], Unsend(task[t])} /\ (k[t] # task[t] => t \in TimedOut)
      BY <3>1
    <3>3. UNCHANGED held
      BY <2>2 DEF TimeoutTick
    <3>4. \A s \in Streams : Stays(s, t)
      BY <3>1, <3>3 DEF Stays, At
    <3> QED
      BY <1>0, <3>1, <3>2, <3>4, AccountedScheduler
  <2> QED
    BY <1>4, <2>1, <2>2
<1>5. ASSUME NEW w \in Workers, NEW u \in Tasks,
             ReportCompleted(w, u) \/ ReportFailed(w, u) \/ ReportLost(w, u)
      PROVE  Accounted(t)'
  <2>1. CASE ReportCompleted(w, u) \/ ReportFailed(w, u)
    BY <1>0, <1>b, <2>1, AccountedScheduler DEF ReportCompleted, ReportFailed, streamVars
  <2>2. CASE ReportLost(w, u)
    BY <1>a, <1>b, <2>2 DEF ReportLost, schedVars, streamVars
  <2> QED
    BY <1>5, <2>1, <2>2
<1>6. ASSUME NEW w \in Workers,
             \/ DisconnectWorker(w) \/ TripBreaker(w) \/ ResetBreaker(w)
             \/ BreakerCools(w)
      PROVE  Accounted(t)'
  BY <1>6, <1>a, <1>b
     DEF DisconnectWorker, TripBreaker, ResetBreaker, BreakerCools, schedVars, streamVars
<1>7. ASSUME NEW s \in Streams,
             Connect(s) \/ StreamBreaks(s) \/ Receive(s) \/ SendOk(s)
      PROVE  Accounted(t)'
  <2>1. UNCHANGED <<task, submitted, queue, retryQueue, deadLetter, inFlight, completed>>
    BY <1>7 DEF Connect, StreamBreaks, Receive, SendOk, schedVars
  <2>2. \A r \in Streams : Stays(r, t)
    BY <1>0, <1>7 DEF Connect, StreamBreaks, Receive, SendOk, NextTurn, At, Stays
  <2> QED
    BY <1>a, <2>1, <2>2
<1>8. ASSUME NEW s \in Streams, HandlerStep(s) PROVE Accounted(t)'
  <2>1. CASE DequeueTask(s) \/ WriterStep(s) \/ PutBack(s) \/ RequeueTasks(s)
    BY <1>0, <2>1, AccountedHandler
  <2>2. CASE \/ CtxDone(s) \/ Admit(s) \/ Skip(s) \/ DequeueNil(s)
             \/ SendLost(s) \/ ForgetStream(s)
    <3>1. UNCHANGED <<task, submitted, queue, retryQueue, deadLetter, inFlight, completed>>
      BY <2>2 DEF CtxDone, Admit, Skip, DequeueNil, SendLost, ForgetStream, schedVars
    <3>2. \A r \in Streams : Stays(r, t)
      BY <1>0, <2>2
         DEF CtxDone, Admit, Skip, DequeueNil, SendLost, ForgetStream,
             NextTurn, At, Stays
    <3> QED
      BY <1>a, <3>1, <3>2
  <2> QED
    BY <1>8, <2>1, <2>2 DEF HandlerStep, WriterStep
<1>9. ASSUME UNCHANGED vars PROVE Accounted(t)'
  BY <1>9, <1>a, <1>b DEF vars
<1> QED
  BY <1>1, <1>2, <1>3, <1>4, <1>5, <1>6, <1>7, <1>8, <1>9 DEF Next

\* Both invariants about where a task is follow from its being accounted for.
LEMMA AccountedInv == Spec => [](StateMatchesPlace /\ NoTaskLost)
<1>1. Init => AllAccounted
  BY DEF Init, NewScheduler, NewTask, AllAccounted, Accounted, InPlace
<1>2. TypeInv /\ AllAccounted => StateMatchesPlace /\ NoTaskLost
  BY DEF TypeInv, TypeOK, SchedTypeOK, AllAccounted, Accounted,
         StateMatchesPlace, NoTaskLost
<1> QED
  BY TypeInit, TypeNext, AccountedNext, <1>1, <1>2, PTL DEF Spec

\* For any number of tasks, workers and streams, the state of a task and the
\* containers it is in agree between any two steps.
THEOREM PlacesAgree == Spec => []StateMatchesPlace
  BY AccountedInv, PTL

\* For any number of tasks, workers and streams, and whatever reports, breaks
\* and timeouts do, no accepted task is dropped: it is completed, in a queue, in
\* the hand of a handler that puts it back, or in flight where a handler or
\* CheckTimeouts will move it on.
THEOREM NothingLost == Spec => []NoTaskLost
  BY AccountedInv, PTL
-----------------------------------------------------------------------------
(* The promise to a client, AtLeastOnce.  Every task is accounted for, so  *)
(* that none is lost; and every task that is in some place was submitted,  *)
(* so that nothing else is ever handed out.                                *)

Known(t) == \/ queue[t] > 0 \/ retryQueue[t] > 0 \/ deadLetter[t] > 0
            \/ t \in inFlight \/ t \in completed
            \/ \E s \in Streams : Holding(s) /\ held[s] = t

AllKnown == \A t \in Tasks : Known(t) => t \in submitted

\* What is handed to a queue, a handler or a worker was submitted before.
LEMMA KnownNext == TypeInv /\ AllKnown /\ [Next]_vars => AllKnown'
<1> SUFFICES ASSUME TypeInv, AllKnown, [Next]_vars, NEW t \in Tasks, Known(t)'
             PROVE  t \in submitted'
  BY DEF AllKnown
<1>0. /\ queue \in [Tasks -> Nat] /\ retryQueue \in [Tasks -> Nat]
      /\ deadLetter \in [Tasks -> Nat]
      /\ pc \in [Streams -> PC] /\ held \in [Streams -> Tasks \cup {NoTask}]
      /\ \A s \in Streams : Holding(s) => held[s] \in Tasks
      /\ NoTask \notin Tasks
  BY StreamsAssumption DEF TypeInv, TypeOK, SchedTypeOK
<1>1. submitted \subseteq submitted'
  BY DEF Next, vars, schedVars, Submit, enqueue, RetryDLQ, RetryFromDLQ, RetryDue,
         RetryComesDue, Overrun, TaskOverruns, Connect, Receive, HandlerStep,
         CtxDone, Admit, Skip, DequeueNil, DequeueTask, Dequeue, Assign,
         RecordAssign, Start, RecordStart, WriteTask, SendOk, SendLost, SendFail,
         ClearWorker, PutBack,
         ForgetStream, RequeueTasks, RequeueFromWorker, StreamBreaks,
         DisconnectWorker, TripBreaker, ResetBreaker, BreakerCools,
         ReportCompleted, Complete, ReportFailed, Fail, FailAndSchedule,
         ReportLost, RetryTick, ProcessRetries, TimeoutTick, CheckTimeouts
<1>2. SUFFICES Known(t) \/ t \in submitted'
  BY <1>1 DEF AllKnown
\* If no handler takes hold of t, only the containers matter.
<1>a. ASSUME queue'[t] > 0 \/ retryQueue'[t] > 0 \/ deadLetter'[t] > 0
               \/ t \in inFlight' \/ t \in completed' => Known(t),
             \A s \in Streams : (Holding(s) /\ held[s] = t)' =>
                                  Holding(s) /\ held[s] = t
      PROVE  Known(t)
  BY <1>a DEF Known
<1>b. ASSUME UNCHANGED <<pc, held>>
      PROVE  \A s \in Streams : (Holding(s) /\ held[s] = t)' =>
                                  Holding(s) /\ held[s] = t
  BY <1>b DEF Holding
<1>c. ASSUME UNCHANGED <<queue, retryQueue, deadLetter, inFlight, completed>>
      PROVE  queue'[t] > 0 \/ retryQueue'[t] > 0 \/ deadLetter'[t] > 0
               \/ t \in inFlight' \/ t \in completed' => Known(t)
  BY <1>c DEF Known
<1>3. ASSUME NEW u \in Tasks, Submit(u) PROVE Known(t) \/ t \in submitted'
  <2>1. CASE u = t
    BY <1>3, <2>1 DEF Submit, enqueue
  <2>2. CASE u # t
    <3>1. UNCHANGED <<queue[t], retryQueue, deadLetter, inFlight, completed, pc, held>>
      BY <1>0, <1>3, <2>2, PushType DEF Submit, enqueue, Enqueue, Put, streamVars
    <3> QED
      BY <1>a, <1>b, <3>1 DEF Known
  <2> QED
    BY <2>1, <2>2
<1>4. ASSUME NEW u \in Tasks, RetryDLQ(u) PROVE Known(t)
  <2>1. /\ deadLetter[u] > 0 /\ deadLetter' = [deadLetter EXCEPT ![u] = @ - 1]
        /\ queue' = Push(queue, {u})
        /\ UNCHANGED <<retryQueue, inFlight, completed, pc, held>>
    BY <1>4 DEF RetryDLQ, RetryFromDLQ, Enqueue, Put, streamVars
  <2>2. CASE u = t
    BY <2>1, <2>2 DEF Known
  <2>3. CASE u # t
    <3>1. UNCHANGED <<queue[t], deadLetter[t]>>
      BY <1>0, <2>1, <2>3, PushType
    <3> QED
      BY <1>a, <1>b, <2>1, <3>1 DEF Known
  <2> QED
    BY <2>2, <2>3
<1>5. ASSUME NEW u \in Tasks, RetryDue(u) \/ Overrun(u) PROVE Known(t)
  BY <1>5, <1>a, <1>b, <1>c
     DEF RetryDue, RetryComesDue, Overrun, TaskOverruns, streamVars
<1>6. ASSUME NEW k, NEW S \in SUBSET inFlight, FailAndSchedule(k, S),
             \A s \in Streams : (Holding(s) /\ held[s] = t)' =>
                                  Holding(s) /\ held[s] = t
      PROVE  Known(t)
  <2>1. CASE t \in S
    BY <2>1 DEF Known
  <2>2. CASE t \notin S
    <3>1. /\ UNCHANGED <<queue, retryQueue[t], deadLetter[t], completed>>
          /\ t \in inFlight' <=> t \in inFlight
      BY <1>0, <1>6, <2>2, FailLeaves
    <3> QED
      BY <1>6, <1>a, <3>1 DEF Known
  <2> QED
    BY <2>1, <2>2
<1>7. ASSUME RetryTick \/ TimeoutTick PROVE Known(t)
  <2>1. CASE TimeoutTick
    <3>1. \A s \in Streams : (Holding(s) /\ held[s] = t)' => Holding(s) /\ held[s] = t
      BY <1>0, <2>1 DEF TimeoutTick, Holding
    <3>2. PICK k : CheckTimeouts(k)
      BY <2>1 DEF TimeoutTick
    <3> QED
      BY <1>6, <3>1, <3>2 DEF CheckTimeouts, TimedOut
  <2>2. CASE RetryTick
    <3>1. /\ queue'[t] > 0 => queue[t] > 0 \/ retryQueue[t] > 0
          /\ retryQueue'[t] > 0 => retryQueue[t] > 0
          /\ UNCHANGED <<deadLetter, inFlight, completed, pc, held>>
      BY <1>0, <2>2 DEF RetryTick, ProcessRetries, streamVars
    <3> QED
      BY <1>a, <1>b, <3>1 DEF Known
  <2> QED
    BY <1>7, <2>1, <2>2
<1>8. ASSUME NEW w \in Workers, NEW u \in Tasks,
             ReportCompleted(w, u) \/ ReportFailed(w, u) \/ ReportLost(w, u)
      PROVE  Known(t)
  <2>1. CASE ReportCompleted(w, u)
    <3>1. /\ UNCHANGED <<queue, retryQueue, deadLetter, pc, held>>
          /\ inFlight' \subseteq inFlight
          /\ completed' \subseteq completed \cup inFlight
      BY <2>1 DEF ReportCompleted, Complete, streamVars
    <3> QED
      BY <1>a, <1>b, <3>1 DEF Known
  <2>2. CASE ReportFailed(w, u)
    BY <1>6, <1>b, <2>2 DEF ReportFailed, Fail, streamVars
  <2>3. CASE ReportLost(w, u)
    BY <1>a, <1>b, <1>c, <2>3 DEF ReportLost, schedVars, streamVars
  <2> QED
    BY <1>8, <2>1, <2>2, <2>3
<1>9. ASSUME NEW w \in Workers,
             \/ DisconnectWorker(w) \/ TripBreaker(w) \/ ResetBreaker(w)
             \/ BreakerCools(w)
      PROVE  Known(t)
  BY <1>9, <1>a, <1>b, <1>c
     DEF DisconnectWorker, TripBreaker, ResetBreaker, BreakerCools, schedVars, streamVars
<1>10. ASSUME NEW s \in Streams, Connect(s) \/ StreamBreaks(s) \/ Receive(s) \/ SendOk(s)
       PROVE  Known(t)
  <2>1. \A r \in Streams : (Holding(r) /\ held[r] = t)' => Holding(r) /\ held[r] = t
    BY <1>0, <1>10 DEF Connect, StreamBreaks, Receive, SendOk, NextTurn, Holding
  <2>2. UNCHANGED <<queue, retryQueue, deadLetter, inFlight, completed>>
    BY <1>10 DEF Connect, StreamBreaks, Receive, SendOk, schedVars
  <2> QED
    BY <1>a, <1>c, <2>1, <2>2
<1>11. ASSUME NEW s \in Streams, HandlerStep(s) PROVE Known(t)
  <2>1. CASE WriterStep(s)
    <3>1. /\ \A r \in Streams : (Holding(r) /\ held[r] = t)' => Holding(r) /\ held[r] = t
          /\ UNCHANGED <<queue, retryQueue, deadLetter, inFlight, completed>>
      BY <1>0, <2>1
         DEF WriterStep, Assign, RecordAssign, Start, RecordStart, SendFail,
             ClearWorker, WriteTask, Holding
    <3> QED
      BY <1>a, <1>c, <3>1
  <2>2. CASE \/ CtxDone(s) \/ Admit(s) \/ Skip(s) \/ DequeueNil(s)
             \/ SendLost(s) \/ ForgetStream(s)
    <3>1. \A r \in Streams : (Holding(r) /\ held[r] = t)' => Holding(r) /\ held[r] = t
      BY <1>0, <2>2
         DEF CtxDone, Admit, Skip, DequeueNil, SendLost, ForgetStream, NextTurn, Holding
    <3>2. UNCHANGED <<queue, retryQueue, deadLetter, inFlight, completed>>
      BY <2>2 DEF CtxDone, Admit, Skip, DequeueNil, SendLost, ForgetStream, schedVars
    <3> QED
      BY <1>a, <1>c, <3>1, <3>2
  <2>3. CASE DequeueTask(s)
    <3>1. PICK u \in Tasks : Dequeue(u) /\ held' = [held EXCEPT ![s] = u]
      BY <2>3 DEF DequeueTask
    <3>2. /\ queue[u] > 0 /\ queue' = [queue EXCEPT ![u] = @ - 1]
          /\ inFlight' = inFlight \cup {u} /\ pc' = [pc EXCEPT ![s] = "assign"]
          /\ UNCHANGED <<retryQueue, deadLetter, completed>>
      BY <2>3, <3>1 DEF DequeueTask, Dequeue, Take, Front, Queued
    <3>3. CASE u = t
      BY <3>2, <3>3 DEF Known
    <3>4. CASE u # t
      <4>1. \A r \in Streams : (Holding(r) /\ held[r] = t)' => Holding(r) /\ held[r] = t
        BY <1>0, <3>1, <3>2, <3>4 DEF Holding
      <4> QED
        BY <1>0, <1>a, <3>2, <3>4, <4>1 DEF Known
    <3> QED
      BY <3>3, <3>4
  <2>4. CASE PutBack(s)
    <3>1. /\ pc[s] = "unowned" /\ held[s] \in Tasks
          /\ queue' = Push(queue, {held[s]})
          /\ UNCHANGED <<retryQueue, deadLetter, inFlight, completed>>
      BY <1>0, <2>4 DEF PutBack, Enqueue, Put, Holding
    <3>2. \A r \in Streams : (Holding(r) /\ held[r] = t)' => Holding(r) /\ held[r] = t
      BY <1>0, <2>4 DEF PutBack, Holding
    <3>3. CASE held[s] = t
      BY <3>1, <3>3 DEF Known, Holding
    <3>4. CASE held[s] # t
      <4>1. UNCHANGED queue[t]
        BY <1>0, <3>1, <3>4, PushType
      <4> QED
        BY <1>a, <3>1, <3>2, <4>1 DEF Known
    <3> QED
      BY <3>3, <3>4
  <2>5. CASE RequeueTasks(s)
    <3> DEFINE lost == {u \in inFlight : task[u].workerID = StreamWorker[s]}
    <3>1. /\ queue' = Push(queue, lost) /\ inFlight' \subseteq inFlight
          /\ lost \subseteq inFlight
          /\ UNCHANGED <<retryQueue, deadLetter, completed>>
      BY <2>5 DEF RequeueTasks, RequeueFromWorker
    <3> HIDE DEF lost
    <3>2. \A r \in Streams : (Holding(r) /\ held[r] = t)' => Holding(r) /\ held[r] = t
      BY <1>0, <2>5 DEF RequeueTasks, Holding
    <3>3. t \notin lost => UNCHANGED queue[t]
      BY <1>0, <3>1, PushType
    <3> QED
      BY <1>a, <3>1, <3>2, <3>3 DEF Known
  <2> QED
    BY <1>11, <2>1, <2>2, <2>3, <2>4, <2>5 DEF HandlerStep, WriterStep
<1>12. ASSUME UNCHANGED vars PROVE Known(t)
  BY <1>12, <1>a, <1>b, <1>c DEF vars
<1> QED
  BY <1>3, <1>4, <1>5, <1>7, <1>8, <1>9, <1>10, <1>11, <1>12 DEF Next
-----------------------------------------------------------------------------
StepInv == TypeInv /\ AllAccounted /\ AllKnown

\* The status of a task when none is lost.
Bar(t) == IF t \notin submitted THEN "new"
          ELSE IF t \in completed THEN "done"
          ELSE IF deadLetter[t] > 0 THEN "dead" ELSE "pending"

\* Every step of the master is a step of AtLeastOnce, or stutters.
LEMMA RefinementNext ==
  StepInv /\ StepInv' /\ [Next]_vars =>
    [ALO!Next]_<<[t \in Tasks |-> Status(t)], exec>>
<1> SUFFICES ASSUME StepInv, StepInv', [Next]_vars
             PROVE  [ALO!Next]_<<[t \in Tasks |-> Status(t)], exec>>
  OBVIOUS
<1> DEFINE bar == [t \in Tasks |-> Bar(t)]
<1>0. /\ deadLetter \in [Tasks -> Nat] /\ deadLetter' \in [Tasks -> Nat]
      /\ exec \in [Workers -> [Tasks -> Nat]]
      /\ \A s \in Streams : Holding(s) => held[s] \in Tasks /\ held[s] \in submitted
      /\ \A t \in Tasks : deadLetter[t] > 0 \/ t \in completed \/ t \in inFlight
                          => t \in submitted
  BY DEF StepInv, TypeInv, TypeOK, SchedTypeOK, AllKnown, Known
<1>1. /\ [t \in Tasks |-> Status(t)] = bar
      /\ [t \in Tasks |-> Status(t)]' = bar'
  BY DEF StepInv, AllAccounted, Accounted, Status, Bar
<1>a. ASSUME UNCHANGED <<submitted, completed, deadLetter, exec>>
      PROVE  UNCHANGED <<[t \in Tasks |-> Status(t)], exec>>
  BY <1>a, <1>1 DEF Bar
<1>b. ASSUME NEW t \in Tasks, \A u \in Tasks \ {t} : Bar(u)' = Bar(u)
      PROVE  bar' = [bar EXCEPT ![t] = Bar(t)']
  BY <1>b
<1>2. ASSUME NEW t \in Tasks, Submit(t) PROVE ALO!Accept(t)
  <2>1. /\ t \notin submitted /\ submitted' = submitted \cup {t}
        /\ UNCHANGED <<deadLetter, completed, exec>>
    BY <1>2 DEF Submit, enqueue
  <2>2. Bar(t) = "new" /\ Bar(t)' = "pending"
    BY <1>0, <2>1 DEF Bar
  <2>3. \A u \in Tasks \ {t} : Bar(u)' = Bar(u)
    BY <2>1 DEF Bar
  <2> QED
    BY <1>1, <1>b, <2>1, <2>2, <2>3 DEF ALO!Accept
<1>3. ASSUME NEW t \in Tasks, RetryDLQ(t)
      PROVE  ALO!Revive(t) \/ UNCHANGED <<[u \in Tasks |-> Status(u)], exec>>
  <2>1. /\ deadLetter[t] > 0 /\ deadLetter' = [deadLetter EXCEPT ![t] = @ - 1]
        /\ UNCHANGED <<submitted, completed, exec>>
    BY <1>3 DEF RetryDLQ, RetryFromDLQ
  <2>2. \A u \in Tasks \ {t} : Bar(u)' = Bar(u)
    BY <1>0, <2>1 DEF Bar
  <2>3. \/ Bar(t)' = Bar(t)
        \/ Bar(t) = "dead" /\ Bar(t)' = "pending"
    BY <1>0, <2>1 DEF Bar
  <2>4. CASE Bar(t)' = Bar(t)
    BY <1>1, <1>b, <2>1, <2>2, <2>4
  <2>5. CASE Bar(t) = "dead" /\ Bar(t)' = "pending"
    BY <1>1, <1>b, <2>1, <2>2, <2>5 DEF ALO!Revive
  <2> QED
    BY <2>3, <2>4, <2>5
<1>4. ASSUME NEW s \in Streams, SendOk(s) PROVE ALO!HandOut(StreamWorker[s], held[s])
  <2>1. /\ held[s] \in Tasks /\ held[s] \in submitted
        /\ exec' = [exec EXCEPT ![StreamWorker[s]][held[s]] = @ + 1]
        /\ UNCHANGED <<submitted, completed, deadLetter>>
    BY <1>0, <1>4 DEF SendOk, Holding, schedVars
  <2>2. Bar(held[s]) # "new"
    BY <2>1 DEF Bar
  <2>3. bar' = bar
    BY <2>1 DEF Bar
  <2> QED
    BY <1>1, <2>1, <2>2, <2>3 DEF ALO!HandOut
<1>5. ASSUME NEW w \in Workers, NEW t \in Tasks,
             exec[w][t] > 0, exec' = [exec EXCEPT ![w][t] = @ - 1],
             \A u \in Tasks \ {t} : Bar(u)' = Bar(u),
             \/ Bar(t)' = Bar(t)
             \/ Bar(t) \in {"pending", "dead"} /\ Bar(t)' = "done"
             \/ Bar(t) = "pending" /\ Bar(t)' = "dead"
      PROVE  ALO!End(w, t)
  <2>1. bar' = [bar EXCEPT ![t] = Bar(t)']
    BY <1>5, <1>b
  <2>2. bar[t] = Bar(t)
    OBVIOUS
  <2>3. Bar(t)' = Bar(t) => bar' = bar
    BY <2>1
  <2> HIDE DEF bar
  <2> QED
    BY <1>1, <1>5, <2>1, <2>2, <2>3 DEF ALO!End
<1>6. ASSUME NEW w \in Workers, NEW t \in Tasks,
             ReportCompleted(w, t) \/ ReportFailed(w, t) \/ ReportLost(w, t)
      PROVE  ALO!End(w, t)
  <2>1. exec[w][t] > 0 /\ exec' = [exec EXCEPT ![w][t] = @ - 1]
    BY <1>6 DEF ReportCompleted, ReportFailed, ReportLost
  <2>2. CASE ReportCompleted(w, t)
    <3>1. /\ UNCHANGED <<submitted, deadLetter>>
          /\ completed' = IF t \in inFlight THEN completed \cup {t} ELSE completed
      BY <2>2 DEF ReportCompleted, Complete
    <3>2. \A u \in Tasks \ {t} : Bar(u)' = Bar(u)
      BY <3>1 DEF Bar
    <3>3. \/ Bar(t)' = Bar(t)
          \/ Bar(t) \in {"pending", "dead"} /\ Bar(t)' = "done"
      BY <1>0, <3>1 DEF Bar
    <3> QED
      BY <1>5, <2>1, <3>2, <3>3
  <2>3. CASE ReportFailed(w, t)
    <3>1. /\ UNCHANGED <<submitted, completed>>
          /\ \A u \in Tasks : deadLetter'[u] >= deadLetter[u]
          /\ \A u \in Tasks \ {t} : deadLetter'[u] = deadLetter[u]
      BY <1>0, <2>3, PushType DEF ReportFailed, Fail, FailAndSchedule
    <3>2. \A u \in Tasks \ {t} : Bar(u)' = Bar(u)
      BY <3>1 DEF Bar
    <3>3. \/ Bar(t)' = Bar(t)
          \/ Bar(t) = "pending" /\ Bar(t)' = "dead"
      BY <1>0, <3>1 DEF Bar
    <3> QED
      BY <1>5, <2>1, <3>2, <3>3
  <2>4. CASE ReportLost(w, t)
    <3>1. \A u \in Tasks : Bar(u)' = Bar(u)
      BY <2>4 DEF ReportLost, schedVars, Bar
    <3> QED
      BY <1>5, <2>1, <3>1
  <2> QED
    BY <1>6, <2>2, <2>3, <2>4
<1>7. ASSUME TimeoutTick
      PROVE  \E S \in SUBSET Tasks : ALO!GiveUp(S)
  <2> DEFINE S == {t \in Tasks : Bar(t) = "pending" /\ Bar(t)' = "dead"}
  <2>1. /\ UNCHANGED <<submitted, completed, exec>>
        /\ \A u \in Tasks : deadLetter'[u] >= deadLetter[u]
    <3>1. PICK D : deadLetter' = Push(deadLetter, D)
      BY <1>7, Zenon DEF TimeoutTick, CheckTimeouts, FailAndSchedule
    <3>2. UNCHANGED <<submitted, completed, exec>>
      BY <1>7, Zenon DEF TimeoutTick, CheckTimeouts, FailAndSchedule
    <3> QED
      BY <1>0, <3>1, <3>2 DEF Push
  <2>2. \A t \in Tasks : Bar(t)' = IF t \in S THEN "dead" ELSE Bar(t)
    BY <1>0, <2>1 DEF Bar
  <2>3. bar' = [t \in Tasks |-> IF t \in S THEN "dead" ELSE bar[t]]
    BY <2>2
  <2>4. \A t \in S : bar[t] = "pending"
    OBVIOUS
  <2>5. S \in SUBSET Tasks
    OBVIOUS
  <2> HIDE DEF S, bar
  <2>6. ALO!GiveUp(S)
    BY <1>1, <2>1, <2>3, <2>4 DEF ALO!GiveUp
  <2> QED
    BY <2>5, <2>6
<1>8. ASSUME \/ \E t \in Tasks : RetryDue(t) \/ Overrun(t)
             \/ \E s \in Streams : Connect(s) \/ Receive(s) \/ HandlerStep(s)
                                  \/ StreamBreaks(s)
             \/ \E w \in Workers : \/ DisconnectWorker(w) \/ TripBreaker(w)
                                   \/ ResetBreaker(w) \/ BreakerCools(w)
             \/ RetryTick \/ UNCHANGED vars
      PROVE  UNCHANGED <<submitted, completed, deadLetter, exec>>
  BY <1>8
     DEF vars, schedVars, RetryDue, RetryComesDue, Overrun, TaskOverruns, Connect,
         Receive, HandlerStep, CtxDone, Admit, Skip, DequeueNil, DequeueTask,
         Dequeue, Assign, RecordAssign, Start, RecordStart, WriteTask, SendLost,
         SendFail, ClearWorker, PutBack, ForgetStream, RequeueTasks, RequeueFromWorker, StreamBreaks,
         DisconnectWorker, TripBreaker, ResetBreaker, BreakerCools, RetryTick,
         ProcessRetries
<1>9. \A s \in Streams : StreamWorker[s] \in Workers
  BY StreamsAssumption
<1> HIDE DEF bar
<1>10. CASE UNCHANGED <<submitted, completed, deadLetter, exec>>
  BY <1>10, <1>a
<1>11. CASE \E t \in Tasks : Submit(t) \/ RetryDLQ(t)
  BY <1>11, <1>2, <1>3 DEF ALO!Next
<1>12. CASE \E s \in Streams : SendOk(s)
  <2>1. PICK s \in Streams : SendOk(s)
    BY <1>12
  <2>2. held[s] \in Tasks
    BY <1>0, <2>1 DEF SendOk, Holding
  <2> QED
    BY <1>4, <1>9, <2>1, <2>2 DEF ALO!Next
<1>13. CASE \E w \in Workers, t \in Tasks :
              ReportCompleted(w, t) \/ ReportFailed(w, t) \/ ReportLost(w, t)
  BY <1>13, <1>6 DEF ALO!Next
<1>14. CASE TimeoutTick
  BY <1>14, <1>7 DEF ALO!Next
<1> QED
  BY <1>8, <1>10, <1>11, <1>12, <1>13, <1>14 DEF Next

\* For any number of tasks, workers and streams, the master keeps the promise of
\* AtLeastOnce: no accepted task is forgotten, only a worker's report makes one
\* done, done is for good, and what is given up can be revived.
THEOREM MasterAtLeastOnce == Spec => ImplementsAtLeastOnce
<1>1. Init => ALO!Init
  BY DEF Init, NewScheduler, ALO!Init, Status
<1>2. Init => StepInv
  <2>1. Init => AllAccounted
    BY DEF Init, NewScheduler, NewTask, AllAccounted, Accounted, InPlace
  <2>2. Init => AllKnown
    BY DEF Init, NewScheduler, AllKnown, Known, Holding
  <2> QED
    BY <2>1, <2>2, TypeInit DEF StepInv
<1>3. StepInv /\ [Next]_vars => StepInv'
  BY TypeNext, AccountedNext, KnownNext DEF StepInv
<1> QED
  BY <1>1, <1>2, <1>3, RefinementNext, PTL DEF Spec, ImplementsAtLeastOnce, ALO!Spec
-----------------------------------------------------------------------------
(* One copy of every task that the master never took back. *)

\* The handler of s has t in hand.
Holds(s, t) == Holding(s) /\ held[s] = t

Entries(t, q, r, d) == queue[t] = q /\ retryQueue[t] = r /\ deadLetter[t] = d

\* A task that is not in flight: before its next dispatch, or settled ...
Resting(t) ==
  /\ t \notin inFlight
  /\ \A s \in Streams : ~Holds(s, t)
  /\ \A w \in Workers : exec[w][t] = 0
  /\ \/ /\ task[t].state = "QUEUED" /\ task[t].attempt < MaxRetries
        /\ Entries(t, IF t \in submitted THEN 1 ELSE 0, 0, 0) /\ t \notin completed
     \/ /\ task[t].state = "RETRYING" /\ task[t].attempt < MaxRetries
        /\ Entries(t, 0, 1, 0) /\ t \notin completed /\ t \in submitted
     \/ /\ task[t].state = "DEAD" /\ task[t].attempt >= MaxRetries
        /\ Entries(t, 0, 0, 1) /\ t \notin completed /\ t \in submitted
     \/ /\ task[t].state = "COMPLETED"
        /\ Entries(t, 0, 0, 0) /\ t \in completed /\ t \in submitted

\* ... one in the hand of the handler of s, and what its writes have made of it ...
HeldBy(s, t) ==
  /\ Holds(s, t)
  /\ \A r \in Streams \ {s} : ~Holds(r, t)
  /\ \A w \in Workers : exec[w][t] = 0
  /\ pc[s] \notin {"unsent", "unowned"}
  /\ pc[s] = "assign" => task[t].state = "QUEUED"
  /\ pc[s] \in {"assigned", "start"} => task[t].state = "ASSIGNED"
  /\ pc[s] \in {"started", "send"} => task[t].state = "RUNNING"
  /\ pc[s] \in {"assign", "assigned"} => task[t].attempt < MaxRetries
  /\ pc[s] \in {"start", "started", "send"} => task[t].workerID = StreamWorker[s]

\* ... and one that worker w executes, or that it has executed or never got, so
\* that no report will come.
RunningAt(w, t) ==
  /\ \A s \in Streams : ~Holds(s, t)
  /\ task[t].state = "RUNNING" /\ task[t].workerID = w
  /\ exec[w][t] <= 1 /\ \A v \in Workers \ {w} : exec[v][t] = 0

InHand(t) ==
  /\ t \in inFlight /\ t \notin completed /\ t \in submitted
  /\ Entries(t, 0, 0, 0)
  /\ (\E s \in Streams : HeldBy(s, t)) \/ (\E w \in Workers : RunningAt(w, t))

OneCopy(t) == task[t].attempt <= MaxRetries /\ (Resting(t) \/ InHand(t))

CopyInv == \A t \in Tasks \ recalled : OneCopy(t)

\* The fields of a task that matter here.
Is(k, state, attempt, workerID) ==
  k.state = state /\ k.attempt = attempt /\ k.workerID = workerID

\* What the methods of Task write, where each is called for such a task.
LEMMA MethodsWrite ==
  ASSUME NEW k \in Task
  PROVE  /\ k.state = "QUEUED" =>
              Is(AssignState(k), "ASSIGNED", k.attempt, k.workerID)
         /\ \A w \in Workers :
              Is(AssignRest(k, w), k.state, NextAttempt(k.attempt), w)
         /\ \A stale \in BOOLEAN : k.state = "ASSIGNED" =>
              Is(StartState(k, stale), "RUNNING", k.attempt, k.workerID)
         /\ Is(StartRest(k), k.state, k.attempt, k.workerID)
         /\ k.state = "RUNNING" =>
              Is(TaskComplete(k), "COMPLETED", k.attempt, k.workerID)
         /\ k.state = "RETRYING" =>
              Is(TaskRequeue(k), "QUEUED", k.attempt, k.workerID)
         /\ k.state = "DEAD" =>
              Is(TaskRetryFromDLQ(k), "QUEUED", 0, k.workerID)
         /\ k.state = "RUNNING" =>
              Is(ScheduleRetry(TaskFail(k)),
                 IF k.attempt >= MaxRetries THEN "DEAD" ELSE "RETRYING",
                 k.attempt, k.workerID)
<1> USE DEF Is, CanTransition, validTransitions, Transition, Task
<1>1. k.state = "QUEUED" => Is(AssignState(k), "ASSIGNED", k.attempt, k.workerID)
  BY DEF AssignState
<1>2. \A w \in Workers : Is(AssignRest(k, w), k.state, NextAttempt(k.attempt), w)
  BY DEF AssignRest
<1>3. /\ \A stale \in BOOLEAN : k.state = "ASSIGNED" =>
           Is(StartState(k, stale), "RUNNING", k.attempt, k.workerID)
      /\ Is(StartRest(k), k.state, k.attempt, k.workerID)
  BY DEF StartState, StartRest
<1>4. /\ k.state = "RUNNING" =>
           Is(TaskComplete(k), "COMPLETED", k.attempt, k.workerID)
      /\ k.state = "RETRYING" =>
           Is(TaskRequeue(k), "QUEUED", k.attempt, k.workerID)
  BY DEF TaskComplete, TaskRequeue
<1>5. k.state = "DEAD" => Is(TaskRetryFromDLQ(k), "QUEUED", 0, k.workerID)
  BY DEF TaskRetryFromDLQ
<1>6. ASSUME k.state = "RUNNING"
      PROVE  Is(ScheduleRetry(TaskFail(k)),
                IF k.attempt >= MaxRetries THEN "DEAD" ELSE "RETRYING",
                k.attempt, k.workerID)
  <2>1. TaskFail(k) = [k EXCEPT !.state = "FAILED", !.overdue = FALSE]
    BY <1>6 DEF TaskFail
  <2> QED
    BY <2>1 DEF ScheduleRetry
<1> QED
  BY <1>1, <1>2, <1>3, <1>4, <1>5, <1>6

\* Nothing that matters to t changes.
Untouched(t) ==
  /\ task'[t].state = task[t].state /\ task'[t].attempt = task[t].attempt
  /\ task'[t].workerID = task[t].workerID
  /\ UNCHANGED <<queue[t], retryQueue[t], deadLetter[t]>>
  /\ t \in inFlight' <=> t \in inFlight
  /\ t \in completed' <=> t \in completed
  /\ t \in submitted' <=> t \in submitted
  /\ \A w \in Workers : exec'[w][t] = exec[w][t]
  /\ \A s \in Streams : /\ Holds(s, t)' <=> Holds(s, t)
                        /\ Holds(s, t) => UNCHANGED pc[s]

\* Then it stays where it is.
LEMMA CopyUntouched ==
  ASSUME NEW t \in Tasks, OneCopy(t), Untouched(t)
  PROVE  OneCopy(t)'
<1>1. task'[t].attempt <= MaxRetries
  BY DEF OneCopy, Untouched
<1>2. ASSUME Resting(t) PROVE Resting(t)'
  BY <1>2 DEF Untouched, Resting, Entries
<1>3. ASSUME NEW s \in Streams, HeldBy(s, t) PROVE HeldBy(s, t)'
  BY <1>3 DEF Untouched, HeldBy
<1>4. ASSUME NEW w \in Workers, RunningAt(w, t) PROVE RunningAt(w, t)'
  BY <1>4 DEF Untouched, RunningAt
<1>5. ASSUME InHand(t) PROVE InHand(t)'
  BY <1>5, <1>3, <1>4 DEF Untouched, InHand, Entries
<1> QED
  BY <1>1, <1>2, <1>5 DEF OneCopy

\* The clients, the operator, the retry loop and the passing of time.
LEMMA CopyOutside ==
  ASSUME TypeInv, NEW t \in Tasks, OneCopy(t), UNCHANGED <<pc, held, exec>>,
         \/ \E u \in Tasks : enqueue(u) /\ u \notin submitted
         \/ \E u \in Tasks : RetryFromDLQ(u) \/ RetryComesDue(u) \/ TaskOverruns(u)
         \/ ProcessRetries
  PROVE  OneCopy(t)'
<1>0. /\ task \in [Tasks -> Task] /\ task[t] \in Task
      /\ queue \in [Tasks -> Nat] /\ retryQueue \in [Tasks -> Nat]
      /\ deadLetter \in [Tasks -> Nat]
      /\ \A s \in Streams : Holds(s, t)' <=> Holds(s, t)
      /\ MaxRetries \in Nat \ {0}
  BY MaxRetriesAssumption DEF TypeInv, TypeOK, SchedTypeOK, Holds, Holding
<1>a. ASSUME UNCHANGED <<task[t], queue[t], retryQueue[t], deadLetter[t]>>,
             UNCHANGED <<inFlight, completed>>,
             t \in submitted' <=> t \in submitted
      PROVE  OneCopy(t)'
  BY <1>0, <1>a, CopyUntouched DEF Untouched
<1>1. ASSUME NEW u \in Tasks, enqueue(u), u \notin submitted PROVE OneCopy(t)'
  <2>0. /\ queue' = Push(queue, {u}) /\ submitted' = submitted \cup {u}
        /\ UNCHANGED <<task, retryQueue, deadLetter, inFlight, completed>>
    BY <1>1 DEF enqueue, Enqueue, Put
  <2>1. CASE u = t
    <3>1. Resting(t) /\ task[t].state = "QUEUED" /\ queue[t] = 0
      BY <1>1, <2>1 DEF OneCopy, Resting, InHand, Entries
    <3>2. queue'[t] = 1
      BY <1>0, <2>0, <2>1, <3>1 DEF Push
    <3>3. Resting(t)'
      BY <1>0, <2>0, <2>1, <3>1, <3>2 DEF Resting, Entries
    <3> QED
      BY <2>0, <3>3 DEF OneCopy
  <2>2. CASE u # t
    <3>1. UNCHANGED queue[t] /\ (t \in submitted' <=> t \in submitted)
      BY <1>0, <2>0, <2>2, PushType
    <3> QED
      BY <1>a, <2>0, <3>1
  <2> QED
    BY <2>1, <2>2
<1>2. ASSUME NEW u \in Tasks, RetryFromDLQ(u) PROVE OneCopy(t)'
  <2>0. /\ deadLetter[u] > 0 /\ deadLetter' = [deadLetter EXCEPT ![u] = @ - 1]
        /\ task' = [task EXCEPT ![u] = TaskRetryFromDLQ(@)]
        /\ queue' = Push(queue, {u})
        /\ UNCHANGED <<submitted, retryQueue, inFlight, completed>>
    BY <1>2 DEF RetryFromDLQ, Enqueue, Put
  <2>1. CASE u = t
    <3>1. /\ Resting(t) /\ task[t].state = "DEAD" /\ Entries(t, 0, 0, 1)
          /\ t \in submitted /\ t \notin completed
      BY <1>0, <2>0, <2>1 DEF OneCopy, Resting, InHand, Entries
    <3>2. Is(task'[t], "QUEUED", 0, task[t].workerID)
      BY <1>0, <2>0, <2>1, <3>1, MethodsWrite
    <3>3. Entries(t, 1, 0, 0)'
      BY <1>0, <2>0, <2>1, <3>1 DEF Push, Entries
    <3>4. Resting(t)'
      BY <1>0, <2>0, <3>1, <3>2, <3>3 DEF Resting, Is
    <3> QED
      BY <1>0, <3>2, <3>4 DEF OneCopy, Is
  <2>2. CASE u # t
    <3>1. UNCHANGED <<task[t], queue[t], deadLetter[t]>>
      BY <1>0, <2>0, <2>2, PushType
    <3> QED
      BY <1>a, <2>0, <3>1
  <2> QED
    BY <2>1, <2>2
<1>3. ASSUME NEW u \in Tasks, RetryComesDue(u) \/ TaskOverruns(u) PROVE OneCopy(t)'
  <2>1. /\ task'[t].state = task[t].state /\ task'[t].attempt = task[t].attempt
        /\ task'[t].workerID = task[t].workerID
    <3>1. CASE RetryComesDue(u)
      BY <1>0, <3>1 DEF RetryComesDue, Task
    <3>2. CASE TaskOverruns(u)
      BY <1>0, <3>2 DEF TaskOverruns, Task
    <3> QED
      BY <1>3, <3>1, <3>2
  <2>2. UNCHANGED <<submitted, queue, retryQueue, deadLetter, inFlight, completed>>
    BY <1>3 DEF RetryComesDue, TaskOverruns
  <2> QED
    BY <1>0, <2>1, <2>2, CopyUntouched DEF Untouched
<1>4. ASSUME ProcessRetries PROVE OneCopy(t)'
  <2>0. UNCHANGED <<submitted, deadLetter, inFlight, completed>>
    BY <1>4 DEF ProcessRetries
  <2>1. CASE t \in Ready
    <3>1. /\ Resting(t) /\ task[t].state = "RETRYING" /\ Entries(t, 0, 1, 0)
          /\ task[t].attempt < MaxRetries /\ t \in submitted /\ t \notin completed
      BY <1>0, <2>1 DEF Ready, OneCopy, Resting, InHand, Entries
    <3>2. Is(task'[t], "QUEUED", task[t].attempt, task[t].workerID)
      BY <1>0, <1>4, <2>1, <3>1, MethodsWrite DEF ProcessRetries
    <3>3. Entries(t, 1, 0, 0)'
      BY <1>4, <2>0, <2>1, <3>1 DEF ProcessRetries, Entries
    <3>4. Resting(t)'
      BY <1>0, <2>0, <3>1, <3>2, <3>3 DEF Resting, Is
    <3> QED
      BY <3>1, <3>2, <3>4 DEF OneCopy, Is
  <2>2. CASE t \notin Ready
    BY <1>0, <1>4, <1>a, <2>0, <2>2 DEF ProcessRetries
  <2> QED
    BY <2>1, <2>2
<1> QED
  BY <1>1, <1>2, <1>3, <1>4

\* The reports.  Whoever reports t is the worker that executes the one copy.
LEMMA CopyReport ==
  ASSUME TypeInv, NEW t \in Tasks, OneCopy(t), NEW w \in Workers, NEW u \in Tasks,
         ReportCompleted(w, u) \/ ReportFailed(w, u) \/ ReportLost(w, u)
  PROVE  /\ OneCopy(t)'
         /\ u = t => t \in inFlight /\ task[t].state = "RUNNING"
<1>0. /\ task \in [Tasks -> Task] /\ task[t] \in Task
      /\ retryQueue \in [Tasks -> Nat] /\ deadLetter \in [Tasks -> Nat]
      /\ exec \in [Workers -> [Tasks -> Nat]]
      /\ \A s \in Streams : /\ Holds(s, t)' <=> Holds(s, t)
                            /\ UNCHANGED pc[s]
  BY DEF TypeInv, TypeOK, SchedTypeOK, Holds, Holding, ReportCompleted,
         ReportFailed, ReportLost, streamVars
<1>1. exec[w][u] > 0 /\ exec' = [exec EXCEPT ![w][u] = @ - 1]
  BY DEF ReportCompleted, ReportFailed, ReportLost
<1>2. CASE u # t
  <2>1. \A v \in Workers : exec'[v][t] = exec[v][t]
    BY <1>0, <1>1, <1>2
  <2>2. /\ UNCHANGED <<task[t], queue[t], retryQueue[t], deadLetter[t], submitted>>
        /\ t \in inFlight' <=> t \in inFlight
        /\ t \in completed' <=> t \in completed
    <3>1. CASE ReportCompleted(w, u)
      BY <1>0, <1>2, <3>1 DEF ReportCompleted, Complete
    <3>2. CASE ReportFailed(w, u)
      BY <1>0, <1>2, <3>2, PushType DEF ReportFailed, Fail, FailAndSchedule
    <3>3. CASE ReportLost(w, u)
      BY <3>3 DEF ReportLost, schedVars
    <3> QED
      BY <3>1, <3>2, <3>3
  <2> QED
    BY <1>0, <1>2, <2>1, <2>2, CopyUntouched DEF Untouched
<1>3. CASE u = t
  <2>1. InHand(t) /\ RunningAt(w, t)
    BY <1>0, <1>1, <1>3 DEF OneCopy, Resting, InHand, HeldBy, RunningAt
  <2>2. exec[w][t] = 1 /\ \A v \in Workers : exec'[v][t] = 0
    BY <1>0, <1>1, <1>3, <2>1 DEF RunningAt
  <2>3. /\ t \in inFlight /\ t \notin completed /\ t \in submitted
        /\ Entries(t, 0, 0, 0) /\ task[t].state = "RUNNING"
        /\ \A s \in Streams : ~Holds(s, t)'
        /\ task[t].attempt <= MaxRetries
    BY <1>0, <2>1 DEF InHand, RunningAt, OneCopy
  <2>4. CASE ReportCompleted(w, u)
    <3>1. /\ inFlight' = inFlight \ {t} /\ completed' = completed \cup {t}
          /\ task'[t] = TaskComplete(task[t])
          /\ UNCHANGED <<submitted, queue, retryQueue, deadLetter>>
      BY <1>0, <1>3, <2>3, <2>4 DEF ReportCompleted, Complete
    <3>2. Is(task'[t], "COMPLETED", task[t].attempt, task[t].workerID)
      BY <1>0, <2>3, <3>1, MethodsWrite
    <3> QED
      BY <2>2, <2>3, <3>1, <3>2 DEF OneCopy, Resting, Entries, Is
  <2>5. CASE ReportFailed(w, u)
    <3> DEFINE r == ScheduleRetry(TaskFail(task[t]))
    <3>0. {t} \cap inFlight = {t}
      BY <2>3
    <3>1. FailAndSchedule(task, {t})
      BY <1>3, <2>5, <3>0 DEF ReportFailed, Fail
    <3>2. /\ inFlight' = inFlight \ {t} /\ task'[t] = r
          /\ r.state = "DEAD" => Entries(t, 0, 0, 1)'
          /\ r.state # "DEAD" => Entries(t, 0, 1, 0)'
          /\ UNCHANGED <<submitted, completed>>
      BY <1>0, <2>3, <3>1 DEF FailAndSchedule, Push, Entries
    <3>3. Is(r, IF task[t].attempt >= MaxRetries THEN "DEAD" ELSE "RETRYING",
             task[t].attempt, task[t].workerID)
      BY <1>0, <2>3, MethodsWrite
    <3> HIDE DEF r
    <3>4. task[t].attempt \in Int /\ MaxRetries \in Int
      BY <1>0, AttemptFacts, MaxRetriesAssumption DEF Task
    <3> QED
      BY <2>2, <2>3, <3>2, <3>3, <3>4 DEF OneCopy, Resting, Is
  <2>6. CASE ReportLost(w, u)
    <3>1. UNCHANGED schedVars
      BY <2>6 DEF ReportLost
    <3>2. RunningAt(w, t)'
      BY <2>1, <2>2, <2>3, <3>1 DEF RunningAt, schedVars
    <3> QED
      BY <2>3, <3>1, <3>2 DEF OneCopy, InHand, Entries, schedVars
  <2> QED
    BY <1>3, <2>3, <2>4, <2>5, <2>6
<1> QED
  BY <1>2, <1>3

\* The handlers.  A handler is the only one that holds its task, so each of its
\* writes finds what the one before it has left.
LEMMA CopyHandler ==
  ASSUME TypeInv, NEW t \in Tasks, OneCopy(t), NEW s \in Streams,
         DequeueTask(s) \/ WriterStep(s) \/ SendOk(s) \/ SendLost(s)
  PROVE  t \notin recalled' => OneCopy(t)'
<1>0. /\ task \in [Tasks -> Task] /\ task[t] \in Task
      /\ queue \in [Tasks -> Nat] /\ exec \in [Workers -> [Tasks -> Nat]]
      /\ pc \in [Streams -> PC] /\ held \in [Streams -> Tasks \cup {NoTask}]
      /\ StreamWorker[s] \in Workers /\ NoTask \notin Tasks
      /\ Holding(s) => held[s] \in Tasks
      /\ task[t].attempt \in Int /\ MaxRetries \in Nat
  BY StreamsAssumption, AttemptFacts, MaxRetriesAssumption
     DEF TypeInv, TypeOK, SchedTypeOK, Task, Holding
<1>1. CASE DequeueTask(s)
  <2>1. PICK u \in Tasks : Dequeue(u) /\ held' = [held EXCEPT ![s] = u]
    BY <1>1 DEF DequeueTask
  <2>2. /\ pc[s] = "dequeue" /\ pc' = [pc EXCEPT ![s] = "assign"]
        /\ queue[u] > 0 /\ queue' = [queue EXCEPT ![u] = @ - 1]
        /\ inFlight' = inFlight \cup {u}
        /\ UNCHANGED <<task, submitted, retryQueue, deadLetter, completed, exec>>
    BY <1>1, <2>1 DEF DequeueTask, Dequeue, Take, Front, Queued
  <2>3. CASE u = t
    <3>1. /\ Resting(t) /\ task[t].state = "QUEUED" /\ Entries(t, 1, 0, 0)
          /\ task[t].attempt < MaxRetries /\ t \in submitted /\ t \notin completed
      BY <1>0, <2>2, <2>3 DEF OneCopy, Resting, InHand, Entries
    <3>2. Entries(t, 0, 0, 0)'
      BY <1>0, <2>2, <2>3, <3>1 DEF Entries
    <3>3. /\ Holds(s, t)' /\ pc'[s] = "assign"
          /\ \A r \in Streams \ {s} : ~Holds(r, t)'
      BY <1>0, <2>1, <2>2, <2>3, <3>1 DEF Resting, Holds, Holding
    <3>4. HeldBy(s, t)'
      BY <2>2, <3>1, <3>3 DEF HeldBy, Resting
    <3> QED
      BY <2>2, <2>3, <3>1, <3>2, <3>4 DEF OneCopy, InHand
  <2>4. CASE u # t
    <3>1. \A r \in Streams : /\ Holds(r, t)' <=> Holds(r, t)
                             /\ Holds(r, t) => UNCHANGED pc[r]
      BY <1>0, <2>1, <2>2, <2>4 DEF Holds, Holding
    <3> QED
      BY <1>0, <2>2, <2>4, <3>1, CopyUntouched DEF Untouched
  <2> QED
    BY <2>3, <2>4
<1> DEFINE Turn == WriterStep(s) \/ SendOk(s) \/ SendLost(s)
<1>2. ASSUME Turn PROVE Holding(s) /\ held[s] \in Tasks
  BY <1>0, <1>2
     DEF WriterStep, Assign, RecordAssign, Start, RecordStart, SendFail, ClearWorker,
         SendOk, SendLost, Holding
<1>3. CASE Turn /\ held[s] # t
  <2>0. held[s] \in Tasks
    BY <1>2, <1>3
  <2>1. \A r \in Streams : /\ Holds(r, t)' <=> Holds(r, t)
                           /\ Holds(r, t) => UNCHANGED pc[r]
    BY <1>0, <1>3
       DEF WriterStep, Assign, RecordAssign, Start, RecordStart, SendFail,
           ClearWorker, WriteTask, SendOk, SendLost, NextTurn, Holds, Holding
  <2>2. UNCHANGED <<task[t], submitted, queue, retryQueue, deadLetter, inFlight,
                    completed>>
    BY <1>0, <1>3, <2>0
       DEF WriterStep, Assign, RecordAssign, Start, RecordStart, SendFail,
           ClearWorker, WriteTask, SendOk, SendLost, schedVars
  <2>3. \A w \in Workers : exec'[w][t] = exec[w][t]
    BY <1>0, <1>3, <2>0
       DEF WriterStep, Assign, RecordAssign, Start, RecordStart, SendFail,
           ClearWorker, WriteTask, SendOk, SendLost
  <2> QED
    BY <2>1, <2>2, <2>3, CopyUntouched DEF Untouched
<1>4. ASSUME held[s] = t, Turn
      PROVE  InHand(t) /\ HeldBy(s, t)
  <2>1. Holds(s, t)
    BY <1>2, <1>4 DEF Holds
  <2> QED
    BY <2>1 DEF OneCopy, Resting, InHand, HeldBy, RunningAt
\* The task that the handler writes to stays in its hand, one label further.
<1>5. ASSUME NEW k, NEW l \in {"assigned", "start", "started", "send"},
             WriteTask(s, k, l), held[s] = t,
             WriterStep(s), k.attempt <= MaxRetries,
             l = "assigned" => k.attempt < MaxRetries,
             l \in {"assigned", "start"} => k.state = "ASSIGNED",
             l \in {"started", "send"} => k.state = "RUNNING",
             l # "assigned" => k.workerID = StreamWorker[s]
      PROVE  OneCopy(t)'
  <2>1. /\ task'[t] = k /\ pc' = [pc EXCEPT ![s] = l]
        /\ UNCHANGED <<submitted, queue, retryQueue, deadLetter, inFlight,
                       completed, held, exec>>
    BY <1>0, <1>5 DEF WriteTask
  <2>2. InHand(t) /\ HeldBy(s, t)
    BY <1>4, <1>5
  <2>3. l \notin {"assign", "unsent", "unowned"}
    OBVIOUS
  <2>4. Holds(s, t)' /\ pc'[s] = l /\ \A r \in Streams \ {s} : ~Holds(r, t)'
    BY <1>0, <1>5, <2>1, <2>2, <2>3 DEF HeldBy, Holds, Holding
  <2>5. HeldBy(s, t)'
    BY <1>5, <2>1, <2>2, <2>3, <2>4 DEF HeldBy
  <2> QED
    BY <1>5, <2>1, <2>2, <2>5 DEF OneCopy, InHand, Entries
<1>6. CASE WriterStep(s) /\ held[s] = t
  <2>0. HeldBy(s, t) /\ task[t].attempt <= MaxRetries
    BY <1>0, <1>4, <1>6 DEF OneCopy
  <2>1. CASE Assign(s)
    <3>1. task[t].state = "QUEUED" /\ task[t].attempt < MaxRetries
      BY <2>0, <2>1 DEF HeldBy, Assign
    <3>2. CanTransition(task[t], "ASSIGNED")
      BY <3>1 DEF CanTransition, validTransitions
    <3>3. WriteTask(s, AssignState(task[t]), "assigned")
      BY <1>6, <2>1, <3>2 DEF Assign
    <3>4. Is(AssignState(task[t]), "ASSIGNED", task[t].attempt, task[t].workerID)
      BY <1>0, <3>1, MethodsWrite
    <3> QED
      BY <1>5, <1>6, <2>0, <3>1, <3>3, <3>4 DEF Is
  <2>2. CASE RecordAssign(s)
    <3>1. task[t].state = "ASSIGNED" /\ task[t].attempt < MaxRetries
      BY <2>0, <2>2 DEF HeldBy, RecordAssign
    <3>2. WriteTask(s, AssignRest(task[t], StreamWorker[s]), "start")
      BY <1>6, <2>2 DEF RecordAssign
    <3>3. Is(AssignRest(task[t], StreamWorker[s]), task[t].state,
             NextAttempt(task[t].attempt), StreamWorker[s])
      BY <1>0, MethodsWrite
    <3>4. NextAttempt(task[t].attempt) <= MaxRetries
      BY <1>0, <3>1 DEF NextAttempt
    <3> QED
      BY <1>5, <1>6, <3>1, <3>2, <3>3, <3>4 DEF Is
  <2>3. CASE Start(s)
    <3>1. task[t].state = "ASSIGNED" /\ task[t].workerID = StreamWorker[s]
      BY <2>0, <2>3 DEF HeldBy, Start
    <3>2. CanTransition(task[t], "RUNNING")
      BY <3>1 DEF CanTransition, validTransitions
    <3>3. PICK stale \in BOOLEAN : WriteTask(s, StartState(task[t], stale), "started")
      BY <1>6, <2>3, <3>2 DEF Start
    <3>4. Is(StartState(task[t], stale), "RUNNING", task[t].attempt, StreamWorker[s])
      BY <1>0, <3>1, MethodsWrite
    <3> QED
      BY <1>5, <1>6, <2>0, <3>3, <3>4 DEF Is
  <2>4. CASE RecordStart(s)
    <3>1. task[t].state = "RUNNING" /\ task[t].workerID = StreamWorker[s]
      BY <2>0, <2>4 DEF HeldBy, RecordStart
    <3>2. WriteTask(s, StartRest(task[t]), "send")
      BY <1>6, <2>4 DEF RecordStart
    <3>3. Is(StartRest(task[t]), "RUNNING", task[t].attempt, StreamWorker[s])
      BY <1>0, <3>1, MethodsWrite
    <3> QED
      BY <1>5, <1>6, <2>0, <3>2, <3>3 DEF Is
  <2>5. CASE SendFail(s)
    BY <1>6, <2>5 DEF SendFail
  <2>6. ~ClearWorker(s)
    BY <2>0 DEF HeldBy, ClearWorker
  <2> QED
    BY <1>6, <2>1, <2>2, <2>3, <2>4, <2>5, <2>6 DEF WriterStep
<1>7. CASE (SendOk(s) \/ SendLost(s)) /\ held[s] = t
  <2>1. /\ pc[s] = "send" /\ UNCHANGED schedVars
        /\ \/ exec' = [exec EXCEPT ![StreamWorker[s]][t] = @ + 1]
           \/ exec' = exec
        /\ pc' = [pc EXCEPT ![s] = "select"] /\ held' = [held EXCEPT ![s] = NoTask]
    BY <1>7 DEF SendOk, SendLost, NextTurn
  <2>2. InHand(t) /\ HeldBy(s, t) /\ task[t].attempt <= MaxRetries
    BY <1>4, <1>7 DEF OneCopy
  <2>3. \A r \in Streams : ~Holds(r, t)'
    BY <1>0, <2>1, <2>2 DEF HeldBy, Holds, Holding
  <2>4. exec'[StreamWorker[s]][t] <= 1
        /\ \A v \in Workers \ {StreamWorker[s]} : exec'[v][t] = 0
    BY <1>0, <2>1, <2>2 DEF HeldBy
  <2>5. RunningAt(StreamWorker[s], t)'
    BY <1>0, <2>1, <2>2, <2>3, <2>4 DEF RunningAt, HeldBy, schedVars
  <2> QED
    BY <1>0, <2>1, <2>2, <2>5 DEF OneCopy, InHand, Entries, schedVars
<1> QED
  BY <1>1, <1>3, <1>6, <1>7

\* The steps that take tasks back from workers: of a task that is not among
\* those, nothing changes.
LEMMA CopyTakenBack ==
  ASSUME TypeInv, NEW t \in Tasks, OneCopy(t),
         TimeoutTick \/ \E s \in Streams : PutBack(s) \/ RequeueTasks(s)
  PROVE  t \notin recalled' => OneCopy(t)'
<1>0. /\ task \in [Tasks -> Task] /\ queue \in [Tasks -> Nat]
      /\ retryQueue \in [Tasks -> Nat] /\ deadLetter \in [Tasks -> Nat]
      /\ pc \in [Streams -> PC] /\ held \in [Streams -> Tasks \cup {NoTask}]
  BY DEF TypeInv, TypeOK, SchedTypeOK
<1>1. ASSUME TimeoutTick, t \notin recalled' PROVE OneCopy(t)'
  <2>1. PICK k \in [Tasks -> Task], R \in SUBSET Streams :
          /\ CheckTimeouts(k)
          /\ \A s \in R : held[s] \in TimedOut
          /\ pc' = [s \in Streams |-> IF s \in R THEN "unsent" ELSE pc[s]]
          /\ \/ k[t] = task[t] /\ \A s \in R : held[s] # t
             \/ \E s \in R : held[s] = t
    BY <1>0, <1>1, TimeoutWrites
  <2>2. t \notin TimedOut /\ UNCHANGED <<held, exec>>
    BY <1>1 DEF TimeoutTick
  <2>3. k[t] = task[t] /\ \A s \in R : held[s] # t
    BY <2>1, <2>2
  <2>4. /\ UNCHANGED <<task[t], queue, retryQueue[t], deadLetter[t], submitted, completed>>
        /\ t \in inFlight' <=> t \in inFlight
    BY <1>0, <2>1, <2>2, <2>3, FailLeaves DEF CheckTimeouts
  <2>5. \A s \in Streams : /\ Holds(s, t)' <=> Holds(s, t)
                           /\ Holds(s, t) => UNCHANGED pc[s]
    BY <1>0, <2>1, <2>2, <2>3 DEF Holds, Holding
  <2> QED
    BY <2>2, <2>4, <2>5, CopyUntouched DEF Untouched
<1>2. ASSUME NEW s \in Streams, PutBack(s) PROVE OneCopy(t)'
  <2>1. /\ pc[s] = "unowned" /\ queue' = Push(queue, {held[s]})
        /\ held' = [held EXCEPT ![s] = NoTask] /\ pc' = [pc EXCEPT ![s] = "cleanup"]
        /\ UNCHANGED <<task, submitted, retryQueue, deadLetter, inFlight, completed, exec>>
    BY <1>2 DEF PutBack, Enqueue, Put
  <2>2. held[s] # t
    BY <2>1 DEF OneCopy, Resting, InHand, HeldBy, RunningAt, Holds, Holding
  <2>3. UNCHANGED queue[t]
    BY <1>0, <2>1, <2>2, PushType
  <2>4. \A r \in Streams : /\ Holds(r, t)' <=> Holds(r, t)
                           /\ Holds(r, t) => UNCHANGED pc[r]
    BY <1>0, <2>1, <2>2 DEF Holds, Holding
  <2> QED
    BY <2>1, <2>3, <2>4, CopyUntouched DEF Untouched
<1>3. ASSUME NEW s \in Streams, RequeueTasks(s), t \notin recalled' PROVE OneCopy(t)'
  <2> DEFINE lost == {u \in inFlight : task[u].workerID = StreamWorker[s]}
  <2>1. /\ pc[s] = "requeue" /\ pc' = [pc EXCEPT ![s] = "closed"]
        /\ queue' = Push(queue, lost) /\ inFlight' = inFlight \ lost
        /\ task' = [u \in Tasks |-> IF u \in lost THEN TakeBack(task[u]) ELSE task[u]]
        /\ recalled' = recalled \cup (inFlight \ inFlight')
        /\ UNCHANGED <<submitted, retryQueue, deadLetter, completed, held, exec>>
    BY <1>3 DEF RequeueTasks, RequeueFromWorker
  <2>2. t \notin lost
    BY <1>3, <2>1
  <2> HIDE DEF lost
  <2>3. UNCHANGED <<task[t], queue[t]>> /\ (t \in inFlight' <=> t \in inFlight)
    BY <1>0, <2>1, <2>2, PushType
  <2>4. \A r \in Streams : /\ Holds(r, t)' <=> Holds(r, t)
                           /\ Holds(r, t) => UNCHANGED pc[r]
    BY <1>0, <2>1 DEF Holds, Holding
  <2> QED
    BY <2>1, <2>3, <2>4, CopyUntouched DEF Untouched
<1> QED
  BY <1>1, <1>2, <1>3

\* What was ever taken back stays so.
LEMMA RecalledGrows == [Next]_vars => recalled \subseteq recalled'
  BY DEF Next, vars, HandlerStep, Submit, RetryDLQ, RetryDue, Overrun, Connect,
         Receive, CtxDone, Admit, Skip, DequeueNil, DequeueTask, Assign,
         RecordAssign, Start, RecordStart, SendOk, SendLost, SendFail, ClearWorker,
         PutBack, ForgetStream, RequeueTasks, StreamBreaks, DisconnectWorker,
         TripBreaker, ResetBreaker, BreakerCools, ReportCompleted, ReportFailed,
         ReportLost, RetryTick, TimeoutTick

\* Every step keeps one copy of every task that has not been taken back by then.
LEMMA CopyNext == TypeInv /\ CopyInv /\ [Next]_vars => CopyInv'
<1> SUFFICES ASSUME TypeInv, CopyInv, [Next]_vars, NEW t \in Tasks, t \notin recalled'
             PROVE  OneCopy(t)'
  BY DEF CopyInv
<1>0. /\ pc \in [Streams -> PC] /\ held \in [Streams -> Tasks \cup {NoTask}]
      /\ OneCopy(t)
  BY RecalledGrows DEF TypeInv, TypeOK, CopyInv
<1>a. ASSUME UNCHANGED <<task, submitted, queue, retryQueue, deadLetter, inFlight,
                         completed, exec>>,
             \A s \in Streams : /\ Holds(s, t)' <=> Holds(s, t)
                                /\ Holds(s, t) => UNCHANGED pc[s]
      PROVE  OneCopy(t)'
  BY <1>0, <1>a, CopyUntouched DEF Untouched
<1>1. CASE \/ \E u \in Tasks : Submit(u) \/ RetryDLQ(u) \/ RetryDue(u) \/ Overrun(u)
           \/ RetryTick
  BY <1>0, <1>1, CopyOutside
     DEF Submit, RetryDLQ, RetryDue, Overrun, RetryTick, streamVars
<1>2. CASE \E w \in Workers, u \in Tasks :
             ReportCompleted(w, u) \/ ReportFailed(w, u) \/ ReportLost(w, u)
  BY <1>0, <1>2, CopyReport
<1>3. CASE \E s \in Streams : DequeueTask(s) \/ WriterStep(s) \/ SendOk(s) \/ SendLost(s)
  BY <1>0, <1>3, CopyHandler
<1>4. CASE TimeoutTick \/ \E s \in Streams : PutBack(s) \/ RequeueTasks(s)
  BY <1>0, <1>4, CopyTakenBack
<1>5. CASE \E s \in Streams : \/ Connect(s) \/ Receive(s) \/ CtxDone(s) \/ Admit(s)
                              \/ Skip(s) \/ DequeueNil(s) \/ ForgetStream(s)
                              \/ StreamBreaks(s)
  <2>1. UNCHANGED <<task, submitted, queue, retryQueue, deadLetter, inFlight,
                    completed, exec>>
    BY <1>5 DEF Connect, Receive, CtxDone, Admit, Skip, DequeueNil, ForgetStream,
                StreamBreaks, schedVars
  <2>2. \A s \in Streams : /\ Holds(s, t)' <=> Holds(s, t)
                           /\ Holds(s, t) => UNCHANGED pc[s]
    BY <1>0, <1>5
       DEF Connect, Receive, CtxDone, Admit, Skip, DequeueNil, ForgetStream,
           StreamBreaks, Holds, Holding
  <2> QED
    BY <1>a, <2>1, <2>2
<1>6. CASE \/ \E w \in Workers : \/ DisconnectWorker(w) \/ TripBreaker(w)
                                 \/ ResetBreaker(w) \/ BreakerCools(w)
           \/ UNCHANGED vars
  <2>1. UNCHANGED <<task, submitted, queue, retryQueue, deadLetter, inFlight,
                    completed, exec, pc, held>>
    BY <1>6 DEF DisconnectWorker, TripBreaker, ResetBreaker, BreakerCools, schedVars,
                streamVars, vars
  <2> QED
    BY <1>a, <2>1 DEF Holds, Holding
<1> QED
  BY <1>1, <1>2, <1>3, <1>4, <1>5, <1>6 DEF Next, HandlerStep, WriterStep

\* So it is at all times.
LEMMA CopyAlways == Spec => [](TypeInv /\ CopyInv)
<1>1. Init => CopyInv
  <2> SUFFICES ASSUME Init, NEW t \in Tasks PROVE OneCopy(t)
    BY DEF CopyInv
  <2>1. Resting(t)
    BY MaxRetriesAssumption
       DEF Init, NewScheduler, NewTask, Resting, Entries, Holds, Holding
  <2> QED
    BY <2>1, MaxRetriesAssumption DEF Init, NewScheduler, NewTask, OneCopy
<1> QED
  BY <1>1, TypeInit, TypeNext, CopyNext, PTL DEF Spec

\* For any number of tasks, workers and streams, and whatever breaks, no two
\* workers execute the same task, nor one twice, unless the master took the task
\* back from a worker that had not reported; the scheduler knows where it is.
THEOREM OneExecution == Spec => []SingleExecution
<1>1. TypeInv /\ CopyInv => SingleExecution
  <2> SUFFICES ASSUME TypeInv, CopyInv, NEW w \in Workers, NEW t \in Tasks \ recalled,
                      exec[w][t] > 0
               PROVE  /\ exec[w][t] = 1 /\ \A v \in Workers \ {w} : exec[v][t] = 0
                      /\ t \in inFlight /\ task[t].state = "RUNNING"
                      /\ task[t].workerID = w
                      /\ queue[t] = 0 /\ retryQueue[t] = 0 /\ t \notin completed
    BY DEF SingleExecution
  <2>1. exec[w][t] \in Nat /\ OneCopy(t)
    BY DEF TypeInv, TypeOK, CopyInv
  <2>2. InHand(t) /\ RunningAt(w, t)
    BY <2>1 DEF OneCopy, Resting, InHand, HeldBy, RunningAt
  <2> QED
    BY <2>1, <2>2 DEF InHand, RunningAt, Entries
<1> QED
  BY <1>1, CopyAlways, PTL

\* Every completion that a worker reports of a task the master never took back is
\* stored: the task leaves inFlight as COMPLETED.  (Of another task it may not be:
\* run "stored".)
THEOREM CompletionsStored == Spec => StoredUnlessRecalled
<1>1. TypeInv /\ CopyInv /\ [Next]_vars =>
        [\A t \in completed' \ (completed \cup recalled) :
           task'[t].state = "COMPLETED"]_vars
  <2> SUFFICES ASSUME TypeInv, CopyInv, Next, NEW t \in completed' \ completed,
                      t \notin recalled
               PROVE  task'[t].state = "COMPLETED"
    OBVIOUS
  <2>0. completed' \in SUBSET Tasks /\ task \in [Tasks -> Task]
    BY TypeNext DEF TypeInv, TypeOK, SchedTypeOK
  <2>1. PICK w \in Workers, u \in Tasks : ReportCompleted(w, u)
    BY DEF Next, HandlerStep, schedVars, Submit, enqueue, RetryDLQ, RetryFromDLQ,
           RetryDue, RetryComesDue, Overrun, TaskOverruns, Connect, Receive,
           CtxDone, Admit, Skip, DequeueNil, DequeueTask, Dequeue, Assign,
           RecordAssign, Start, RecordStart, WriteTask, SendOk, SendLost, SendFail,
           ClearWorker, PutBack,
           ForgetStream, RequeueTasks, RequeueFromWorker, StreamBreaks,
           DisconnectWorker, TripBreaker, ResetBreaker, BreakerCools,
           ReportFailed, Fail, FailAndSchedule, ReportLost, RetryTick,
           ProcessRetries, TimeoutTick, CheckTimeouts
  <2>2. u = t /\ t \in Tasks
    BY <2>0, <2>1 DEF ReportCompleted, Complete
  <2>3. t \in inFlight /\ task[t].state = "RUNNING"
    BY <2>1, <2>2, CopyReport DEF CopyInv
  <2>4. task'[t] = TaskComplete(task[t])
    BY <2>0, <2>1, <2>2, <2>3 DEF ReportCompleted, Complete
  <2> QED
    BY <2>0, <2>2, <2>3, <2>4, TaskMethodsState
<1> QED
  BY <1>1, CopyAlways, PTL DEF Spec, StoredUnlessRecalled
-----------------------------------------------------------------------------
(* The retry budget. *)

\* What a step can make of a task object: a method of Task, a write of a handler or
\* of the scheduler past the transition table, or the passing of time.
Written(k) ==
  {k, TaskComplete(k), ScheduleRetry(TaskFail(k)), TaskRequeue(k),
   ScheduleRetry(TaskFail(Unsend(k))), Unsend(k), Disown(k),
   TaskRetryFromDLQ(k), TakeBack(k), AssignState(k), StartRest(k),
   [k EXCEPT !.retryDue = TRUE], [k EXCEPT !.overdue = TRUE]}
  \cup {AssignRest(k, w) : w \in Workers}
  \cup {StartState(k, stale) : stale \in BOOLEAN}

\* Nothing else is written to a task, by whatever step of the system.
LEMMA OnlyMethods ==
  ASSUME TypeInv, [Next]_vars, NEW t \in Tasks
  PROVE  task'[t] \in Written(task[t])
<1>0. /\ task \in [Tasks -> Task]
      /\ \A s \in Streams : Holding(s) => held[s] \in Tasks
      /\ \A s \in Streams : StreamWorker[s] \in Workers
  BY StreamsAssumption DEF TypeInv, TypeOK, SchedTypeOK
<1>1. ASSUME UNCHANGED task PROVE task'[t] \in Written(task[t])
  BY <1>1 DEF Written
<1>2. ASSUME NEW u \in Tasks, NEW k \in Written(task[u]),
             task' = [task EXCEPT ![u] = k]
      PROVE  task'[t] \in Written(task[t])
  BY <1>0, <1>2 DEF Written
<1>3. ASSUME NEW k, NEW S, FailAndSchedule(k, S), k[t] \in {task[t], Unsend(task[t])}
      PROVE  task'[t] \in Written(task[t])
  BY <1>3 DEF FailAndSchedule, Written
<1>4. ASSUME NEW u \in Tasks,
             Submit(u) \/ RetryDLQ(u) \/ RetryDue(u) \/ Overrun(u)
      PROVE  task'[t] \in Written(task[t])
  <2>1. CASE Submit(u)
    BY <1>1, <2>1 DEF Submit, enqueue
  <2>2. CASE RetryDLQ(u)
    BY <1>2, <2>2 DEF RetryDLQ, RetryFromDLQ, Written
  <2>3. CASE RetryDue(u)
    BY <1>2, <2>3 DEF RetryDue, RetryComesDue, Written
  <2>4. CASE Overrun(u)
    BY <1>2, <2>4 DEF Overrun, TaskOverruns, Written
  <2> QED
    BY <1>4, <2>1, <2>2, <2>3, <2>4
<1>5. ASSUME NEW w \in Workers, NEW u \in Tasks,
             ReportCompleted(w, u) \/ ReportFailed(w, u) \/ ReportLost(w, u)
      PROVE  task'[t] \in Written(task[t])
  <2>1. CASE ReportCompleted(w, u)
    BY <1>1, <1>2, <2>1 DEF ReportCompleted, Complete, Written
  <2>2. CASE ReportFailed(w, u)
    BY <1>3, <2>2 DEF ReportFailed, Fail
  <2>3. CASE ReportLost(w, u)
    BY <1>1, <2>3 DEF ReportLost, schedVars
  <2> QED
    BY <1>5, <2>1, <2>2, <2>3
<1>6. ASSUME NEW s \in Streams, WriterStep(s)
      PROVE  task'[t] \in Written(task[t])
  <2>1. held[s] \in Tasks
    BY <1>0, <1>6
       DEF WriterStep, Assign, RecordAssign, Start, RecordStart, SendFail,
           ClearWorker, Holding
  <2>2. \E k \in Written(task[held[s]]) : task' = [task EXCEPT ![held[s]] = k]
    BY <1>0, <1>6
       DEF WriterStep, Assign, RecordAssign, Start, RecordStart, WriteTask,
           SendFail, ClearWorker, Written
  <2> QED
    BY <1>2, <2>1, <2>2
<1>7. ASSUME NEW s \in Streams, RequeueTasks(s)
      PROVE  task'[t] \in Written(task[t])
  BY <1>7 DEF RequeueTasks, RequeueFromWorker, Written
<1>8. CASE RetryTick
  BY <1>8 DEF RetryTick, ProcessRetries, Written
<1>9. CASE TimeoutTick
  <2>1. PICK k : CheckTimeouts(k) /\ k[t] \in {task[t], Unsend(task[t])}
    BY <1>0, <1>9, TimeoutWrites
  <2> QED
    BY <1>3, <2>1 DEF CheckTimeouts
<1>10. CASE \/ \E s \in Streams : \/ Connect(s) \/ Receive(s) \/ SendOk(s)
                                  \/ StreamBreaks(s) \/ CtxDone(s) \/ Admit(s)
                                  \/ Skip(s) \/ DequeueNil(s) \/ DequeueTask(s)
                                  \/ SendLost(s) \/ PutBack(s) \/ ForgetStream(s)
            \/ \E w \in Workers : \/ DisconnectWorker(w) \/ TripBreaker(w)
                                  \/ ResetBreaker(w) \/ BreakerCools(w)
            \/ UNCHANGED vars
  BY <1>1, <1>10
     DEF Connect, Receive, SendOk, StreamBreaks, CtxDone, Admit, Skip, DequeueNil,
         DequeueTask, Dequeue, SendLost, PutBack, ForgetStream, DisconnectWorker,
         TripBreaker, ResetBreaker, BreakerCools, schedVars, vars
<1> QED
  BY <1>4, <1>5, <1>6, <1>7, <1>8, <1>9, <1>10 DEF Next, HandlerStep, WriterStep

\* A task that is DEAD has no attempts left.
Spent(k) == k.state = "DEAD" => k.attempt >= MaxRetries

\* Nothing that can be written to a task revokes that.
LEMMA SpentWritten ==
  ASSUME NEW k \in Task, Spent(k), NEW n \in Written(k)
  PROVE  Spent(n)
<1> USE DEF Spent, Task, CanTransition, validTransitions, Transition
<1>0. k.attempt \in Int /\ MaxRetries \in Int
  BY AttemptFacts, MaxRetriesAssumption
<1>1. \A j \in Task : Spent(j) => Spent(ScheduleRetry(j))
  BY DEF ScheduleRetry
<1>2. TaskFail(k) \in Task /\ Spent(TaskFail(k))
  BY TaskMethodsType DEF TaskFail
<1>6. Spent(Unsend(k)) /\ Spent(Disown(k))
  BY DEF Unsend, Disown
<1>7. TaskFail(Unsend(k)) \in Task /\ Spent(TaskFail(Unsend(k)))
  BY TaskMethodsType DEF TaskFail, Unsend
<1>3. /\ Spent(TaskComplete(k)) /\ Spent(TaskRequeue(k)) /\ Spent(TakeBack(k))
      /\ Spent(AssignState(k)) /\ Spent(StartRest(k)) /\ Spent(TaskRetryFromDLQ(k))
      /\ Spent([k EXCEPT !.retryDue = TRUE]) /\ Spent([k EXCEPT !.overdue = TRUE])
  BY DEF TaskComplete, TaskRequeue, TakeBack, AssignState, StartRest,
         TaskRetryFromDLQ
<1>4. \A stale \in BOOLEAN : Spent(StartState(k, stale))
  BY DEF StartState
<1>5. \A w \in Workers : Spent(AssignRest(k, w))
  BY <1>0 DEF AssignRest, NextAttempt
<1> QED
  BY <1>1, <1>2, <1>3, <1>4, <1>5, <1>6, <1>7 DEF Written

AllSpent == \A t \in Tasks : Spent(task[t])

\* For any number of tasks, workers and streams a task is given up only with no
\* attempts left, whatever late reports, timeouts and broken streams do to it;
\* and one that was never taken back waits for a retry only with attempts left
\* and is never dispatched more often than MaxRetries.
THEOREM BudgetKept == Spec => []RetryBudget
<1>1. Init => AllSpent
  BY DEF Init, NewScheduler, NewTask, AllSpent, Spent
<1>2. TypeInv /\ AllSpent /\ [Next]_vars => AllSpent'
  <2> SUFFICES ASSUME TypeInv, AllSpent, [Next]_vars, NEW t \in Tasks
               PROVE  Spent(task'[t])
    BY DEF AllSpent, Spent
  <2>1. task[t] \in Task /\ Spent(task[t])
    BY DEF TypeInv, TypeOK, SchedTypeOK, AllSpent
  <2>2. task'[t] \in Written(task[t])
    BY OnlyMethods
  <2> QED
    BY <2>1, <2>2, SpentWritten
<1>3. CopyInv /\ AllSpent => RetryBudget
  <2>1. ASSUME CopyInv, NEW t \in Tasks \ recalled
        PROVE  /\ task[t].state = "RETRYING" => task[t].attempt < MaxRetries
               /\ task[t].attempt <= MaxRetries
    BY <2>1 DEF CopyInv, OneCopy, Resting, InHand, HeldBy, RunningAt, Holds, Holding
  <2> QED
    BY <2>1 DEF RetryBudget, AllSpent, Spent
<1> QED
  BY <1>1, <1>2, <1>3, TypeInit, TypeNext, CopyAlways, PTL DEF Spec
=============================================================================
