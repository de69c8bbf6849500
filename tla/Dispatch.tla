------------------------------ MODULE Dispatch ------------------------------
(***************************************************************************)
(* How a task gets from a client to a worker and back: the scheduler, the  *)
(* AssignTask stream handlers and the ReportTaskStatus handler of          *)
(* internal/server/node_server.go, the per-worker circuit breakers, the    *)
(* background loop, the operator's HTTP calls, and, as far as the master   *)
(* sees them, the workers.                                                 *)
(*                                                                         *)
(* A stream is one call of AssignTask, that is one life of a worker        *)
(* process; two streams may carry the same worker id, because the id is    *)
(* hostname and pid and a restarted container has both again.  Scheduler   *)
(* methods are atomic (Scheduler.mu); between them the handlers interleave *)
(* freely.  In particular Assign, Start and what follows a failed Send     *)
(* write the Task outside the lock, after Dequeue has published it in      *)
(* inFlight: State in one step and what belongs to it in another.          *)
(***************************************************************************)
EXTENDS Scheduler, CircuitBreaker

CONSTANTS
  Streams,        \* AssignTask calls
  StreamWorker,   \* the WorkerId each registers with
  Flaky,          \* streams that may break or be disconnected
  SlowTasks,      \* tasks whose execution may outlast TimeoutSec
  Operated,       \* workers whose breaker the operator may trip and reset
  NoTask, NoStream,
  MaxDLQRetries   \* bound on the operator's retries from the dead letter queue

ASSUME StreamsAssumption == /\ StreamWorker \in [Streams -> Workers]
                            /\ Flaky \subseteq Streams
                            /\ SlowTasks \subseteq Tasks
                            /\ Operated \subseteq Workers
                            /\ NoTask \notin Tasks
                            /\ NoStream \notin Streams
                            /\ MaxDLQRetries \in Nat

VARIABLES
  pc,             \* where each handler is in AssignTask
  held,           \* its local variable t
  conn,           \* "open"; "cancelled" by DisconnectWorker; "broken" connection
  workerStreams,  \* NodeServer.workerStreams: whose cancel function is kept
  exec,           \* executions of a task on a worker whose report may yet arrive
  cb,             \* the circuit breakers
  dlqRetries,     \* retries from the dead letter queue so far
  recalled        \* history: the tasks the master ever took back from a
                  \* worker without a report

streamVars == <<pc, held, conn, workerStreams>>
vars == <<task, submitted, queue, retryQueue, deadLetter, inFlight, completed,
          notify, pc, held, conn, workerStreams, exec, cb, dlqRetries, recalled>>

PC == {"new", "select", "check", "dequeue", "assign", "assigned", "start",
       "started", "send", "unsent", "unowned", "cleanup", "requeue", "closed"}

\* The handler is between Dequeue and the end of its turn.
Holding(s) == pc[s] \in {"assign", "assigned", "start", "started", "send",
                         "unsent", "unowned"}

TypeOK ==
  /\ SchedTypeOK
  /\ pc \in [Streams -> PC]
  /\ held \in [Streams -> Tasks \cup {NoTask}]
  /\ \A s \in Streams : Holding(s) => held[s] \in Tasks
  /\ conn \in [Streams -> {"open", "cancelled", "broken"}]
  /\ workerStreams \in [Workers -> Streams \cup {NoStream}]
  /\ exec \in [Workers -> [Tasks -> Nat]]
  /\ cb \in [Workers -> Breaker]
  /\ dlqRetries \in Nat
  /\ recalled \in SUBSET Tasks

Init ==
  /\ NewScheduler
  /\ pc = [s \in Streams |-> "new"]
  /\ held = [s \in Streams |-> NoTask]
  /\ conn = [s \in Streams |-> "open"]
  /\ workerStreams = [w \in Workers |-> NoStream]
  /\ exec = [w \in Workers |-> [t \in Tasks |-> 0]]
  /\ cb = [w \in Workers |-> NewBreaker]
  /\ dlqRetries = 0
  /\ recalled = {}
-----------------------------------------------------------------------------
(* Clients and operator: the HTTP handlers of the master. *)

\* NodeServer.enqueue, which gives the new task to the scheduler.
enqueue(t) ==
  /\ submitted' = submitted \cup {t}
  /\ Enqueue(t)
  /\ UNCHANGED <<task, retryQueue, deadLetter, inFlight, completed>>

\* One task of a request; a batch is as many steps, between which others run.
Submit(t) ==
  /\ t \notin submitted
  /\ enqueue(t)
  /\ UNCHANGED <<streamVars, exec, cb, dlqRetries, recalled>>

RetryDLQ(t) ==
  /\ dlqRetries < MaxDLQRetries
  /\ dlqRetries' = dlqRetries + 1
  /\ RetryFromDLQ(t)
  /\ UNCHANGED <<streamVars, exec, cb, recalled>>

DisconnectWorker(w) ==
  /\ workerStreams[w] \in Flaky
  /\ conn[workerStreams[w]] = "open"
  /\ conn' = [conn EXCEPT ![workerStreams[w]] = "cancelled"]
  /\ UNCHANGED <<schedVars, pc, held, workerStreams, exec, cb, dlqRetries, recalled>>

TripBreaker(w) ==
  /\ w \in Operated
  /\ cb' = [cb EXCEPT ![w] = Trip(@)]
  /\ UNCHANGED <<schedVars, streamVars, exec, dlqRetries, recalled>>

ResetBreaker(w) ==
  /\ w \in Operated
  /\ cb' = [cb EXCEPT ![w] = Reset(@)]
  /\ UNCHANGED <<schedVars, streamVars, exec, dlqRetries, recalled>>
-----------------------------------------------------------------------------
(* The AssignTask handler of stream s. *)

\* A second process with the same id starts only when the first has gone.
Connect(s) ==
  /\ pc[s] = "new"
  /\ \A r \in Streams \ {s} : StreamWorker[r] = StreamWorker[s] =>
       pc[r] \in {"new", "closed"} \/ conn[r] = "broken"
  /\ pc' = [pc EXCEPT ![s] = "select"]
  /\ workerStreams' = [workerStreams EXCEPT ![StreamWorker[s]] = s]
  /\ UNCHANGED <<schedVars, held, conn, exec, cb, dlqRetries, recalled>>

Receive(s) ==
  /\ pc[s] = "select" /\ notify
  /\ notify' = FALSE
  /\ pc' = [pc EXCEPT ![s] = "check"]
  /\ UNCHANGED <<task, submitted, queue, retryQueue, deadLetter, inFlight,
                 completed, held, conn, workerStreams, exec, cb, dlqRetries, recalled>>

CtxDone(s) ==
  /\ pc[s] = "select" /\ conn[s] # "open"
  /\ pc' = [pc EXCEPT ![s] = "cleanup"]
  /\ UNCHANGED <<schedVars, held, conn, workerStreams, exec, cb, dlqRetries, recalled>>

Admit(s) ==
  LET w == StreamWorker[s]
  IN  /\ pc[s] = "check" /\ Allow(cb[w])
      /\ cb' = [cb EXCEPT ![w] = AfterAllow(@)]
      /\ pc' = [pc EXCEPT ![s] = "dequeue"]
      /\ UNCHANGED <<schedVars, held, conn, workerStreams, exec, dlqRetries, recalled>>

\* A handler that skips its turn and keeps the signal it consumed.
Skip_NoSignal(s) ==
  /\ pc[s] = "check" /\ ~Allow(cb[StreamWorker[s]])
  /\ pc' = [pc EXCEPT ![s] = "select"]
  /\ UNCHANGED <<schedVars, held, conn, workerStreams, exec, cb, dlqRetries, recalled>>

Skip(s) ==
  /\ pc[s] = "check" /\ ~Allow(cb[StreamWorker[s]])
  /\ Notify
  /\ pc' = [pc EXCEPT ![s] = "select"]
  /\ UNCHANGED <<task, submitted, queue, retryQueue, deadLetter, inFlight,
                 completed, held, conn, workerStreams, exec, cb, dlqRetries, recalled>>

DequeueNil(s) ==
  /\ pc[s] = "dequeue" /\ QueueEmpty
  /\ pc' = [pc EXCEPT ![s] = "select"]
  /\ UNCHANGED <<schedVars, held, conn, workerStreams, exec, cb, dlqRetries, recalled>>

DequeueTask(s) ==
  /\ pc[s] = "dequeue"
  /\ \E t \in Tasks : /\ Dequeue(t)
                      /\ held' = [held EXCEPT ![s] = t]
  /\ pc' = [pc EXCEPT ![s] = "assign"]
  /\ UNCHANGED <<conn, workerStreams, exec, cb, dlqRetries, recalled>>

\* The handler writes its task and goes on to label l.
WriteTask(s, k, l) ==
  /\ task' = [task EXCEPT ![held[s]] = k]
  /\ pc' = [pc EXCEPT ![s] = l]
  /\ UNCHANGED <<submitted, queue, retryQueue, deadLetter, inFlight, completed,
                 notify, held, conn, workerStreams, exec, cb, dlqRetries>>

\* Assign: what Transition does to State, and after it WorkerID and Attempt.  If
\* Transition refuses, nothing more is written and the error is dropped.
Assign(s) ==
  LET k == task[held[s]]
  IN  /\ pc[s] = "assign"
      /\ WriteTask(s, AssignState(k),
                   IF CanTransition(k, "ASSIGNED") THEN "assigned" ELSE "start")
      /\ UNCHANGED recalled

RecordAssign(s) ==
  /\ pc[s] = "assigned"
  /\ WriteTask(s, AssignRest(task[held[s]], StreamWorker[s]), "start")
  /\ UNCHANGED recalled

\* Start: likewise State, and after it StartedAt.
Start(s) ==
  LET k == task[held[s]]
  IN  /\ pc[s] = "start"
      /\ \E stale \in BOOLEAN :
           WriteTask(s, StartState(k, stale),
                     IF CanTransition(k, "RUNNING") THEN "started" ELSE "send")
      /\ UNCHANGED recalled

RecordStart(s) ==
  /\ pc[s] = "started"
  /\ WriteTask(s, StartRest(task[held[s]]), "send")
  /\ UNCHANGED recalled

\* The loop goes round: t of this turn is out of scope.
NextTurn(s) == /\ pc' = [pc EXCEPT ![s] = "select"]
               /\ held' = [held EXCEPT ![s] = NoTask]

\* Send returned nil and the worker runs the assignment ...
SendOk(s) ==
  /\ pc[s] = "send" /\ conn[s] # "broken"
  /\ exec' = [exec EXCEPT ![StreamWorker[s]][held[s]] = @ + 1]
  /\ NextTurn(s)
  /\ UNCHANGED <<schedVars, conn, workerStreams, cb, dlqRetries, recalled>>

\* ... or had gone before the assignment reached it.
SendLost(s) ==
  /\ pc[s] = "send" /\ conn[s] = "broken"
  /\ NextTurn(s)
  /\ UNCHANGED <<schedVars, conn, workerStreams, exec, cb, dlqRetries, recalled>>

\* Send failed.  The handler resets the task, statement by statement and without
\* a lock: State, whatever it is by now ...
SendFail(s) ==
  /\ pc[s] = "send" /\ conn[s] = "broken"
  /\ WriteTask(s, Unsend(task[held[s]]), "unsent")
  /\ recalled' = recalled \cup {held[s]}

\* ... then WorkerID ...
ClearWorker(s) ==
  /\ pc[s] = "unsent"
  /\ WriteTask(s, Disown(task[held[s]]), "unowned")
  /\ UNCHANGED recalled

\* A failed Send that returns without putting the task back.
PutBack_Drop(s) ==
  /\ pc[s] = "unowned"
  /\ held' = [held EXCEPT ![s] = NoTask]
  /\ pc' = [pc EXCEPT ![s] = "cleanup"]
  /\ UNCHANGED <<schedVars, conn, workerStreams, exec, cb, dlqRetries, recalled>>

\* ... and puts it back in the queue.  It stays in inFlight too.
PutBack(s) ==
  /\ pc[s] = "unowned"
  /\ Enqueue(held[s])
  /\ held' = [held EXCEPT ![s] = NoTask]
  /\ pc' = [pc EXCEPT ![s] = "cleanup"]
  /\ UNCHANGED <<task, submitted, retryQueue, deadLetter, inFlight, completed,
                 conn, workerStreams, exec, cb, dlqRetries, recalled>>

\* The deferred function, under streamMu: delete removes whatever cancel
\* function the id has by now ...
ForgetStream(s) ==
  /\ pc[s] = "cleanup"
  /\ workerStreams' = [workerStreams EXCEPT ![StreamWorker[s]] = NoStream]
  /\ pc' = [pc EXCEPT ![s] = "requeue"]
  /\ UNCHANGED <<schedVars, held, conn, exec, cb, dlqRetries, recalled>>

\* ... and then, under Scheduler.mu, the tasks are taken back.
RequeueTasks(s) ==
  /\ pc[s] = "requeue"
  /\ RequeueFromWorker(StreamWorker[s])
  /\ recalled' = recalled \cup (inFlight \ inFlight')
  /\ pc' = [pc EXCEPT ![s] = "closed"]
  /\ UNCHANGED <<held, conn, workerStreams, exec, cb, dlqRetries>>
-----------------------------------------------------------------------------
(* Workers. *)

\* The connection is lost, the process dies, or it got SIGTERM and cancels
\* the stream while its executions go on.
StreamBreaks(s) ==
  /\ s \in Flaky /\ pc[s] \notin {"new", "closed"} /\ conn[s] # "broken"
  /\ conn' = [conn EXCEPT ![s] = "broken"]
  /\ UNCHANGED <<schedVars, pc, held, workerStreams, exec, cb, dlqRetries, recalled>>

ReportCompleted(w, t) ==
  /\ exec[w][t] > 0
  /\ exec' = [exec EXCEPT ![w][t] = @ - 1]
  /\ Complete(t)
  /\ cb' = [cb EXCEPT ![w] = RecordSuccess(@)]
  /\ UNCHANGED <<streamVars, dlqRetries, recalled>>

ReportFailed(w, t) ==
  /\ exec[w][t] > 0
  /\ exec' = [exec EXCEPT ![w][t] = @ - 1]
  /\ Fail(t)
  /\ cb' = [cb EXCEPT ![w] = RecordFailure(@)]
  /\ UNCHANGED <<streamVars, dlqRetries, recalled>>

\* The call fails, and is not made again, or the process dies first.
ReportLost(w, t) ==
  /\ exec[w][t] > 0
  /\ exec' = [exec EXCEPT ![w][t] = @ - 1]
  /\ UNCHANGED <<schedVars, streamVars, cb, dlqRetries, recalled>>
-----------------------------------------------------------------------------
(* The background loop of the master, and time. *)

RetryTick == ProcessRetries /\ UNCHANGED <<streamVars, exec, cb, dlqRetries, recalled>>

\* Between CheckTimeouts' look at a task and its call of t.Fail, the handlers in
\* R, whose Send has failed, write State = QUEUED: t.Fail then changes nothing.
TimeoutTick ==
  \E R \in SUBSET {s \in Streams : /\ pc[s] = "send" /\ conn[s] = "broken"
                                   /\ held[s] \in TimedOut} :
    /\ CheckTimeouts([t \in Tasks |-> IF \E s \in R : held[s] = t
                                         THEN Unsend(task[t]) ELSE task[t]])
    /\ pc' = [s \in Streams |-> IF s \in R THEN "unsent" ELSE pc[s]]
    /\ recalled' = recalled \cup TimedOut
    /\ UNCHANGED <<held, conn, workerStreams, exec, cb, dlqRetries>>

RetryDue(t) == RetryComesDue(t) /\ UNCHANGED <<streamVars, exec, cb, dlqRetries, recalled>>

Overrun(t) == /\ t \in SlowTasks
              /\ TaskOverruns(t)
              /\ UNCHANGED <<streamVars, exec, cb, dlqRetries, recalled>>

BreakerCools(w) ==
  /\ cb[w].state = "OPEN" /\ ~cb[w].cooled
  /\ cb' = [cb EXCEPT ![w] = Cool(@)]
  /\ UNCHANGED <<schedVars, streamVars, exec, dlqRetries, recalled>>
-----------------------------------------------------------------------------
HandlerStep(s) ==
  \/ CtxDone(s) \/ Admit(s) \/ Skip(s) \/ DequeueNil(s) \/ DequeueTask(s)
  \/ Assign(s) \/ RecordAssign(s) \/ Start(s) \/ RecordStart(s)
  \/ SendLost(s) \/ SendFail(s) \/ ClearWorker(s) \/ PutBack(s)
  \/ ForgetStream(s) \/ RequeueTasks(s)

Next ==
  \/ \E t \in Tasks : Submit(t) \/ RetryDLQ(t) \/ RetryDue(t) \/ Overrun(t)
  \/ \E s \in Streams : \/ Connect(s) \/ Receive(s) \/ HandlerStep(s)
                        \/ SendOk(s) \/ StreamBreaks(s)
  \/ \E w \in Workers : \/ DisconnectWorker(w)
                        \/ TripBreaker(w) \/ ResetBreaker(w) \/ BreakerCools(w)
  \/ \E w \in Workers, t \in Tasks :
       ReportCompleted(w, t) \/ ReportFailed(w, t) \/ ReportLost(w, t)
  \/ RetryTick \/ TimeoutTick

Spec == Init /\ [][Next]_vars

\* Handlers run, tickers fire and time passes.  Goroutines blocked on a Go
\* channel are served first in, first out, so none waits for a signal forever
\* while others are served.  Send returns on a stream that does not fail; on
\* another it may wait for ever for a worker that is full.  Clients, operators,
\* reports and failures promise nothing.
Fairness ==
  /\ \A s \in Streams : WF_vars(HandlerStep(s)) /\ SF_vars(Receive(s))
  /\ \A s \in Streams \ Flaky : WF_vars(Connect(s)) /\ WF_vars(SendOk(s))
  /\ \A t \in Tasks : WF_vars(RetryDue(t)) /\ WF_vars(Overrun(t))
  /\ \A w \in Workers : WF_vars(BreakerCools(w))
  /\ WF_vars(RetryTick) /\ WF_vars(TimeoutTick)

FairSpec == Spec /\ Fairness
-----------------------------------------------------------------------------
(* Safety. *)

\* No lost wake-up: while the priority queue is not empty, the one-slot notify
\* channel holds a signal or some handler has taken it and has not looked at
\* the queue yet.  This is what the re-arm in Scheduler.Dequeue and the
\* Notify of a handler whose breaker is open are for.
NoLostWakeup ==
  ~QueueEmpty => notify \/ \E s \in Streams : pc[s] \in {"check", "dequeue"}

\* The handler of s is at label l with task t in hand.
At(s, l, t) == pc[s] = l /\ held[s] = t

InPlace(t) ==
  /\ task[t].state # "FAILED"
  /\ task[t].state = "ASSIGNED" =>
       \E s \in Streams : At(s, "assigned", t) \/ At(s, "start", t)
  /\ task[t].state = "RETRYING" => retryQueue[t] > 0
  /\ task[t].state = "DEAD" => deadLetter[t] > 0
  /\ task[t].state = "COMPLETED" => t \in completed

\* State and place agree, although Assign, Start and the writes of a failed Send
\* happen outside the scheduler's lock: a task is ASSIGNED only while a handler
\* is about to start it, RETRYING only with an entry in the retry queue, DEAD
\* only with one in the dead letter queue, and never FAILED between two steps.
StateMatchesPlace == \A t \in Tasks : InPlace(t)

Found(t) ==
  \/ queue[t] > 0 \/ retryQueue[t] > 0 \/ deadLetter[t] > 0
  \/ \E s \in Streams : At(s, "unsent", t) \/ At(s, "unowned", t)
  \/ t \in inFlight /\ \/ task[t].state \in {"RUNNING", "ASSIGNED"}
                       \/ /\ task[t].state = "QUEUED"
                          /\ \E s \in Streams : At(s, "assign", t)

\* No task is lost: one the master accepted and has not completed is in a
\* queue, or in the hand of a handler that will put it back in one, or is in
\* flight in a state something moves it on from: RUNNING, where CheckTimeouts
\* finds it, or between two steps of a handler that dispatches it.
\* RequeueFromWorker, the failed Send and late reports keep it so.
NoTaskLost == \A t \in submitted \ completed : Found(t)

\* The retry budget of Task.ScheduleRetry: a task is dead only with no attempts
\* left.  One that the master never took back from a worker waits for a retry
\* only with attempts left, and is never dispatched more than MaxRetries times
\* in a row.
RetryBudget ==
  /\ \A t \in Tasks : task[t].state = "DEAD" => task[t].attempt >= MaxRetries
  /\ \A t \in Tasks \ recalled :
       /\ task[t].state = "RETRYING" => task[t].attempt < MaxRetries
       /\ task[t].attempt <= MaxRetries

\* A task is executed twice at a time only if the master has taken it back from
\* a worker that had not reported: by a timeout, a failed Send or the end of a
\* stream.  Of any other task, the worker that executes it is the only one, the
\* scheduler knows it, and no other copy is queued.
SingleExecution ==
  \A w \in Workers, t \in Tasks \ recalled : exec[w][t] > 0 =>
    /\ exec[w][t] = 1 /\ \A v \in Workers \ {w} : exec[v][t] = 0
    /\ t \in inFlight /\ task[t].state = "RUNNING" /\ task[t].workerID = w
    /\ queue[t] = 0 /\ retryQueue[t] = 0 /\ t \notin completed

\* Complete finds a task RUNNING, and so stores output and timing, unless the
\* master took it back before: no step of a handler, of the retry loop or of
\* another worker's report comes between its start and its report.
StoredUnlessRecalled ==
  [][\A t \in completed' \ (completed \cup recalled) :
       task'[t].state = "COMPLETED"]_vars
-----------------------------------------------------------------------------
(* What the master promises, and that it keeps the promise. *)

Status(t) == IF t \notin submitted THEN "new"
             ELSE IF t \in completed THEN "done"
             ELSE IF deadLetter[t] > 0 THEN "dead"
             ELSE IF Found(t) THEN "pending" ELSE "lost"

ALO == INSTANCE AtLeastOnce WITH status  <- [t \in Tasks |-> Status(t)],
                                 running <- exec

\* Scheduler, handlers and background loop together execute at least once what
\* was accepted: every step, crash and late report included, is one of
\* AtLeastOnce or changes nothing a client can tell.
ImplementsAtLeastOnce == ALO!Spec
-----------------------------------------------------------------------------
(* Liveness. *)

\* Every accepted task is completed or ends in the dead letter queue, even if
\* reports are lost and streams break, as long as one stream does not.  The
\* exception is a task that workers report as failed again and again: once a
\* late report or a failed Send has made two copies of it, Fail and Requeue can
\* hit the moments between Dequeue, Assign and Start of the other copy forever,
\* and ScheduleRetry then refuses to declare it DEAD.
EventuallySettled ==
  \/ \A t \in Tasks : t \in submitted ~> t \in completed \/ deadLetter[t] > 0
  \/ []<><<\E w \in Workers, t \in Tasks : ReportFailed(w, t)>>_vars
-----------------------------------------------------------------------------
(* What comments of the code claim. *)

\* node_server.go, AssignTask: starting the task before Send "keeps the state
\* machine valid (Complete/Fail both expect StateRunning as the predecessor),
\* which ensures output and timing are stored": a task that Complete takes out
\* of inFlight becomes COMPLETED.
CompletionStored ==
  [][\A t \in completed' \ completed : task'[t].state = "COMPLETED"]_vars
=============================================================================
