# A TLA+ model of master-worker

master-worker is a task orchestrator in Go: a master keeps tasks in a priority
queue and pushes them over gRPC streams to workers, which run them as scripts
and report back. Failed tasks are retried with backoff, tasks without attempts
left go to a dead letter queue, each worker has a circuit breaker, and workers
prove that they live with heartbeats. This directory holds TLA+ modules of its
core, TLC runs that check them on small instances, and TLAPS proofs of their
safety properties and refinements for instances of every size. `PROJECT.json` says which
lines of the source each definition models.

## 1. Inventory

| part | state | operations | modelled in |
|---|---|---|---|
| task state machine, `internal/task/task.go` | State, Attempt, WorkerID, times | New, Assign, Start, Complete, Fail, ScheduleRetry, Requeue, RetryFromDLQ | `Task` |
| scheduler, `internal/task/scheduler.go` | queue, retryQueue, deadLetter, inFlight, completed, the one-slot channel notify; all but notify under `mu` | Enqueue, Dequeue, Notify, Complete, Fail, RequeueFromWorker, ProcessRetries, CheckTimeouts, RetryFromDLQ, snapshots | `Scheduler` on `TaskQueue` |
| priority queue, same file | heap array | heap.Push, heap.Pop | `PriorityQueue` |
| stream and report handlers, `internal/server/node_server.go` | workerStreams under `streamMu`, the locals of each AssignTask call | AssignTask, ReportTaskStatus, DisconnectWorker, enqueue, the background loop | `Dispatch` |
| circuit breakers, `internal/circuitbreaker` | state, two counters, lastFailure; a map of breakers | Allow, RecordSuccess, RecordFailure, Trip, Reset; Registry.Get | `CircuitBreaker`, `BreakerUse` |
| worker registry, `node_server.go` | Workers: state and last heartbeat, under `mu` | registration, SendHeartbeat, checkWorkerHealth, clean-up | `WorkerHealth` |
| worker process, `internal/worker/worker.go` | semaphore, WaitGroup, activeTasks, taskChan, errChan | receive, execute, report, heartbeat, drain | `Worker`; its effect on the master in `Dispatch` and `WorkerHealth` |
| HTTP API, `internal/master/master.go` | none of its own | submit, upload, batch, retry from DLQ, kill, trip, reset | the calls as actions of `Dispatch` and `BreakerUse` |
| lifecycle, `internal/master`, `internal/health`, `main.go` | readiness, two servers, an errgroup | start, SIGTERM, GracefulStop, Shutdown | `Lifecycle` |
| event bus and WebSocket, `internal/events`, `api_handlers.go` | subscriber channels under an RWMutex | Subscribe, Publish, Unsubscribe, write loop | `EventBus` |
| task store, `internal/store` | tasks by id | Save, List, RecoverTasks | not modelled, see section 5 |
| configuration, rate limiter, logging, metrics, tracing, interceptors, TLS, load generator, dashboard | | | not modelled, see section 5 |

How they interact. An HTTP handler builds a task and puts it in the scheduler,
which leaves one signal in `notify`. Each connected worker has a handler
(AssignTask) that waits for the signal or for the end of its stream; the one
that gets the signal asks its breaker, dequeues a task, marks it ASSIGNED and
RUNNING and sends it. The worker runs it and calls ReportTaskStatus, which ends
the task in the scheduler and records a success or failure in the breaker. A
background goroutine returns tasks whose backoff is over to the queue, fails
tasks that run too long, and watches heartbeats. When a stream ends, its
handler forgets the stream and puts the worker's tasks back in the queue.

What is hard here. Handlers, reports, the background loop and HTTP requests run
concurrently, and the handlers write tasks outside the scheduler's lock. One
buffered signal stands for any number of queued tasks. Streams break at any
moment, reports arrive late or never, and are matched to a task by id alone. A
worker id is hostname and pid, which a restarted container has again, so the
handlers of two lives of a worker overlap. The same task object can be in
several containers at once. `PROJECT.json` lists these hazards line by line
with the properties that cover them.

What makes the parts correct: a queued task is always signalled; a task's state
agrees with the containers it is in; an accepted task is never lost and, under
fair scheduling, settles; the retry budget is kept; a task the master has not
taken back from a worker runs at one place at a time; a breaker's counters mean
what its state says; callers share one breaker per worker; only silent workers
are suspected and every silent one is found; a worker never executes more than
it has slots for, holds back the master when it is full and finishes what it has
begun before it exits; publishing an event neither waits nor panics; and a
master that is told to stop stops, without cutting the streams of its workers.

## 2. Modules

`Task` - a task is a record, a method an operator from the record before the
call to the one after. A method that returns an error leaves the record as it
was, because every caller drops or only logs the error. Assign and Start, which
run outside every lock, are two operators each: the write of State
(`AssignState`, `StartState`), and what is written after it (`AssignRest`,
`StartRest`). Until StartRest a RUNNING task has the StartedAt of the attempt
before, so `StartState` leaves open whether it looks overdue. Times are kept as the
comparisons the code makes: `retryDue` for `now.After(NextRetryAt)`, `overdue`
for the timeout of a RUNNING task. State and WorkerID are also written directly,
past the transition table: after a failed Send in two statements without a lock
(`Unsend`, `Disown`), in RequeueFromWorker under it (`TakeBack`). `Attempt` is counted up to
`MaxRetries + 1`, beyond which no comparison can tell values apart.

`TaskQueue` - what the scheduler needs of its priority queue: a bag from which
an entry of highest priority is taken, the oldest of those. The order is stated
here on its own (`Front`) and not with priorityQueue.Less.

`PriorityQueue` - the heap array with heap.Push and heap.Pop. container/heap is
external to the repository and modelled from its documentation and use. Its two
loops are the actions `Up` and `Down`, one round each, between the append of
priorityQueue.Push (`Push`) or the exchange of root and last entry (`PopRoot`) and
the cut of priorityQueue.Pop (`Pop`). Less (`Before`) and Swap are the repository's,
and what the refinement tests is whether they make of container/heap the queue
that `TaskQueue` describes. The scheduler holds its lock over a whole
call, so nobody sees the array before `op` is "idle" again. It implements
`TaskQueue` (`ImplementsTaskQueue`, with a history variable for the bag).

`Scheduler` - the scheduler's methods, one step each, since each holds `mu`. The
containers are functions from tasks to numbers of entries. `completed` is never
trimmed in the model, so that it can say which tasks were ever completed.

`CircuitBreaker` - a breaker's methods as operators on a record; `cooled` stands
for the elapsed timeout. `BreakerUse` is the breaker of one worker with all that
use it - stream handlers, late reports, the operator - each of which gets it from
the Registry, under its read lock and then its write lock, before it calls a
method; history variables hold what really happened.

`Dispatch` - the composition: scheduler, breakers, the AssignTask handlers, the
report handler, the background loop, operator and workers. The handler's
program counter has one label per statement that reads or writes shared state:

| label | code | actions |
|---|---|---|
| `new` | before the call | Connect |
| `select` | the select | Receive, CtxDone |
| `check` | breaker | Admit, Skip |
| `dequeue` | Dequeue | DequeueTask, DequeueNil |
| `assign`, `assigned` | t.Assign: State; WorkerID and Attempt | Assign, RecordAssign |
| `start`, `started` | t.Start: State; StartedAt | Start, RecordStart |
| `send` | stream.Send and, when it has failed, t.State = QUEUED | SendOk, SendLost, SendFail |
| `unsent`, `unowned` | after a failed Send: t.WorkerID = ""; Enqueue | ClearWorker, PutBack |
| `cleanup`, `requeue` | the deferred function, under its two locks | ForgetStream, RequeueTasks |

A stream is one life of a worker process; `StreamWorker` may give two streams
the same worker id, the second of which connects once the first process has
gone, whether or not its handler has noticed. `exec` counts executions whose
report may still arrive: it completes or fails the task, or is lost. A broken
stream's Send may succeed locally and be lost, or fail. A cancelled stream
(DisconnectWorker cancels a derived context) still sends. CheckTimeouts may
come between any two of these steps: between the two writes of Start it sees
RUNNING with the StartedAt of the attempt before, or none, and fails a task that
the handler then sends. The history variable `recalled` has the tasks that the
master ever took back from a worker that had not reported, by a timeout, a failed
Send or the end of a stream. Two properties and part of a third are about the
others: what goes wrong with a task once it has two copies begins there.

`AtLeastOnce` - what a client may rely on: each task is new, pending, done or
dead, and executions of it come and go. A task is accepted once, becomes done or
(after its last attempt) dead with the end of an execution or dead when the
master gives up waiting, and leaves dead only by an operator's retry or a late
success. `Dispatch` implements it (`ImplementsAtLeastOnce`) with a mapping that
sends a task which is accepted, not completed and nowhere to be found to
"lost", a status no step of `AtLeastOnce` allows.

`WorkerHealth` - the registry of workers, its heartbeats, under way or lost, and
the health checker. Silence is counted in steps of a clock.

`Worker` - a worker process: the receiving goroutine, the main loop with its two
selects, and one goroutine per task with its three deferred calls, in their
order. A select is two labels, one before it looks (any ready case may be
taken) and one in which it waits (`parked`, `full`; the first event wakes it).
Assignments are numbered in the order sent; `Window` is what gRPC flow control
lets the master send ahead. `Endless` scripts never end, as the code kills none.

`EventBus` - the bus and handleWebSocket. Publish is four steps: the stamp,
RLock, one send per channel, RUnlock; Unsubscribe closes the channel one step
after it has given up the write lock. Events are numbered per publisher. A
history variable keeps what each client has been written.

`Lifecycle` - Start with its errgroup, startGRPC and startHTTP with the goroutine
each starts beside its server, readiness, the health checker's exit. Of the two
server libraries it has what Start relies on: GracefulStop waits for streams and
Serve for GracefulStop; ListenAndServe returns when Shutdown begins.

`MCDispatch`, `MCEventBus`, `MCPriorityQueue`, `MCWorkerHealth` give values to the constants
that are functions; `*Proofs` hold the theorems.

Abstractions a reader should know of:

- Transition's look at State and its write are one step, also in Assign and
  Start; of the fields written after State, those nothing reads are left out.
- A method of the scheduler is one step because it holds `mu`, but handlers write
  the same Task without it. In Fail and Complete no outcome is missed by that: a
  write that falls inside has the effect of one just before or just after.
  Assign and Start are refused in FAILED and DEAD as they are in RUNNING, so
  they move to before t.Fail. The State write of a failed Send that falls between
  t.Fail, ScheduleRetry and the test for DEAD makes ScheduleRetry refuse or the
  test fail, and the task goes to the retry queue as QUEUED, as it does when the
  write comes before t.Fail. Where t.Fail is refused, everything moves to after
  it. In CheckTimeouts the same holds from t.Fail on, but its look at the task
  is separate: the failed Sends that write between the look and t.Fail are the
  set `R` of `TimeoutTick`.
- Not covered by this argument, and taken as not happening: the second half of
  Assign inside RequeueFromWorker's writes; a handler that gets through Assign
  within RetryFromDLQ; and the whole of another copy's Assign and Start within
  one CheckTimeouts, after a failed Send's write.
- ReportTaskStatus is one step, although the scheduler and the breaker have
  locks of their own: nothing reads both.
- The parts meet through few things, and each module has the others as far as
  these reach: `Worker` sees the master as Sends that flow control admits, and
  `Dispatch` sees a full worker as a Send that need not return; `Lifecycle` sees
  streams and requests as present or not; `EventBus` sees its publishers as
  goroutines with something to say.
- In `WorkerHealth` the deferred function of a stream is one step.
- A failed submission, an unknown id in an operator's request, and a ticker that
  finds nothing change nothing and are not steps.
- Store.Save, metrics, events and logs are left out: no handler reads them.

## 3. Runs

| run | shows | states |
|---|---|---|
| restart | one task, two lives of one worker id, both flaky; overruns, late reports, ticks inside Start and inside a failed Send, an operator's retry: NoLostWakeup, StateMatchesPlace, NoTaskLost, ImplementsAtLeastOnce | 1.6 million |
| shared | three tasks of two priorities, two workers, an operator at one of the breakers, one signal: TypeOK, NoLostWakeup | 0.5 million |
| live | one task, a flaky worker and a reliable one, overruns, lost and late reports: RetryBudget, SingleExecution, StoredUnlessRecalled, and EventuallySettled under fairness | 0.3 million |
| priority_queue | HeapOrder and the refinement of TaskQueue | 9.7 thousand |
| breaker | three callers of one worker's breaker: TypeOK, SharedBreaker, ClosedCountsStreak, HalfOpenCountsSuccesses | 22 thousand |
| worker_health | SuspectIsSilent, SilenceDetected | 19 thousand |
| worker | two slots, a window of two, seven assignments, two endless scripts, SIGTERM, a breaking stream: Capacity, BackPressure, DrainWaits, AssignmentsServed, ProcessExits | 18 thousand |
| event_bus | two publishers with three events and one, two clients, channels of two events: NoSendOnClosed, InOrder, PublisherNeverWaits, GoneClientReleased | 0.3 million |
| lifecycle | NoStreamCut, UnreadyWhileStopping, StopsUnlessHeld | 3.8 thousand |

Bounds. Most properties of `Dispatch` are about one task and the at most two
handlers, two reports or two copies that meet on it: one task and two streams.
The signal is about several: in shared three tasks stand behind it, so that
after a Dequeue two are left, and the operator makes either breaker state occur.
(The theorems hold for any number.) `MaxRetries` is 2 instead of 3, so that the
first, the last and one attempt too many all occur; in shared it is 1. Breaker
thresholds of 1 and 2 in `Dispatch` make breakers open in short behaviours;
`BreakerUse` has 3 and 2. `MaxDLQRetries` bounds the operator: one retry in
restart, none elsewhere, where it multiplies the states. A heap of up to 7
entries has three full levels, so that both loops go round more than once. Seven
assignments fill two slots, the main loop, the receiver and the window, and
leave one the master cannot send; the two endless scripts can clog the worker,
or occupy one slot for good. A channel of two events can hold them in the wrong
order, and the third of one publisher or one of the other overruns it. Deadlock
checking is off where a system in which all streams have closed, or all calls
have returned, may stop; there the liveness runs say what must happen.

Fairness. `Dispatch`: handlers run, tickers fire, backoff, timeouts and cooling
pass, and a stream that does not fail connects and takes what is sent. On a flaky
stream Send need not return, for a worker whose slots are full stops it by flow
control. Receive is strongly fair because goroutines blocked on a Go channel are
served first in, first out. Clients, operators, failures and, above all, reports
promise nothing: a lost report is found by the timeout. `EventuallySettled`
excepts a task that workers report as failed for ever: TLC shows that two copies
of it can pass each other so that ScheduleRetry never declares it DEAD.
`WorkerHealth`: the ticker, time and the end of a broken stream are fair;
heartbeats are not. `Worker`: goroutines run and scripts that are not endless
end; the master, the network and the signal are not fair. `EventBus`: goroutines
run; a write to a client may take for ever. `Lifecycle`: goroutines run and
Shutdown's timeout passes; workers need not go, requests need not end.

### Where code and documentation disagree

Each of these runs checks a sentence of the repository and finds it violated.

| run | sentence | what happens |
|---|---|---|
| stored | RUNNING before Send "ensures output and timing are stored" (node_server.go) | a late report meets the task between Dequeue and Start: it is completed without being stored, and runs again |
| dead_unreachable | DEAD is "Confirmed unreachable" (node.proto) | the old stream's clean-up marks the reconnected worker DEAD, for good |
| requests_cut | GracefulShutdownTimeout is "the max time to wait for in-flight work during shutdown" (config.go) | ListenAndServe returns when Shutdown begins, and the process exits while Shutdown waits |

More that a reader of the code may not expect, without a run of its own:

- "Tasks that exhaust all retry attempts are moved to a separate queue"
  (DISTRIBUTED_SYSTEMS_CONCEPTS.md), but not always: when a late report of a
  failure meets a task on its last attempt that another handler has dequeued and
  not yet started, t.Fail and ScheduleRetry refuse it, their errors are dropped or
  logged, and the task goes to the retry queue. The same happens when a failed Send
  writes QUEUED between CheckTimeouts' look at a task and its t.Fail. This is why
  `RetryBudget` speaks of tasks that were never taken back, and why
  `EventuallySettled` has its exception.
- A task can run twice although no stream breaks and nothing overruns: a tick
  between Start's writes of State and StartedAt finds the task RUNNING since the
  attempt before, or since the year 1, and retries it, and the handler sends it.
- AllTasks takes the front of the heap array for the dashboard; heap order does
  not make that "the highest-priority tasks" (scheduler.go).
- A HALF_OPEN breaker counts the successes of tasks sent before it opened, so
  these can close it, and Allow is true for every caller, not for one "test
  request" (circuit_breaker.go).
- checkWorkerHealth neither requeues the tasks of a worker it declares DEAD nor
  ends its stream ("re-queues in-flight tasks", ARCHITECTURE.md); the timeout of
  each task does.
- RequeueFromWorker and a failed Send write State past the transition table, so
  a RUNNING task becomes QUEUED.
- The clean-up of an old stream deletes the cancel function of the stream that
  replaced it, after which DisconnectWorker does not find the worker.
- SIGTERM makes two cases of a worker's select ready, the signal and the error of
  the stream it cancels; when it arrives between two selects the error may be
  preferred, and the worker exits without waiting for its tasks. `DrainWaits`
  says exactly when it does wait.
- A worker's slot is free before its task is uncounted, so a heartbeat may report
  more than MaxConcurrentTasks active tasks.
- GracefulShutdownTimeout does not apply to GracefulStop, and nothing
  force-exits: a connected worker keeps a stopping master alive
  (`StopsUnlessHeld`), by then without health checks, retries and timeouts.
- A signal during start-up can leave /readyz answering "ready" to the end
  (`UnreadyWhileStopping`).
- A WebSocket client that goes away stays subscribed until there is an event for
  it (`GoneClientReleased`).

## 4. Proofs

All theorems hold for every number of tasks, workers and streams, all priorities
and all thresholds, from the named assumptions on the constants (the ids are
distinct from the null values, `MaxRetries` and the thresholds are positive, the
heartbeat timeout is not above the dead timeout, priorities are the three of
task.go and creation times natural numbers).

- `DispatchProofs!TypeCorrect`: `TypeOK` alone is not inductive, because
  RecordSuccess could count past its threshold from an unreachable breaker. `TypeInv`
  adds `Sane` (`CircuitBreakerProofs`): CLOSED and HALF_OPEN breakers have counters
  below their thresholds.
- `WakeupSafe`: `NoLostWakeup` is inductive with the types. A step that lets the
  queue grow signals; a step that takes the signal leaves a handler at `check`;
  such a handler signals again, finds the queue empty, or takes a task and
  re-arms the channel.
- `PlacesAgree` and `NothingLost`: for each task, `Accounted` joins `InPlace` and,
  for accepted and uncompleted tasks, `Found`; neither is inductive without the
  other. A handler that holds a task may find it moved on by others; what each
  of its writes and TakeBack then do is settled by lemmas on the transition
  table at the head of the module, and `WriterStep` treats the unlocked writes of
  a handler as one. After a failed Send the task may be in no container at all;
  `Found` then names the handler that is about to put it back. `TimeoutWrites` is
  what a tick does to a task, a failed Send's write in its middle included.
- `DispatchProofs!MasterAtLeastOnce`: every step of `Dispatch` is a step of
  `AtLeastOnce` or leaves its variables alone. `Accounted` shows that no task is
  mapped to "lost"; `AllKnown` adds that what a handler holds or a container
  has was submitted, so that no step touches a task that is still new. The
  cases are the steps that change a status: Submit, the three reports,
  CheckTimeouts, RetryFromDLQ; for all others the containers that decide the
  status of a task keep it.
- `DispatchProofs!OneExecution`, `CompletionsStored` and the second half of
  `BudgetKept`: what holds of a task until the master takes it back (`recalled`);
  there is no condition on the constants, and other tasks may be in any trouble.
  Their common invariant `CopyInv` says where the one copy of such a task is: at rest
  (not submitted, once in the queue, once on the retry queue, dead or completed),
  in the hand of exactly one handler, whose place says what its writes have made
  of State, Attempt and WorkerID, or at exactly one worker, on record in inFlight.
  Each place needs the fields that the next step decides on, so that none of
  the three results is inductive alone: that a retry is refused at MaxRetries
  bounds the attempt of a queued task, this bounds it at Assign, and the report
  that follows decides by it. The lemmas follow the code: `MethodsWrite` for what
  the methods of Task write at each place, `CopyUntouched` for the tasks a step
  leaves alone, `CopyOutside`, `CopyReport` and `CopyHandler` for the one it does
  not, `CopyTakenBack` for the end of a stream, the failed Send and CheckTimeouts,
  which put the tasks they touch in `recalled` and leave all others alone.
  `CopyInv` was model-checked on the instance of run live before it was proved. For
  recalled tasks the results are false, which run stored shows for one of them.
- `DispatchProofs!BudgetKept`, first half: that a DEAD task has no attempts left
  holds always and has a proof of its own. `OnlyMethods` shows that every step
  writes a task with the methods of Task, its direct writes and the two halves of
  Assign and Start only, and `SpentWritten` that each of these keeps the claim,
  because DEAD is entered with attempts spent, NextAttempt only adds to them, and
  RetryFromDLQ leaves DEAD when it resets them.
- `BreakerUseProofs`: `OneBreakerPerWorker` - a breaker once registered is never
  replaced, because the second look is under the write lock. `ClosedCounts` and
  `HalfOpenCounts` - the counters agree with the history in every state, which
  needs both, the types and the sharing at once.
- `WorkerHealthProofs!OnlySilentSuspected`: what shortens the silence clears the
  suspicion.
- `WorkerProofs!BackPressureHolds`: `PressureInv` counts where an assignment can
  be between Send and its goroutine. `CapacityHolds` and `DrainIsComplete`:
  `CountInv` says that the semaphore, activeTasks and the WaitGroup are the
  numbers of goroutines that have not yet run the corresponding deferred call,
  the main loop's own slot included, and a drained worker has none of them left.
- `EventBusProofs!NeverSendsOnClosed`: `ClosedInv` - a send still to be made is
  one of a publisher that holds the read lock and goes to a channel in the map,
  and the handler of a channel that is closed has ended, which one with a
  channel in the map has not.
- `EventBusProofs!DeliveredInOrder`: `OrderInv` adds to `ClosedInv` that the sends
  still to be made are those of a publisher's last event, that a channel is empty
  before it is subscribed, and that the handler has one event in hand exactly
  while it writes. For each subscriber and publisher the line - that event and
  the channel - is `Sorted` between what the client has seen and what it has been
  offered and, unless its channel was full, `Gapless`. Both ends move: `LineGrows`
  is what Send does to a line, `LineShrinks` what WriteOk does, and Take leaves the
  line alone (`HeadTailJoined`). The sequence lemmas go element by element; none
  needs induction.
- `LifecycleProofs!StreamsEndFirst` and `ReadinessFirst`: `ShutdownInv` relates what
  startGRPC and the goroutine beside it know of each other: who is still to run
  when a server has failed, that Serve returns after GracefulStop, that no stream
  opens before Serve or after GracefulStop, and that a readiness which outlives
  SetReady(false) was set after it.
- `PriorityQueueProofs!HeapKept`: `HeapInv` has the invariant of each loop. While
  `Up` runs (`UpHeap`) the entry it moves is the only one that may be Less than its
  parent, and its children are not Less than that parent, whose children they
  become; while `Down` runs (`DownHeap`) only the children of the moving entry may
  be Less than theirs. Neither loop is right without the second half of its
  invariant. `UpRound` and `DownRound` are one round each. That no entry is lost or
  doubled is `ExchangeKeepsEntries`: an exchange maps the positions of a task
  one-to-one.
- `PriorityQueueProofs!HeapImplementsBag`: in each call exactly one step changes the
  bag, the append or the cut. The entry cut off was the root, and `LastIsLeast`
  keeps it in view behind the heap while `Down` runs. That no entry of a heap is
  Less than its root (`RootIsLeast`) follows without an induction rule, from the
  first position where one would be (`LeastNumber`): its parent is not, so by the
  order (`LessOrders`) neither is it, and what no entry is Before is what
  `TaskQueue!Front` calls the front. `HeapInv` was model-checked on the instance of
  run priority_queue before it was proved. With this theorem the bag that `Scheduler`
  and `Dispatch` are built on is the code's heap for every length, and `MaxLen` is a
  bound for TLC alone.

Only model-checked: the liveness properties `EventuallySettled`, `SilenceDetected`,
`AssignmentsServed`, `ProcessExits`, `PublisherNeverWaits`, `GoneClientReleased` and
`StopsUnlessHeld`, because fairness and ENABLED are outside the proof system's
reach. Every invariant, action property and refinement of a passing run has a
theorem.

## 5. Not modelled, and what is left

Not modelled:

- The task store. The master writes its in-memory store and never reads it, and
  BadgerStore with RecoverTasks is constructed nowhere; a model of recovery would
  have to invent the start-up that uses it. The reader of RecoverTasks should
  know that requeues, retries, timeouts and retries from the dead letter queue
  are not saved, so that recovery would start from older states.
- Registry.Remove, which nothing calls, and the read-only snapshots (Stats,
  AllTasks, GetWorkers, GetAll, GetInfo, SubscriberCount).
- Parsing of requests, message types, what scripts do on the worker: a request is
  refused without effect or accepted, a script ends or does not.
- Configuration, rate limiter, logging, metrics, tracing, interceptors, TLS, load
  generator, dashboard: nothing they keep decides what happens to a task.

What is left is liveness: an accepted task settles, a silent worker is found, a
draining process exits. It rests on the runs of section 3 and their bounds. A
start-up that recovers tasks from BadgerStore, once the code has one, should become
a module between the store and `Scheduler`.
