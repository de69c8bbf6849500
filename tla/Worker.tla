------------------------------- MODULE Worker -------------------------------
(***************************************************************************)
(* A worker process, internal/worker/worker.go: Start's main loop, the     *)
(* goroutine that receives assignments, one goroutine for each task, and,  *)
(* as far as gRPC flow control reaches it, the Send of the master.  The    *)
(* main loop hears of SIGTERM, of a broken stream and of assignments       *)
(* through channels, and takes a slot of a semaphore for each task.        *)
(*                                                                         *)
(* A Go select that finds several channels ready takes any of them; one    *)
(* that has parked is woken by the first event and takes that one.  So     *)
(* "loop" and "acquire" are the moments before the two selects, "parked"   *)
(* and "full" those in which they wait.  When Start returns the process    *)
(* exits and its goroutines end where they are.                            *)
(***************************************************************************)
EXTENDS Naturals, FiniteSets

CONSTANTS
  MaxConcurrentTasks,  \* capacity of the semaphore
  Window,              \* assignments flow control lets the master send ahead
  Assignments,         \* bound on the assignments, numbered in the order sent
  Endless,             \* those whose script never ends
  Breakable            \* the stream may break without SIGTERM

ASSUME WorkerAssumption == /\ MaxConcurrentTasks \in Nat \ {0}
                           /\ Window \in Nat \ {0}
                           /\ Assignments \in Nat
                           /\ Endless \subseteq 1 .. Assignments
                           /\ Breakable \in BOOLEAN

VARIABLES
  ctx,          \* "live", or "done" after SIGTERM
  stream,       \* "up" or "broken"
  sent,         \* assignments the master's Send has returned for
  received,     \* assignments Recv has returned
  receiver,     \* the receiving goroutine: in Recv, at taskChan <-, or gone
  errChan,      \* whether errChan holds an error
  main,         \* where Start is
  spawned,      \* goroutines started, one for each of 1 .. spawned
  run,          \* where each of them is
  sem, wg, activeTasks,
  caught        \* history: SIGTERM found Start waiting in one of its selects

netVars == <<stream, sent>>
recvVars == <<received, receiver, errChan>>
countVars == <<sem, wg, activeTasks>>
vars == <<ctx, netVars, recvVars, main, spawned, run, countVars, caught>>

\* Start has waited for its tasks; it has returned because of the stream.
Returned == {"drained", "failed"}

TypeOK ==
  /\ ctx \in {"live", "done"}
  /\ stream \in {"up", "broken"}
  /\ sent \in 0 .. Assignments
  /\ received \in 0 .. Assignments
  /\ receiver \in {"recv", "put", "stopped"}
  /\ errChan \in BOOLEAN
  /\ main \in {"loop", "parked", "acquire", "full", "spawn", "wait"} \cup Returned
  /\ spawned \in 0 .. Assignments
  /\ run \in [1 .. Assignments ->
                {"none", "execute", "report", "release", "uncount", "finish", "gone"}]
  /\ sem \in Nat /\ wg \in Nat /\ activeTasks \in Nat
  /\ caught \in BOOLEAN

Init ==
  /\ ctx = "live" /\ stream = "up"
  /\ sent = 0 /\ received = 0 /\ spawned = 0
  /\ receiver = "recv" /\ errChan = FALSE
  /\ main = "loop"
  /\ run = [n \in 1 .. Assignments |-> "none"]
  /\ sem = 0 /\ wg = 0 /\ activeTasks = 0
  /\ caught = FALSE

Alive == main \notin Returned
-----------------------------------------------------------------------------
(* Outside the process. *)

\* Send returns once flow control lets the message go.
Send ==
  /\ stream = "up" /\ sent < Assignments /\ sent - received < Window
  /\ sent' = sent + 1
  /\ UNCHANGED <<ctx, stream, recvVars, main, spawned, run, countVars, caught>>

\* The connection is lost, or the handler of the master returns.
StreamBreaks ==
  /\ Breakable /\ stream = "up" /\ Alive
  /\ stream' = "broken"
  /\ UNCHANGED <<ctx, sent, recvVars, main, spawned, run, countVars, caught>>

\* A select that waits takes its ctx.Done branch.
Signal ==
  /\ ctx = "live" /\ Alive
  /\ ctx' = "done"
  /\ caught' = (main \in {"parked", "full"})
  /\ main' = IF caught' THEN "wait" ELSE main
  /\ UNCHANGED <<netVars, recvVars, spawned, run, countVars>>
-----------------------------------------------------------------------------
(* The receiving goroutine. *)

Recv ==
  /\ receiver = "recv" /\ received < sent /\ Alive
  /\ received' = received + 1
  /\ receiver' = "put"
  /\ UNCHANGED <<ctx, netVars, errChan, main, spawned, run, countVars, caught>>

\* Handing the assignment to a main loop that waits for it.
Put ==
  /\ receiver = "put" /\ main = "parked"
  /\ receiver' = "recv"
  /\ main' = "acquire"
  /\ UNCHANGED <<ctx, netVars, received, errChan, spawned, run, countVars, caught>>

\* An unbuffered errChan and a send that does not wait.
RecvErr_Unbuffered ==
  /\ receiver = "recv" /\ Alive
  /\ ctx = "done" \/ stream = "broken"
  /\ receiver' = "stopped"
  /\ main' = IF main = "parked" THEN "failed" ELSE main
  /\ UNCHANGED <<ctx, netVars, received, errChan, spawned, run, countVars, caught>>

\* The stream was opened with ctx, so that SIGTERM ends it as well; what is on
\* the way may be lost.
RecvErr ==
  /\ receiver = "recv" /\ Alive
  /\ ctx = "done" \/ stream = "broken"
  /\ receiver' = "stopped"
  /\ IF main = "parked" THEN main' = "failed" /\ UNCHANGED errChan
                        ELSE errChan' = TRUE /\ UNCHANGED main
  /\ UNCHANGED <<ctx, netVars, received, spawned, run, countVars, caught>>
-----------------------------------------------------------------------------
(* The main loop of Start. *)

SelectDone ==
  /\ main = "loop" /\ ctx = "done"
  /\ main' = "wait"
  /\ UNCHANGED <<ctx, netVars, recvVars, spawned, run, countVars, caught>>

\* Both returns of the errChan branch: neither waits for the tasks.
SelectErr ==
  /\ main = "loop" /\ errChan
  /\ main' = "failed"
  /\ errChan' = FALSE
  /\ UNCHANGED <<ctx, netVars, received, receiver, spawned, run, countVars, caught>>

\* A channel with room for any number of assignments.
SelectTask_Buffered ==
  /\ main \in {"loop", "full"} /\ receiver = "put"
  /\ receiver' = "recv"
  /\ main' = IF main = "loop" THEN "acquire" ELSE main
  /\ UNCHANGED <<ctx, netVars, received, errChan, spawned, run, countVars, caught>>

SelectTask ==
  /\ main = "loop" /\ receiver = "put"
  /\ receiver' = "recv"
  /\ main' = "acquire"
  /\ UNCHANGED <<ctx, netVars, received, errChan, spawned, run, countVars, caught>>

Park ==
  /\ main = "loop" /\ ctx = "live" /\ ~errChan /\ receiver # "put"
  /\ main' = "parked"
  /\ UNCHANGED <<ctx, netVars, recvVars, spawned, run, countVars, caught>>

\* A select with a default branch: no slot, no wait.
Acquire_Default ==
  /\ main = "acquire"
  /\ sem' = sem + 1
  /\ main' = "spawn"
  /\ UNCHANGED <<ctx, netVars, recvVars, spawned, run, wg, activeTasks, caught>>

Acquire ==
  /\ main = "acquire" /\ sem < MaxConcurrentTasks
  /\ sem' = sem + 1
  /\ main' = "spawn"
  /\ UNCHANGED <<ctx, netVars, recvVars, spawned, run, wg, activeTasks, caught>>

ParkFull ==
  /\ main = "acquire" /\ sem = MaxConcurrentTasks /\ ctx = "live"
  /\ main' = "full"
  /\ UNCHANGED <<ctx, netVars, recvVars, spawned, run, countVars, caught>>

\* Returning at once from the inner select.
AcquireDone_NoWait ==
  /\ main = "acquire" /\ ctx = "done"
  /\ main' = "drained"
  /\ UNCHANGED <<ctx, netVars, recvVars, spawned, run, countVars, caught>>

\* The assignment in hand is dropped: the master takes it back.
AcquireDone ==
  /\ main = "acquire" /\ ctx = "done"
  /\ main' = "wait"
  /\ UNCHANGED <<ctx, netVars, recvVars, spawned, run, countVars, caught>>

Spawn ==
  /\ main = "spawn"
  /\ spawned' = spawned + 1
  /\ run' = [run EXCEPT ![spawned + 1] = "execute"]
  /\ wg' = wg + 1
  /\ activeTasks' = activeTasks + 1
  /\ main' = "loop"
  /\ UNCHANGED <<ctx, netVars, recvVars, sem, caught>>

Wait ==
  /\ main = "wait" /\ wg = 0
  /\ main' = "drained"
  /\ UNCHANGED <<ctx, netVars, recvVars, spawned, run, countVars, caught>>
-----------------------------------------------------------------------------
(* The goroutine of task n: executeTask, then the deferred calls. *)

Goes(n, from, to) == /\ Alive /\ run[n] = from
                     /\ run' = [run EXCEPT ![n] = to]

ScriptEnds(n) ==
  /\ n \notin Endless
  /\ Goes(n, "execute", "report")
  /\ UNCHANGED <<ctx, netVars, recvVars, main, spawned, countVars, caught>>

\* A goroutine that gives up its slot only after a report that got through.
ReportTaskStatus_LeakSlot(n) ==
  /\ Goes(n, "report", "release") \/ Goes(n, "report", "uncount")
  /\ UNCHANGED <<ctx, netVars, recvVars, main, spawned, countVars, caught>>

\* The call succeeds, or fails and is only logged.
ReportTaskStatus(n) ==
  /\ Goes(n, "report", "release")
  /\ UNCHANGED <<ctx, netVars, recvVars, main, spawned, countVars, caught>>

\* A main loop that waits for the slot gets it.
ReleaseSlot(n) ==
  /\ Goes(n, "release", "uncount")
  /\ IF main = "full" THEN main' = "spawn" /\ UNCHANGED sem
                      ELSE sem' = sem - 1 /\ UNCHANGED main
  /\ UNCHANGED <<ctx, netVars, recvVars, spawned, wg, activeTasks, caught>>

Uncount(n) ==
  /\ Goes(n, "uncount", "finish")
  /\ activeTasks' = activeTasks - 1
  /\ UNCHANGED <<ctx, netVars, recvVars, main, spawned, sem, wg, caught>>

Finish(n) ==
  /\ Goes(n, "finish", "gone")
  /\ wg' = wg - 1
  /\ UNCHANGED <<ctx, netVars, recvVars, main, spawned, sem, activeTasks, caught>>
-----------------------------------------------------------------------------
ReceiverStep == Recv \/ Put \/ RecvErr

MainStep == \/ SelectDone \/ SelectErr \/ SelectTask \/ Park
            \/ Acquire \/ ParkFull \/ AcquireDone \/ Spawn \/ Wait

TaskStep(n) == \/ ScriptEnds(n) \/ ReportTaskStatus(n)
               \/ ReleaseSlot(n) \/ Uncount(n) \/ Finish(n)

Next == \/ Send \/ StreamBreaks \/ Signal
        \/ ReceiverStep \/ MainStep
        \/ \E n \in 1 .. Assignments : TaskStep(n)

Spec == Init /\ [][Next]_vars

\* Goroutines run and scripts that are not endless end.  The master, the network
\* and the operator promise nothing.
Fairness == /\ WF_vars(ReceiverStep) /\ WF_vars(MainStep)
            /\ \A n \in 1 .. Assignments : WF_vars(TaskStep(n))

FairSpec == Spec /\ Fairness
-----------------------------------------------------------------------------
At(places) == {n \in 1 .. Assignments : run[n] \in places}
Executing == At({"execute", "report"})

\* The semaphore bounds the tasks that execute, through any mix of hand-overs of
\* a slot and deferred releases, and a heartbeat never reports fewer active
\* tasks than execute (it may report more, since a slot is free before its task
\* is uncounted).
Capacity == /\ Cardinality(Executing) <= MaxConcurrentTasks
            /\ Cardinality(Executing) <= activeTasks

\* "Natural back-pressure": however many tasks wait, at most Window + 2 of those
\* that the master has sent, and counts as RUNNING, have not begun: Window on
\* the stream, one in the hands of the receiver, one in those of the main loop.
BackPressure == Alive => sent - spawned <= Window + 2

\* A shutdown that waits waits for everything: when Start returns nil after
\* SIGTERM, on whichever of the two selects it heard of the signal, no goroutine
\* is executing or reporting; and so it always is when the signal found it
\* waiting in a select.  (One that comes between two selects may find the
\* cancelled stream's error in errChan too, and select may prefer that.)
DrainWaits ==
  main = "drained" \/ (caught /\ ~Alive) => \A n \in 1 .. spawned : run[n] = "gone"

\* Every slot is held by a script that never ends.
Clogged == Cardinality(At({"execute"}) \cap Endless) = MaxConcurrentTasks

\* Every assignment the master has sent is executed and its slot given back,
\* also when reports fail, unless the worker is stopped or endless scripts hold
\* all slots: the receive loop never waits for ever otherwise.
AssignmentsServed ==
  \A n \in (1 .. Assignments) \ Endless :
    sent >= n ~> (run[n] = "gone" \/ ctx = "done" \/ stream = "broken" \/ Clogged)

\* After SIGTERM or the loss of its stream the process exits, unless a script
\* that never ends is executing.
ProcessExits == \/ (ctx = "done" \/ stream = "broken") ~> ~Alive
                \/ <>[](At({"execute"}) \cap Endless # {})
=============================================================================
