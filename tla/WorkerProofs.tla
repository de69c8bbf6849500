---------------------------- MODULE WorkerProofs ----------------------------
(***************************************************************************)
(* The worker process for any capacity, window and number of assignments.  *)
(***************************************************************************)
EXTENDS Worker, FiniteSetTheorems, TLAPS

\* Assignments the process has received and not begun: the receiver and the main
\* loop hold at most one each.  While Start waits for its tasks nobody takes
\* what the receiver holds.
InHand == (IF receiver = "put" THEN 1 ELSE 0)
          + (IF main \in {"acquire", "full", "spawn", "wait"} THEN 1 ELSE 0)

PressureInv ==
  /\ sent \in Nat /\ received \in Nat /\ spawned \in Nat
  /\ sent - received <= Window
  /\ Alive => received - spawned <= InHand

\* Every step keeps it: Send waits for the window, Recv for a receiver with empty
\* hands, and the main loop takes an assignment only with empty hands.
LEMMA PressureNext == PressureInv /\ [Next]_vars => PressureInv'
<1> SUFFICES ASSUME PressureInv, [Next]_vars PROVE PressureInv'
  OBVIOUS
<1> USE WorkerAssumption DEF PressureInv, InHand, Alive, Returned
<1>1. CASE Send
  BY <1>1 DEF Send, recvVars
<1>2. CASE StreamBreaks \/ Signal
  BY <1>2 DEF StreamBreaks, Signal, recvVars, netVars
<1>3. CASE Recv
  BY <1>3 DEF Recv, netVars
<1>4. CASE Put \/ SelectTask
  BY <1>4 DEF Put, SelectTask, netVars
<1>5. CASE RecvErr
  BY <1>5 DEF RecvErr, netVars
<1>6. CASE SelectDone \/ SelectErr \/ Park
  BY <1>6 DEF SelectDone, SelectErr, Park, netVars, recvVars
<1>7. CASE Acquire \/ ParkFull \/ AcquireDone \/ Wait
  BY <1>7 DEF Acquire, ParkFull, AcquireDone, Wait, netVars, recvVars
<1>8. CASE Spawn
  BY <1>8 DEF Spawn, netVars, recvVars
<1>9. ASSUME NEW n \in 1 .. Assignments, TaskStep(n) PROVE PressureInv'
  BY <1>9 DEF TaskStep, ScriptEnds, ReportTaskStatus, ReleaseSlot, Uncount, Finish,
              netVars, recvVars
<1>10. CASE UNCHANGED vars
  BY <1>10 DEF vars, netVars, recvVars
<1> QED
  BY <1>1, <1>2, <1>3, <1>4, <1>5, <1>6, <1>7, <1>8, <1>9, <1>10
     DEF Next, ReceiverStep, MainStep

\* For every capacity and flow control window, and through every signal and
\* broken stream, a worker that lives holds back at most Window + 2 assignments.
THEOREM BackPressureHolds == Spec => []BackPressure
<1>1. Init => PressureInv
  BY WorkerAssumption DEF Init, PressureInv, InHand
<1>2. PressureInv => BackPressure
  BY WorkerAssumption DEF PressureInv, InHand, BackPressure
<1> QED
  BY <1>1, <1>2, PressureNext, PTL DEF Spec
-----------------------------------------------------------------------------
Slotted == {"execute", "report", "release"}
Counted == Slotted \cup {"uncount"}
Waited == Counted \cup {"finish"}

\* The semaphore, activeTasks and the wait group each count goroutines, the
\* semaphore also the slot the main loop has taken for the next one; the numbers
\* up to spawned are those of goroutines; and what Start is doing after SIGTERM.
CountInv ==
  /\ run \in [1 .. Assignments ->
              {"none", "execute", "report", "release", "uncount", "finish", "gone"}]
  /\ \A n \in 1 .. Assignments : run[n] = "none" <=> n > spawned
  /\ sent \in 0 .. Assignments /\ received \in 0 .. sent /\ spawned \in 0 .. received
  /\ main \in {"acquire", "full", "spawn"} =>
       spawned + (IF receiver = "put" THEN 1 ELSE 0) < received
  /\ receiver = "put" => spawned < received
  /\ sem \in Nat /\ sem <= MaxConcurrentTasks
  /\ sem = Cardinality(At(Slotted)) + (IF main = "spawn" THEN 1 ELSE 0)
  /\ activeTasks = Cardinality(At(Counted))
  /\ wg = Cardinality(At(Waited))
  /\ main = "drained" => At(Waited) = {}
  /\ caught => main \in {"wait", "drained"}

\* The goroutines in any set of places are finitely many.
LEMMA AtFinite ==
  ASSUME NEW P
  PROVE  IsFiniteSet(At(P)) /\ Cardinality(At(P)) \in Nat
<1>1. IsFiniteSet(1 .. Assignments)
  BY WorkerAssumption, FS_Interval
<1>2. At(P) \in SUBSET (1 .. Assignments)
  BY DEF At
<1> QED
  BY <1>1, <1>2, FS_Subset, FS_CardinalityType

\* What a goroutine that moves changes in the number of those in places P.
LEMMA AtMoves ==
  ASSUME NEW P, NEW S, run \in [1 .. Assignments -> S],
         NEW n \in 1 .. Assignments, NEW to, run' = [run EXCEPT ![n] = to]
  PROVE  /\ to \in P /\ run[n] \notin P =>
              Cardinality(At(P)') = Cardinality(At(P)) + 1
         /\ to \notin P /\ run[n] \in P =>
              Cardinality(At(P)') = Cardinality(At(P)) - 1
         /\ (to \in P <=> run[n] \in P) => Cardinality(At(P)') = Cardinality(At(P))
<1>1. At(P)' = IF to \in P THEN At(P) \cup {n} ELSE At(P) \ {n}
  BY DEF At
<1>2. n \in At(P) <=> run[n] \in P
  BY DEF At
<1>3. IsFiniteSet(At(P))
  BY AtFinite
<1> DEFINE A == At(P)
<1>4. /\ Cardinality(A \cup {n}) = IF n \in A THEN Cardinality(A) ELSE Cardinality(A) + 1
      /\ Cardinality(A \ {n}) = IF n \in A THEN Cardinality(A) - 1 ELSE Cardinality(A)
  BY <1>3, FS_AddElement, FS_RemoveElement
<1> QED
  BY <1>1, <1>2, <1>4

\* Which places each counter counts.
LEMMA CountedPlaces ==
  /\ \A l \in {"execute", "report", "release"} :
       l \in Slotted /\ l \in Counted /\ l \in Waited
  /\ "uncount" \notin Slotted /\ "uncount" \in Counted /\ "uncount" \in Waited
  /\ "finish" \notin Slotted /\ "finish" \notin Counted /\ "finish" \in Waited
  /\ \A l \in {"none", "gone"} :
       l \notin Slotted /\ l \notin Counted /\ l \notin Waited
  BY DEF Slotted, Counted, Waited

\* Every step keeps the counts right.
LEMMA CountNext == CountInv /\ [Next]_vars => CountInv'
<1> SUFFICES ASSUME CountInv, [Next]_vars PROVE CountInv'
  OBVIOUS
<1>0. /\ Assignments \in Nat /\ MaxConcurrentTasks \in Nat
      /\ \A P : Cardinality(At(P)) \in Nat
  BY WorkerAssumption, AtFinite
<1>a. ASSUME UNCHANGED run PROVE \A P : At(P)' = At(P)
  BY <1>a DEF At
<1>1. CASE Send \/ StreamBreaks
  BY <1>0, <1>1, <1>a DEF CountInv, Send, StreamBreaks, recvVars, netVars, countVars
<1>2. CASE Signal
  BY <1>0, <1>2, <1>a DEF CountInv, Signal, recvVars, netVars, countVars, Alive, Returned
<1>3. CASE Recv
  BY <1>0, <1>3, <1>a DEF CountInv, Recv, netVars, countVars
<1>4. CASE Put \/ SelectTask
  BY <1>0, <1>4, <1>a DEF CountInv, Put, SelectTask, netVars, countVars
<1>5. CASE RecvErr
  BY <1>0, <1>5, <1>a DEF CountInv, RecvErr, netVars, countVars
<1>6. CASE SelectDone \/ SelectErr \/ Park \/ ParkFull \/ AcquireDone
  BY <1>0, <1>6, <1>a
     DEF CountInv, SelectDone, SelectErr, Park, ParkFull, AcquireDone,
         netVars, recvVars, countVars
<1>7. CASE Acquire
  BY <1>0, <1>7, <1>a DEF CountInv, Acquire, netVars, recvVars
<1>8. CASE Wait
  <2>1. At(Waited) = {}
    BY <1>8, AtFinite, FS_EmptySet DEF CountInv, Wait
  <2> QED
    BY <1>0, <1>8, <1>a, <2>1 DEF CountInv, Wait, netVars, recvVars, countVars
<1>9. CASE Spawn
  <2>1. /\ main = "spawn" /\ main' = "loop" /\ spawned' = spawned + 1
        /\ run' = [run EXCEPT ![spawned + 1] = "execute"]
        /\ wg' = wg + 1 /\ activeTasks' = activeTasks + 1
        /\ UNCHANGED <<sent, received, receiver, sem, caught>>
    BY <1>9 DEF Spawn, netVars, recvVars
  <2>2. /\ spawned + 1 \in 1 .. Assignments /\ run[spawned + 1] = "none"
        /\ spawned' <= received /\ (receiver = "put" => spawned' < received)
    BY <1>0, <2>1 DEF CountInv
  <2>3. /\ Cardinality(At(Slotted)') = Cardinality(At(Slotted)) + 1
        /\ Cardinality(At(Counted)') = Cardinality(At(Counted)) + 1
        /\ Cardinality(At(Waited)') = Cardinality(At(Waited)) + 1
    BY <1>0, <2>1, <2>2, AtMoves, CountedPlaces DEF CountInv
  <2>4. \A m \in 1 .. Assignments : run'[m] = "none" <=> m > spawned'
    BY <1>0, <2>1, <2>2 DEF CountInv
  <2> QED
    BY <1>0, <2>1, <2>2, <2>3, <2>4 DEF CountInv
<1>10. ASSUME NEW n \in 1 .. Assignments, TaskStep(n) PROVE CountInv'
  <2>1. /\ Alive /\ run[n] \notin {"none", "gone"}
        /\ UNCHANGED <<sent, received, receiver, spawned, caught>>
    BY <1>10 DEF TaskStep, ScriptEnds, ReportTaskStatus, ReleaseSlot, Uncount, Finish,
                 Goes, netVars, recvVars
  <2>2. ASSUME NEW to \in {"report", "release", "uncount", "finish", "gone"},
               run' = [run EXCEPT ![n] = to],
               sem' \in Nat, sem' <= MaxConcurrentTasks,
               sem' = Cardinality(At(Slotted)') + (IF main' = "spawn" THEN 1 ELSE 0),
               activeTasks' = Cardinality(At(Counted)'),
               wg' = Cardinality(At(Waited)'),
               \/ main' = main
               \/ main = "full" /\ main' = "spawn"
        PROVE  CountInv'
    <3>1. /\ run' \in [1 .. Assignments -> {"none", "execute", "report", "release",
                                            "uncount", "finish", "gone"}]
          /\ \A m \in 1 .. Assignments : run'[m] = "none" <=> m > spawned
      BY <2>1, <2>2 DEF CountInv
    <3> QED
      BY <2>1, <2>2, <3>1 DEF CountInv, Alive, Returned
  <2>3. CASE ScriptEnds(n) \/ ReportTaskStatus(n)
    <3>1. PICK to \in {"report", "release"} :
            /\ run[n] \in {"execute", "report"} /\ run' = [run EXCEPT ![n] = to]
            /\ UNCHANGED <<main, sem, wg, activeTasks>>
      BY <2>3 DEF ScriptEnds, ReportTaskStatus, Goes, countVars
    <3>2. /\ Cardinality(At(Slotted)') = Cardinality(At(Slotted))
          /\ Cardinality(At(Counted)') = Cardinality(At(Counted))
          /\ Cardinality(At(Waited)') = Cardinality(At(Waited))
      <4>1. \A P \in {Slotted, Counted, Waited} : to \in P /\ run[n] \in P
        BY <3>1 DEF Slotted, Counted, Waited
      <4>2. PICK S : run \in [1 .. Assignments -> S]
        BY DEF CountInv
      <4>3. \A P : to \in P /\ run[n] \in P => Cardinality(At(P)') = Cardinality(At(P))
        BY <3>1, <4>2, AtMoves
      <4> QED
        BY <4>1, <4>3
    <3> QED
      BY <2>2, <3>1, <3>2 DEF CountInv
  <2>4. CASE ReleaseSlot(n)
    <3>1. /\ run[n] = "release" /\ run' = [run EXCEPT ![n] = "uncount"]
          /\ UNCHANGED <<wg, activeTasks>>
          /\ IF main = "full" THEN main' = "spawn" /\ sem' = sem
                              ELSE sem' = sem - 1 /\ main' = main
      BY <2>4 DEF ReleaseSlot, Goes
    <3>2. /\ Cardinality(At(Slotted)') = Cardinality(At(Slotted)) - 1
          /\ Cardinality(At(Counted)') = Cardinality(At(Counted))
          /\ Cardinality(At(Waited)') = Cardinality(At(Waited))
      BY <1>0, <3>1, AtMoves, CountedPlaces DEF CountInv
    <3>3. n \in At(Slotted)
      BY <3>1 DEF At, Slotted
    <3>4. Cardinality(At(Slotted)) > 0
      BY <1>0, <3>3, AtFinite, FS_EmptySet
    <3> QED
      BY <1>0, <2>2, <3>1, <3>2, <3>4 DEF CountInv
  <2>5. CASE Uncount(n)
    <3>1. /\ run[n] = "uncount" /\ run' = [run EXCEPT ![n] = "finish"]
          /\ activeTasks' = activeTasks - 1 /\ UNCHANGED <<main, sem, wg>>
      BY <2>5 DEF Uncount, Goes
    <3>2. /\ Cardinality(At(Slotted)') = Cardinality(At(Slotted))
          /\ Cardinality(At(Counted)') = Cardinality(At(Counted)) - 1
          /\ Cardinality(At(Waited)') = Cardinality(At(Waited))
      BY <1>0, <3>1, AtMoves, CountedPlaces DEF CountInv
    <3> QED
      BY <1>0, <2>2, <3>1, <3>2 DEF CountInv
  <2>6. CASE Finish(n)
    <3>1. /\ run[n] = "finish" /\ run' = [run EXCEPT ![n] = "gone"]
          /\ wg' = wg - 1 /\ UNCHANGED <<main, sem, activeTasks>>
      BY <2>6 DEF Finish, Goes
    <3>2. /\ Cardinality(At(Slotted)') = Cardinality(At(Slotted))
          /\ Cardinality(At(Counted)') = Cardinality(At(Counted))
          /\ Cardinality(At(Waited)') = Cardinality(At(Waited)) - 1
      BY <1>0, <3>1, AtMoves, CountedPlaces DEF CountInv
    <3> QED
      BY <1>0, <2>2, <3>1, <3>2 DEF CountInv
  <2> QED
    BY <1>10, <2>3, <2>4, <2>5, <2>6 DEF TaskStep
<1>11. CASE UNCHANGED vars
  BY <1>11, <1>a DEF CountInv, vars, netVars, recvVars, countVars
<1> QED
  BY <1>1, <1>2, <1>3, <1>4, <1>5, <1>6, <1>7, <1>8, <1>9, <1>10, <1>11
     DEF Next, ReceiverStep, MainStep

\* The counts are right at all times.
LEMMA CountAlways == Spec => []CountInv
<1>1. Init => CountInv
  <2> SUFFICES ASSUME Init PROVE CountInv
    OBVIOUS
  <2>1. \A P : "none" \notin P => At(P) = {}
    BY DEF Init, At
  <2>2. At(Slotted) = {} /\ At(Counted) = {} /\ At(Waited) = {}
    BY <2>1 DEF Slotted, Counted, Waited
  <2> QED
    BY <2>2, WorkerAssumption, FS_EmptySet DEF Init, CountInv
<1> QED
  BY <1>1, CountNext, PTL DEF Spec

\* For every capacity no more tasks execute than the worker has slots, and the
\* heartbeat's count of active tasks covers them.
THEOREM CapacityHolds == Spec => []Capacity
<1>1. CountInv => Capacity
  <2> SUFFICES ASSUME CountInv PROVE Capacity
    OBVIOUS
  <2>1. /\ IsFiniteSet(At(Slotted)) /\ Cardinality(At(Slotted)) \in Nat
        /\ IsFiniteSet(At(Counted)) /\ Cardinality(At(Counted)) \in Nat
        /\ Cardinality(Executing) \in Nat
    BY AtFinite DEF Executing
  <2>2. Executing \in SUBSET At(Slotted) /\ Executing \in SUBSET At(Counted)
    BY DEF Executing, At, Slotted, Counted
  <2>3. /\ Cardinality(Executing) <= Cardinality(At(Slotted))
        /\ Cardinality(Executing) <= Cardinality(At(Counted))
    BY <2>1, <2>2, FS_Subset
  <2> QED
    BY <2>1, <2>3, WorkerAssumption DEF CountInv, Capacity
<1> QED
  BY <1>1, CountAlways, PTL

\* For every number of tasks, a worker that drains has drained: Start returns
\* nil, or returns after a signal it was waiting for, only when every goroutine
\* has reported and ended.
THEOREM DrainIsComplete == Spec => []DrainWaits
<1>1. CountInv => DrainWaits
  <2> SUFFICES ASSUME CountInv, main = "drained" \/ (caught /\ ~Alive),
                      NEW n \in 1 .. spawned
               PROVE  run[n] = "gone"
    BY DEF DrainWaits
  <2>1. At(Waited) = {}
    BY DEF CountInv, Alive, Returned
  <2>2. n \in 1 .. Assignments /\ ~(n > spawned)
    BY WorkerAssumption DEF CountInv
  <2>3. run[n] \notin Waited /\ run[n] # "none"
    BY <2>1, <2>2 DEF At, CountInv
  <2> QED
    BY <2>2, <2>3 DEF CountInv, Waited, Counted, Slotted
<1> QED
  BY <1>1, CountAlways, PTL
=============================================================================
