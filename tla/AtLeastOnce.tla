---------------------------- MODULE AtLeastOnce -----------------------------
(***************************************************************************)
(* What the master promises of the tasks it accepts, whatever workers and  *)
(* connections do: none is forgotten, one counts as done only when a       *)
(* worker that ran it has reported, what is done stays done, and a task    *)
(* the master has given up can be found and revived.  It may run more than *)
(* once, on several workers at a time, and even after it is done.          *)
(***************************************************************************)
EXTENDS Integers

CONSTANTS Tasks, Workers

VARIABLES status,   \* what has become of each task
          running   \* executions of each task on each worker

Init == /\ status = [t \in Tasks |-> "new"]
        /\ running = [w \in Workers |-> [t \in Tasks |-> 0]]

Accept(t) == /\ status[t] = "new"
             /\ status' = [status EXCEPT ![t] = "pending"]
             /\ UNCHANGED running

HandOut(w, t) == /\ status[t] # "new"
                 /\ running' = [running EXCEPT ![w][t] = @ + 1]
                 /\ UNCHANGED status

\* An execution ends.  Its report may be lost or come too late to matter;
\* otherwise the task is done, or has had its last attempt.
End(w, t) ==
  /\ running[w][t] > 0
  /\ running' = [running EXCEPT ![w][t] = @ - 1]
  /\ \/ UNCHANGED status
     \/ status[t] \in {"pending", "dead"} /\ status' = [status EXCEPT ![t] = "done"]
     \/ status[t] = "pending" /\ status' = [status EXCEPT ![t] = "dead"]

\* The master waits no longer for the executions of the tasks of S.
GiveUp(S) == /\ \A t \in S : status[t] = "pending"
             /\ status' = [t \in Tasks |-> IF t \in S THEN "dead" ELSE status[t]]
             /\ UNCHANGED running

Revive(t) == /\ status[t] = "dead"
             /\ status' = [status EXCEPT ![t] = "pending"]
             /\ UNCHANGED running

Next == \/ \E t \in Tasks : Accept(t) \/ Revive(t)
        \/ \E w \in Workers, t \in Tasks : HandOut(w, t) \/ End(w, t)
        \/ \E S \in SUBSET Tasks : GiveUp(S)

Spec == Init /\ [][Next]_<<status, running>>
=============================================================================
