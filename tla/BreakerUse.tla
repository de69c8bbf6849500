----------------------------- MODULE BreakerUse -----------------------------
(***************************************************************************)
(* The circuit breaker of one worker in use.  Stream handlers, the calls   *)
(* of ReportTaskStatus and the operator's requests are callers: each gets  *)
(* the breaker from the Registry and then calls one of its methods.  Get   *)
(* looks the worker up under the read lock and, when there is no breaker   *)
(* yet, once more under the write lock before it creates one; any other    *)
(* caller may run between the two locks, and between Get and the method.   *)
(* Reports come however late, in whatever state the breaker is by then.    *)
(***************************************************************************)
EXTENDS CircuitBreaker

CONSTANTS Callers,         \* goroutines, each with one call under way
          NoBreaker,
          MaxOutstanding   \* bound on the tasks let through and not yet reported

ASSUME UseAssumption == MaxOutstanding \in Nat /\ NoBreaker \notin Callers

VARIABLES
  registered,   \* Registry.breakers for this worker
  breaker,      \* the breaker objects, named after the caller that made them
  pc,           \* where each caller is: in Get, or about to call a method
  cb,           \* its local variable cb
  outstanding,  \* tasks let through, not yet reported
  streak,       \* history: failures since the last success or reset, up to the threshold
  good          \* history: successes in the current HALF_OPEN period

getVars == <<registered, pc, cb>>
vars == <<registered, breaker, pc, cb, outstanding, streak, good>>

TypeOK == /\ registered \in Callers \cup {NoBreaker}
          /\ breaker \in [Callers -> Breaker]
          /\ pc \in [Callers -> {"read", "write", "call"}]
          /\ cb \in [Callers -> Callers \cup {NoBreaker}]
          /\ outstanding \in Nat
          /\ streak \in 0 .. FailureThreshold
          /\ good \in Nat

Init == /\ registered = NoBreaker
        /\ breaker = [c \in Callers |-> NewBreaker]
        /\ pc = [c \in Callers |-> "read"]
        /\ cb = [c \in Callers |-> NoBreaker]
        /\ outstanding = 0
        /\ streak = 0 /\ good = 0
-----------------------------------------------------------------------------
(* Registry.Get. *)

Return(c, b) == /\ cb' = [cb EXCEPT ![c] = b]
                /\ pc' = [pc EXCEPT ![c] = "call"]

\* Under the read lock.
LookUp(c) ==
  /\ pc[c] = "read"
  /\ IF registered # NoBreaker
       THEN Return(c, registered)
       ELSE pc' = [pc EXCEPT ![c] = "write"] /\ UNCHANGED cb
  /\ UNCHANGED <<registered, breaker, outstanding, streak, good>>

\* Creating a breaker without looking again.
CreateOrFind_NoSecondLook(c) ==
  /\ pc[c] = "write"
  /\ Return(c, c) /\ registered' = c
  /\ breaker' = [breaker EXCEPT ![c] = NewBreaker]
  /\ UNCHANGED <<outstanding, streak, good>>

\* Under the write lock.
CreateOrFind(c) ==
  /\ pc[c] = "write"
  /\ IF registered # NoBreaker
       THEN Return(c, registered) /\ UNCHANGED <<registered, breaker>>
       ELSE /\ Return(c, c) /\ registered' = c
            /\ breaker' = [breaker EXCEPT ![c] = NewBreaker]
  /\ UNCHANGED <<outstanding, streak, good>>
-----------------------------------------------------------------------------
(* The methods, each under cb.mu. *)

\* The breaker caller c has got.
Got(c) == breaker[cb[c]]

\* Caller c calls a method of it that leaves it as nb.
Call(c, nb) ==
  /\ pc[c] = "call"
  /\ breaker' = [breaker EXCEPT ![cb[c]] = nb]
  /\ pc' = [pc EXCEPT ![c] = "read"]
  /\ cb' = [cb EXCEPT ![c] = NoBreaker]
  /\ UNCHANGED registered

\* A handler asks Allow; if the answer is yes and the queue has a task, that
\* task is sent to the worker.
AskAllow(c, sends) ==
  /\ Call(c, AfterAllow(Got(c)))
  /\ sends => Allow(Got(c)) /\ outstanding < MaxOutstanding
  /\ outstanding' = IF sends THEN outstanding + 1 ELSE outstanding
  /\ good' = IF Got(c).state = "OPEN" THEN 0 ELSE good
  /\ UNCHANGED streak

Success(c) ==
  /\ outstanding > 0
  /\ outstanding' = outstanding - 1
  /\ Call(c, RecordSuccess(Got(c)))
  /\ streak' = 0
  /\ good' = IF Got(c).state = "HALF_OPEN" THEN good + 1 ELSE good

Failure(c) ==
  /\ outstanding > 0
  /\ outstanding' = outstanding - 1
  /\ Call(c, RecordFailure(Got(c)))
  /\ streak' = Bump(streak)
  /\ UNCHANGED good

OperatorTrips(c) ==
  /\ Call(c, Trip(Got(c)))
  /\ UNCHANGED <<outstanding, streak, good>>

OperatorResets(c) ==
  /\ Call(c, Reset(Got(c)))
  /\ streak' = 0
  /\ UNCHANGED <<outstanding, good>>

\* Time passes.
Cools(o) == /\ breaker[o].state = "OPEN" /\ ~breaker[o].cooled
            /\ breaker' = [breaker EXCEPT ![o] = Cool(@)]
            /\ UNCHANGED <<getVars, outstanding, streak, good>>

Next == \E c \in Callers :
          \/ LookUp(c) \/ CreateOrFind(c)
          \/ \E sends \in BOOLEAN : AskAllow(c, sends)
          \/ Success(c) \/ Failure(c) \/ OperatorTrips(c) \/ OperatorResets(c)
          \/ Cools(c)

Spec == Init /\ [][Next]_vars
-----------------------------------------------------------------------------
\* Every caller whose Get has returned has the breaker that is in the registry:
\* no report goes to one that was replaced, where the handler that asks Allow
\* would never see it.
SharedBreaker == \A c \in Callers : pc[c] = "call" => /\ cb[c] = registered
                                                      /\ cb[c] # NoBreaker

\* The breaker the next Allow will be asked of.
Current == IF registered = NoBreaker THEN NewBreaker ELSE breaker[registered]

\* A CLOSED breaker has counted exactly the worker's failures in a row since the
\* last success or reset, and fewer than the threshold: whatever reports came
\* while it was OPEN or HALF_OPEN, it starts from a clean count, and it opens at
\* the threshold and not before.
ClosedCountsStreak ==
  Current.state = "CLOSED" => /\ Current.failureCount = streak
                              /\ Current.failureCount < FailureThreshold

\* A HALF_OPEN breaker has counted exactly the successes since it became so,
\* and fewer than it needs to close: none is left over from an earlier
\* HALF_OPEN period that a failure or a trip ended.
HalfOpenCountsSuccesses ==
  Current.state = "HALF_OPEN" => /\ Current.successCount = good
                                 /\ Current.successCount < SuccessThreshold
=============================================================================
