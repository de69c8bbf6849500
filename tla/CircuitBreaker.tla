--------------------------- MODULE CircuitBreaker ---------------------------
(***************************************************************************)
(* The CircuitBreaker of internal/circuitbreaker/circuit_breaker.go, as    *)
(* operators on a breaker record.  Every method runs under cb.mu.          *)
(* cooled stands for time.Since(lastFailure) > timeout in state OPEN, the  *)
(* only one in which Allow asks; a failure and a manual trip restart that  *)
(* clock.  failureCount is only ever compared with FailureThreshold, so it *)
(* is kept up to that value.                                               *)
(***************************************************************************)
EXTENDS Integers

CONSTANTS FailureThreshold, SuccessThreshold   \* 5 and 2 in NewNodeServer

ASSUME ThresholdsAssumption == /\ FailureThreshold \in Nat \ {0}
                               /\ SuccessThreshold \in Nat \ {0}

BreakerState == {"CLOSED", "OPEN", "HALF_OPEN"}

Breaker == [state : BreakerState, failureCount : 0 .. FailureThreshold,
            successCount : 0 .. SuccessThreshold, cooled : BOOLEAN]

NewBreaker == [state |-> "CLOSED", failureCount |-> 0, successCount |-> 0,
               cooled |-> FALSE]

\* One more failure, as far as the threshold.
Bump(n) == IF n < FailureThreshold THEN n + 1 ELSE n

\* The answer of Allow ...
Allow(b) == b.state # "OPEN" \/ b.cooled

\* A new round of probes that keeps the successes of the last one.
AfterAllow_KeepSuccesses(b) ==
  IF b.state = "OPEN" /\ b.cooled
    THEN [b EXCEPT !.state = "HALF_OPEN", !.cooled = FALSE]
    ELSE b

\* ... and the breaker it leaves behind.
AfterAllow(b) ==
  IF b.state = "OPEN" /\ b.cooled
    THEN [b EXCEPT !.state = "HALF_OPEN", !.successCount = 0, !.cooled = FALSE]
    ELSE b

\* Closing again without clearing the failures that opened the breaker.
RecordSuccess_KeepFailures(b) ==
  CASE b.state = "HALF_OPEN" ->
         IF b.successCount + 1 >= SuccessThreshold
           THEN [b EXCEPT !.state = "CLOSED", !.successCount = 0]
           ELSE [b EXCEPT !.successCount = @ + 1]
    [] b.state = "CLOSED" -> [b EXCEPT !.failureCount = 0]
    [] b.state = "OPEN"   -> b

\* Successes counted but never compared with the threshold.
RecordSuccess_NeverCloses(b) ==
  CASE b.state = "HALF_OPEN" -> [b EXCEPT !.successCount = @ + 1]
    [] b.state = "CLOSED" -> [b EXCEPT !.failureCount = 0]
    [] b.state = "OPEN"   -> b

RecordSuccess(b) ==
  CASE b.state = "HALF_OPEN" ->
         IF b.successCount + 1 >= SuccessThreshold
           THEN [b EXCEPT !.state = "CLOSED", !.failureCount = 0, !.successCount = 0]
           ELSE [b EXCEPT !.successCount = @ + 1]
    [] b.state = "CLOSED" -> [b EXCEPT !.failureCount = 0]
    [] b.state = "OPEN"   -> b

RecordFailure(b) ==
  LET n == Bump(b.failureCount)
      c == [b EXCEPT !.failureCount = n, !.cooled = FALSE]
  IN  IF \/ b.state = "CLOSED" /\ n >= FailureThreshold
         \/ b.state = "HALF_OPEN"
        THEN [c EXCEPT !.state = "OPEN"]
        ELSE c

Trip(b) == [b EXCEPT !.state = "OPEN", !.cooled = FALSE]

Reset(b) == [b EXCEPT !.state = "CLOSED", !.failureCount = 0, !.successCount = 0,
                      !.cooled = FALSE]

\* The timeout of an open breaker elapses.
Cool(b) == [b EXCEPT !.cooled = TRUE]
=============================================================================
