------------------------ MODULE CircuitBreakerProofs ------------------------
(***************************************************************************)
(* What the methods of CircuitBreaker do to a breaker, for all thresholds. *)
(***************************************************************************)
EXTENDS CircuitBreaker, TLAPS

\* Below its threshold no counter of a reachable breaker is out of range: the
\* methods keep the type of a breaker that is CLOSED or HALF_OPEN only with
\* counters below the thresholds.
Sane(b) == /\ b \in Breaker
           /\ b.state = "CLOSED" => b.failureCount < FailureThreshold
           /\ b.state = "HALF_OPEN" => b.successCount < SuccessThreshold

\* What the methods do to the two counters, within their ranges.
LEMMA Counters == /\ 0 \in 0 .. FailureThreshold /\ 0 < FailureThreshold
                  /\ 0 \in 0 .. SuccessThreshold /\ 0 < SuccessThreshold
                  /\ \A n \in 0 .. FailureThreshold :
                       /\ Bump(n) \in 0 .. FailureThreshold
                       /\ n < FailureThreshold => Bump(n) = n + 1
                       /\ ~(n < FailureThreshold) => Bump(n) = n
                  /\ \A n \in 0 .. SuccessThreshold :
                       ~(n + 1 >= SuccessThreshold) =>
                         n + 1 \in 0 .. SuccessThreshold /\ n + 1 < SuccessThreshold
  BY ThresholdsAssumption DEF Bump

\* Every method leaves a sane breaker sane.
LEMMA BreakerMethods ==
  ASSUME NEW b, Sane(b)
  PROVE  /\ Sane(AfterAllow(b))
         /\ Sane(RecordSuccess(b))
         /\ Sane(RecordFailure(b))
         /\ Sane(Trip(b))
         /\ Sane(Reset(b))
         /\ Sane(Cool(b))
<1> USE Counters DEF Sane, Breaker, BreakerState
<1>1. Sane(AfterAllow(b))
  BY DEF AfterAllow
<1>2. Sane(RecordSuccess(b))
  <2>1. CASE b.state = "HALF_OPEN"
    BY <2>1 DEF RecordSuccess
  <2>2. CASE b.state = "CLOSED"
    BY <2>2 DEF RecordSuccess
  <2>3. CASE b.state = "OPEN"
    BY <2>3 DEF RecordSuccess
  <2> QED
    BY <2>1, <2>2, <2>3
<1>3. Sane(RecordFailure(b))
  <2> DEFINE n == Bump(b.failureCount)
             c == [b EXCEPT !.failureCount = n, !.cooled = FALSE]
  <2>1. /\ c \in Breaker /\ c.state = b.state
        /\ c.failureCount = n /\ c.successCount = b.successCount
    OBVIOUS
  <2>2. CASE (b.state = "CLOSED" /\ n >= FailureThreshold) \/ b.state = "HALF_OPEN"
    <3>1. RecordFailure(b) = [c EXCEPT !.state = "OPEN"]
      BY <2>2 DEF RecordFailure
    <3> QED
      BY <2>1, <3>1
  <2>3. CASE ~((b.state = "CLOSED" /\ n >= FailureThreshold) \/ b.state = "HALF_OPEN")
    <3>1. RecordFailure(b) = c
      BY <2>3 DEF RecordFailure
    <3>2. b.state = "CLOSED" => n < FailureThreshold
      BY <2>3, ThresholdsAssumption
    <3> QED
      BY <2>1, <2>3, <3>1, <3>2
  <2> QED
    BY <2>2, <2>3
<1>4. Sane(Trip(b))
  BY DEF Trip
<1>5. Sane(Reset(b))
  BY DEF Reset
<1>6. Sane(Cool(b))
  BY DEF Cool
<1> QED
  BY <1>1, <1>2, <1>3, <1>4, <1>5, <1>6

\* A new breaker is sane.
LEMMA NewBreakerSane == Sane(NewBreaker)
  BY Counters DEF Sane, NewBreaker, Breaker, BreakerState
=============================================================================
