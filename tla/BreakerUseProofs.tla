-------------------------- MODULE BreakerUseProofs --------------------------
(***************************************************************************)
(* The breaker of a worker and the Registry it comes from, for any number  *)
(* of callers and all thresholds.                                          *)
(***************************************************************************)
EXTENDS BreakerUse, CircuitBreakerProofs

\* That all callers share one breaker is what makes the history of reports the
\* history of that breaker: the counters cannot be understood without it.
UseInv == /\ TypeOK /\ Sane(Current)
          /\ SharedBreaker
          /\ ClosedCountsStreak
          /\ HalfOpenCountsSuccesses

\* No breaker is registered at first, and the histories are empty.
LEMMA UseInit == Init => UseInv
  BY NewBreakerSane, Counters
     DEF Init, UseInv, TypeOK, Sane, Current, NewBreaker, SharedBreaker,
         ClosedCountsStreak, HalfOpenCountsSuccesses

\* What is left to show of a method called by c: the breaker it leaves is sane
\* and its counter is the history's.
LEMMA CallKeeps ==
  ASSUME UseInv, NEW c \in Callers, NEW nb, Call(c, nb), Sane(nb),
         outstanding' \in Nat, streak' \in 0 .. FailureThreshold, good' \in Nat,
         nb.state = "CLOSED" => nb.failureCount = streak',
         nb.state = "HALF_OPEN" => nb.successCount = good'
  PROVE  UseInv'
<1>1. cb[c] = registered /\ registered \in Callers
  BY DEF Call, UseInv, SharedBreaker, TypeOK
<1>2. breaker' = [breaker EXCEPT ![registered] = nb] /\ registered' = registered
  BY <1>1 DEF Call
<1>3. registered # NoBreaker
  BY <1>1, UseAssumption
<1>4. Current' = nb
  BY <1>1, <1>2, <1>3 DEF Current, UseInv, TypeOK
<1>5. TypeOK'
  BY <1>1, <1>2 DEF Call, UseInv, TypeOK, Sane
<1>6. SharedBreaker'
  BY DEF Call, UseInv, TypeOK, SharedBreaker
<1> QED
  BY <1>4, <1>5, <1>6 DEF UseInv, Sane, ClosedCountsStreak, HalfOpenCountsSuccesses

\* Every step of every caller keeps the invariant.
LEMMA UseNext == UseInv /\ [Next]_vars => UseInv'
<1> SUFFICES ASSUME UseInv, [Next]_vars PROVE UseInv'
  OBVIOUS
<1>0. /\ outstanding \in Nat /\ streak \in 0 .. FailureThreshold /\ good \in Nat
  BY DEF UseInv, TypeOK
\* The breaker a caller calls is the registered one.
<1>b. ASSUME NEW c \in Callers, pc[c] = "call"
      PROVE  LET b == Got(c)
             IN  /\ Sane(b) /\ b \in Breaker /\ b.state \in BreakerState
                 /\ b.state = "CLOSED" => b.failureCount = streak
                 /\ b.state = "HALF_OPEN" => b.successCount = good
                 /\ b.failureCount \in 0 .. FailureThreshold
                 /\ b.successCount \in 0 .. SuccessThreshold
  <2>1. Got(c) = Current
    BY <1>b DEF UseInv, SharedBreaker, Got, Current
  <2> QED
    BY <2>1 DEF UseInv, ClosedCountsStreak, HalfOpenCountsSuccesses, Sane, Breaker
<1>1. ASSUME NEW c \in Callers, LookUp(c) PROVE UseInv'
  <2>1. TypeOK' /\ SharedBreaker'
    BY <1>1, UseAssumption DEF LookUp, Return, UseInv, TypeOK, SharedBreaker
  <2>2. Current' = Current /\ streak' = streak /\ good' = good
    BY <1>1 DEF LookUp, Current
  <2> QED
    BY <2>1, <2>2 DEF UseInv, Sane, ClosedCountsStreak, HalfOpenCountsSuccesses
<1>2. ASSUME NEW c \in Callers, CreateOrFind(c) PROVE UseInv'
  <2>1. CASE registered # NoBreaker
    <3>1. TypeOK' /\ SharedBreaker'
      BY <1>2, <2>1 DEF CreateOrFind, Return, UseInv, TypeOK, SharedBreaker
    <3>2. Current' = Current /\ streak' = streak /\ good' = good
      BY <1>2, <2>1 DEF CreateOrFind, Current
    <3> QED
      BY <3>1, <3>2 DEF UseInv, Sane, ClosedCountsStreak, HalfOpenCountsSuccesses
  <2>2. CASE registered = NoBreaker
    <3>1. NewBreaker \in Breaker
      BY NewBreakerSane DEF Sane
    <3>2. TypeOK'
      BY <1>2, <2>2, <3>1 DEF CreateOrFind, Return, UseInv, TypeOK
    <3>3. SharedBreaker'
      BY <1>2, <2>2, UseAssumption DEF CreateOrFind, Return, UseInv, TypeOK, SharedBreaker
    <3>4. Current' = Current
      BY <1>2, <2>2, UseAssumption DEF CreateOrFind, Current, UseInv, TypeOK
    <3>5. streak' = streak /\ good' = good
      BY <1>2 DEF CreateOrFind
    <3> QED
      BY <3>2, <3>3, <3>4, <3>5 DEF UseInv, Sane, ClosedCountsStreak, HalfOpenCountsSuccesses
  <2> QED
    BY <2>1, <2>2
<1>3. ASSUME NEW c \in Callers, NEW sends \in BOOLEAN, AskAllow(c, sends) PROVE UseInv'
  <2> DEFINE b == Got(c)
             nb == AfterAllow(b)
  <2>1. Call(c, nb) /\ pc[c] = "call"
    BY <1>3 DEF AskAllow, Call
  <2>2. Sane(nb)
    BY <1>b, <2>1, BreakerMethods
  <2>3. /\ nb.state = "CLOSED" => nb = b
        /\ nb.state = "HALF_OPEN" =>
             \/ b.state = "OPEN" /\ nb.successCount = 0
             \/ b.state = "HALF_OPEN" /\ nb = b
    BY <1>b, <2>1 DEF AfterAllow, Breaker
  <2>4. /\ good' = (IF b.state = "OPEN" THEN 0 ELSE good) /\ streak' = streak
        /\ outstanding' \in Nat
    BY <1>0, <1>3 DEF AskAllow
  <2>5. /\ b.state = "CLOSED" => b.failureCount = streak
        /\ b.state = "HALF_OPEN" => b.successCount = good
    BY <1>b, <2>1
  <2> HIDE DEF nb, b
  <2> QED
    BY <1>0, <2>1, <2>2, <2>3, <2>4, <2>5, CallKeeps
<1>4. ASSUME NEW c \in Callers, Success(c) PROVE UseInv'
  <2> DEFINE b == Got(c)
             nb == RecordSuccess(b)
  <2>1. Call(c, nb) /\ pc[c] = "call"
    BY <1>4 DEF Success, Call
  <2>2. Sane(nb)
    BY <1>b, <2>1, BreakerMethods
  <2>3. nb.state = "CLOSED" => nb.failureCount = 0
    BY <1>b, <2>1 DEF RecordSuccess, Breaker, BreakerState
  <2>4. nb.state = "HALF_OPEN" =>
          b.state = "HALF_OPEN" /\ nb.successCount = b.successCount + 1
    BY <1>b, <2>1 DEF RecordSuccess, Breaker, BreakerState
  <2>5. /\ streak' = 0 /\ good' = (IF b.state = "HALF_OPEN" THEN good + 1 ELSE good)
        /\ outstanding' \in Nat
    BY <1>0, <1>4 DEF Success
  <2>6. b.state = "HALF_OPEN" => b.successCount = good
    BY <1>b, <2>1
  <2> HIDE DEF nb, b
  <2> QED
    BY <1>0, <2>1, <2>2, <2>3, <2>4, <2>5, <2>6, Counters, CallKeeps
<1>5. ASSUME NEW c \in Callers, Failure(c) PROVE UseInv'
  <2> DEFINE b == Got(c)
             nb == RecordFailure(b)
  <2>1. Call(c, nb) /\ pc[c] = "call"
    BY <1>5 DEF Failure, Call
  <2>2. Sane(nb)
    BY <1>b, <2>1, BreakerMethods
  <2>3. /\ nb.state = "CLOSED" =>
             b.state = "CLOSED" /\ nb.failureCount = Bump(b.failureCount)
        /\ nb.state # "HALF_OPEN"
    BY <1>b, <2>1 DEF RecordFailure, Breaker, BreakerState
  <2>4. streak' = Bump(streak) /\ good' = good /\ outstanding' \in Nat
    BY <1>0, <1>5 DEF Failure
  <2>5. b.state = "CLOSED" => b.failureCount = streak
    BY <1>b, <2>1
  <2> HIDE DEF nb, b
  <2> QED
    BY <1>0, <2>1, <2>2, <2>3, <2>4, <2>5, Counters, CallKeeps
<1>6. ASSUME NEW c \in Callers, OperatorTrips(c) PROVE UseInv'
  <2>1. Call(c, Trip(Got(c))) /\ pc[c] = "call"
    BY <1>6 DEF OperatorTrips, Call
  <2>2. Sane(Trip(Got(c))) /\ Trip(Got(c)).state = "OPEN"
    BY <1>b, <2>1, BreakerMethods DEF Trip, Breaker
  <2> QED
    BY <1>0, <1>6, <2>1, <2>2, CallKeeps DEF OperatorTrips
<1>7. ASSUME NEW c \in Callers, OperatorResets(c) PROVE UseInv'
  <2>1. Call(c, Reset(Got(c))) /\ pc[c] = "call"
    BY <1>7 DEF OperatorResets, Call
  <2>2. /\ Sane(Reset(Got(c))) /\ Reset(Got(c)).state = "CLOSED"
        /\ Reset(Got(c)).failureCount = 0
    BY <1>b, <2>1, BreakerMethods DEF Reset, Breaker
  <2> QED
    BY <1>0, <1>7, <2>1, <2>2, Counters, CallKeeps DEF OperatorResets
<1>8. ASSUME NEW c \in Callers, Cools(c) PROVE UseInv'
  <2>1. Cool(breaker[c]) \in Breaker
    BY DEF UseInv, TypeOK, Cool, Breaker
  <2>2. TypeOK' /\ SharedBreaker'
    BY <1>8, <2>1 DEF Cools, getVars, UseInv, TypeOK, SharedBreaker
  <2>3. CASE registered = c
    <3>1. Current = breaker[c] /\ Current' = Cool(Current)
      BY <1>8, <2>3, UseAssumption DEF Cools, getVars, Current, UseInv, TypeOK
    <3>2. Sane(Current') /\ (Current').state = "OPEN"
      BY <1>8, <3>1, BreakerMethods DEF Cools, UseInv, Sane, Cool, Breaker
    <3> QED
      BY <2>2, <3>2 DEF UseInv, ClosedCountsStreak, HalfOpenCountsSuccesses, Sane
  <2>4. CASE registered # c
    <3>1. Current' = Current /\ streak' = streak /\ good' = good
      BY <1>8, <2>4 DEF Cools, getVars, Current, UseInv, TypeOK
    <3> QED
      BY <2>2, <3>1 DEF UseInv, Sane, ClosedCountsStreak, HalfOpenCountsSuccesses
  <2> QED
    BY <2>3, <2>4
<1>9. ASSUME UNCHANGED vars PROVE UseInv'
  BY <1>9 DEF vars, UseInv, TypeOK, SharedBreaker, Current, ClosedCountsStreak,
              HalfOpenCountsSuccesses, Sane
<1> QED
  BY <1>1, <1>2, <1>3, <1>4, <1>5, <1>6, <1>7, <1>8, <1>9 DEF Next

\* The state of the registry, its breakers and its callers keeps its type.
THEOREM UseTypeCorrect == Spec => []TypeOK
<1>1. UseInv => TypeOK
  BY DEF UseInv
<1> QED
  BY UseInit, UseNext, <1>1, PTL DEF Spec

\* However many goroutines call Get at once, all get the one breaker that stays
\* in the registry.
THEOREM OneBreakerPerWorker == Spec => []SharedBreaker
<1>1. UseInv => SharedBreaker
  BY DEF UseInv
<1> QED
  BY UseInit, UseNext, <1>1, PTL DEF Spec

\* For all thresholds and however late reports come, a closed breaker has
\* counted the current run of failures and no others.
THEOREM ClosedCounts == Spec => []ClosedCountsStreak
<1>1. UseInv => ClosedCountsStreak
  BY DEF UseInv
<1> QED
  BY UseInit, UseNext, <1>1, PTL DEF Spec

\* For all thresholds, a half-open breaker has counted the successes of the
\* current half-open period and no others.
THEOREM HalfOpenCounts == Spec => []HalfOpenCountsSuccesses
<1>1. UseInv => HalfOpenCountsSuccesses
  BY DEF UseInv
<1> QED
  BY UseInit, UseNext, <1>1, PTL DEF Spec
=============================================================================
