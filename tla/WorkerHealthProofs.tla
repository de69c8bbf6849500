------------------------- MODULE WorkerHealthProofs -------------------------
(***************************************************************************)
(* The registry's invariants for any number of workers and streams and     *)
(* any pair of timeouts.                                                   *)
(***************************************************************************)
EXTENDS WorkerHealth, TLAPS

\* The invariant is inductive with the types: only checkWorkerHealth makes a
\* worker SUSPECT, and what shortens its silence also clears the suspicion.
HealthInv == TypeOK /\ SuspectIsSilent

\* No worker is registered at the start.
LEMMA HealthInit == Init => HealthInv
  BY HealthAssumption DEF Init, HealthInv, TypeOK, SuspectIsSilent

\* Every step of handlers, workers, checker and clock keeps the invariant.
LEMMA HealthNext == HealthInv /\ [Next]_vars => HealthInv'
<1> SUFFICES ASSUME HealthInv, [Next]_vars PROVE HealthInv'
  OBVIOUS
<1> USE HealthAssumption DEF HealthInv, TypeOK
<1>1. ASSUME NEW s \in Streams, Register(s) PROVE HealthInv'
  <2>1. StreamWorker[s] \in Workers
    OBVIOUS
  <2>2. TypeOK'
    BY <1>1, <2>1 DEF Register
  <2> QED
    BY <1>1, <2>1, <2>2 DEF Register, SuspectIsSilent
<1>2. ASSUME NEW s \in Streams,
             Beat(s) \/ BeatLost(s) \/ Breaks(s)
      PROVE  HealthInv'
  <2>1. UNCHANGED <<state, silent>> /\ TypeOK'
    BY <1>2 DEF Beat, BeatLost, Breaks
  <2> QED
    BY <2>1 DEF SuspectIsSilent
<1>3. ASSUME NEW s \in Streams, MarkDead(s) PROVE HealthInv'
  <2>1. StreamWorker[s] \in Workers /\ silent' = silent
    BY <1>3 DEF MarkDead
  <2>2. TypeOK'
    BY <1>3, <2>1 DEF MarkDead
  <2>3. \A w \in Workers : state'[w] = "SUSPECT" => state[w] = "SUSPECT"
    BY <1>3, <2>1 DEF MarkDead
  <2> QED
    BY <2>1, <2>2, <2>3 DEF SuspectIsSilent
<1>4. ASSUME NEW s \in Streams, SendHeartbeat(s) PROVE HealthInv'
  <2> DEFINE w == StreamWorker[s]
  <2>1. w \in Workers
    OBVIOUS
  <2>2. CASE state[w] = "NONE"
    <3>1. UNCHANGED <<state, silent>> /\ TypeOK'
      BY <1>4, <2>1, <2>2 DEF SendHeartbeat
    <3> QED
      BY <3>1 DEF SuspectIsSilent
  <2>3. CASE state[w] # "NONE"
    <3>1. /\ silent' = [silent EXCEPT ![w] = 0]
          /\ state' = [state EXCEPT ![w] = IF state[w] = "SUSPECT" THEN "ACTIVE"
                                                                  ELSE state[w]]
          /\ beats' = beats \ {s} /\ UNCHANGED conn
      BY <1>4, <2>3 DEF SendHeartbeat
    <3>2. TypeOK'
      BY <2>1, <3>1
    <3>3. state'[w] # "SUSPECT"
      BY <2>1, <3>1
    <3>4. \A v \in Workers \ {w} : state'[v] = state[v] /\ silent'[v] = silent[v]
      BY <3>1
    <3> QED
      BY <3>2, <3>3, <3>4 DEF SuspectIsSilent
  <2> QED
    BY <2>2, <2>3
<1>5. ASSUME checkWorkerHealth PROVE HealthInv'
  <2>1. \A w \in Workers : /\ Checked(w) \in {"NONE", "ACTIVE", "SUSPECT", "DEAD"}
                           /\ Checked(w) = "SUSPECT" => silent[w] > HeartbeatTimeout
    BY DEF Checked, SuspectIsSilent
  <2> QED
    BY <1>5, <2>1 DEF checkWorkerHealth, SuspectIsSilent
<1>6. ASSUME TimePasses PROVE HealthInv'
  <2>1. \A w \in Workers : /\ silent'[w] \in 0 .. WorkerDeadTimeout + 1
                           /\ silent'[w] >= silent[w]
    BY <1>6 DEF TimePasses
  <2>2. TypeOK'
    BY <1>6, <2>1 DEF TimePasses
  <2> QED
    BY <1>6, <2>1, <2>2 DEF TimePasses, SuspectIsSilent
<1>7. ASSUME UNCHANGED vars PROVE HealthInv'
  BY <1>7 DEF vars, SuspectIsSilent
<1> QED
  BY <1>1, <1>2, <1>3, <1>4, <1>5, <1>6, <1>7 DEF Next

\* With any number of workers, lives and late heartbeats, no worker stays under
\* suspicion after a heartbeat, and none comes under it while it is heard.
THEOREM OnlySilentSuspected == Spec => []SuspectIsSilent
<1>1. HealthInv => SuspectIsSilent
  BY DEF HealthInv
<1> QED
  BY HealthInit, HealthNext, <1>1, PTL DEF Spec
=============================================================================
