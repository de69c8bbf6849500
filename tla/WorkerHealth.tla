---------------------------- MODULE WorkerHealth ----------------------------
(***************************************************************************)
(* The worker registry of internal/server/node_server.go: NodeServer.      *)
(* Workers, written by the AssignTask handlers, by SendHeartbeat and by    *)
(* the health checker, each under NodeServer.mu.  Of the rest of the       *)
(* system it keeps what the registry is about: whether a stream and the    *)
(* process behind it are alive, and the heartbeats under way.  Neither the *)
(* registry nor the checker touches a task; Dispatch has those.            *)
(*                                                                         *)
(* Time is counted in health checks' worth of silence: silent[w] is        *)
(* now.Sub(w.LastHeartbeat), kept up to one more than WorkerDeadTimeout.   *)
(***************************************************************************)
EXTENDS Integers

CONSTANTS Workers, Streams,
          StreamWorker,       \* the WorkerId each stream registers with
          HeartbeatTimeout,   \* 30s, and
          WorkerDeadTimeout   \* 60s, in config.Load

ASSUME HealthAssumption == /\ StreamWorker \in [Streams -> Workers]
                           /\ HeartbeatTimeout \in Nat
                           /\ WorkerDeadTimeout \in Nat
                           /\ HeartbeatTimeout <= WorkerDeadTimeout

VARIABLES
  state,     \* WorkerInfo.State; "NONE" when the id is not in Workers
  silent,    \* time since WorkerInfo.LastHeartbeat
  conn,      \* stream: "new", "open", "gone" (its process), "closed" (its handler)
  beats      \* streams whose process has a SendHeartbeat call under way

vars == <<state, silent, conn, beats>>

TypeOK ==
  /\ state \in [Workers -> {"NONE", "ACTIVE", "SUSPECT", "DEAD"}]
  /\ silent \in [Workers -> 0 .. WorkerDeadTimeout + 1]
  /\ conn \in [Streams -> {"new", "open", "gone", "closed"}]
  /\ beats \in SUBSET Streams

Init == /\ state = [w \in Workers |-> "NONE"]
        /\ silent = [w \in Workers |-> 0]
        /\ conn = [s \in Streams |-> "new"]
        /\ beats = {}
-----------------------------------------------------------------------------
(* The AssignTask handler. *)

\* A new WorkerInfo replaces whatever the id had.
Register(s) ==
  /\ conn[s] = "new"
  /\ \A r \in Streams \ {s} : StreamWorker[r] = StreamWorker[s] => conn[r] # "open"
  /\ conn' = [conn EXCEPT ![s] = "open"]
  /\ state' = [state EXCEPT ![StreamWorker[s]] = "ACTIVE"]
  /\ silent' = [silent EXCEPT ![StreamWorker[s]] = 0]
  /\ UNCHANGED beats

\* The deferred function: DEAD, whoever the id is now.
MarkDead(s) ==
  /\ conn[s] = "gone"
  /\ conn' = [conn EXCEPT ![s] = "closed"]
  /\ state' = [state EXCEPT ![StreamWorker[s]] = "DEAD"]
  /\ UNCHANGED <<silent, beats>>
-----------------------------------------------------------------------------
(* Workers. *)

\* heartbeatLoop waits for the answer before its next heartbeat.
Beat(s) ==
  /\ conn[s] = "open"
  /\ beats' = beats \cup {s}
  /\ UNCHANGED <<state, silent, conn>>

BeatLost(s) ==
  /\ s \in beats
  /\ beats' = beats \ {s}
  /\ UNCHANGED <<state, silent, conn>>

Breaks(s) ==
  /\ conn[s] = "open"
  /\ conn' = [conn EXCEPT ![s] = "gone"]
  /\ UNCHANGED <<state, silent, beats>>
-----------------------------------------------------------------------------
(* SendHeartbeat, the health checker, and time. *)

\* A heartbeat that does not clear the suspicion.
SendHeartbeat_KeepSuspect(s) ==
  /\ s \in beats
  /\ beats' = beats \ {s}
  /\ IF state[StreamWorker[s]] = "NONE"
       THEN UNCHANGED <<state, silent>>
       ELSE /\ silent' = [silent EXCEPT ![StreamWorker[s]] = 0]
            /\ UNCHANGED state
  /\ UNCHANGED conn

SendHeartbeat(s) ==
  LET w == StreamWorker[s]
  IN  /\ s \in beats
      /\ beats' = beats \ {s}
      /\ IF state[w] = "NONE"
           THEN UNCHANGED <<state, silent>>
           ELSE /\ silent' = [silent EXCEPT ![w] = 0]
                /\ state' = [state EXCEPT ![w] = IF @ = "SUSPECT" THEN "ACTIVE" ELSE @]
      /\ UNCHANGED conn

\* A checker that passes over suspects as it passes over the dead.
Checked_SkipSuspect(w) ==
  IF silent[w] > HeartbeatTimeout /\ state[w] = "ACTIVE" THEN "SUSPECT" ELSE state[w]

\* The state of w after checkWorkerHealth.
Checked(w) ==
  CASE silent[w] > WorkerDeadTimeout /\ state[w] = "SUSPECT" -> "DEAD"
    [] silent[w] > HeartbeatTimeout /\ state[w] = "ACTIVE"   -> "SUSPECT"
    [] OTHER                                                 -> state[w]

checkWorkerHealth ==
  /\ state' = [w \in Workers |-> Checked(w)]
  /\ UNCHANGED <<silent, conn, beats>>

TimePasses ==
  /\ silent' = [w \in Workers |-> IF state[w] = "NONE" \/ silent[w] > WorkerDeadTimeout
                                    THEN silent[w] ELSE silent[w] + 1]
  /\ UNCHANGED <<state, conn, beats>>
-----------------------------------------------------------------------------
Next ==
  \/ \E s \in Streams : \/ Register(s) \/ MarkDead(s)
                        \/ Beat(s) \/ BeatLost(s) \/ Breaks(s) \/ SendHeartbeat(s)
  \/ checkWorkerHealth \/ TimePasses

Spec == Init /\ [][Next]_vars

\* The ticker fires, time passes, and a handler whose stream is gone ends.
\* Workers and the network promise nothing.
FairSpec == /\ Spec
            /\ WF_vars(checkWorkerHealth) /\ WF_vars(TimePasses)
            /\ \A s \in Streams : WF_vars(MarkDead(s))
-----------------------------------------------------------------------------
\* Only silence is suspicious: in every interleaving of registration, late
\* heartbeats, checks and clean-up, a worker that is SUSPECT has been silent
\* for more than HeartbeatTimeout, for a heartbeat clears the suspicion at once.
SuspectIsSilent ==
  \A w \in Workers : state[w] = "SUSPECT" => silent[w] > HeartbeatTimeout

\* A worker that goes silent for good is declared DEAD, although it takes two
\* checks, through SUSPECT, to get there.
SilenceDetected ==
  \A w \in Workers :
    \/ []<>(state[w] \in {"NONE", "DEAD"})
    \/ []<><<\E s \in Streams : StreamWorker[s] = w /\ SendHeartbeat(s)>>_vars

\* api/node.proto, WORKER_DEAD: "Confirmed unreachable": no worker is DEAD that
\* has a live stream and whose last heartbeat is fresh.
DeadIsUnreachable ==
  \A s \in Streams : conn[s] = "open" /\ silent[StreamWorker[s]] <= HeartbeatTimeout =>
                       state[StreamWorker[s]] # "DEAD"
=============================================================================
