-------------------------- MODULE LifecycleProofs ---------------------------
(***************************************************************************)
(* Start-up and shutdown of the master, for any number of streams.         *)
(***************************************************************************)
EXTENDS Lifecycle, TLAPS

\* What Start and its goroutines know of each other.  The goroutine that stops
\* the gRPC server exists from the listener on, so startGRPC can only have
\* failed without it; Serve returns after GracefulStop has, which waits for
\* every stream; and no stream opens before Serve or after GracefulStop.  A
\* readiness that outlives SetReady(false) was set late.
ShutdownInv ==
  /\ main \in {"wait", "exited"} /\ ready \in BOOLEAN
  /\ grpc \in {"listen", "ready", "serve", "serving", "returned", "failed"}
  /\ gstop \in {"none", "waiting", "unready", "stopping", "ended"}
  /\ gstop = "none" => grpc \in {"listen", "failed"} /\ ready = FALSE
  /\ grpc \in {"listen", "ready"} => ready = FALSE
  /\ grpc = "returned" => gstop = "ended"
  /\ gstop = "ended" => streams = {}
  /\ grpc \in {"listen", "ready", "serve"} => streams = {}
  /\ gstop \in {"unready", "stopping", "ended"} /\ ready => late
  /\ ~Alive => grpc \in {"returned", "failed"}

\* Each step of Start, of its goroutines, of a worker or of a client keeps it.
LEMMA ShutdownNext == ShutdownInv /\ [Next]_vars => ShutdownInv'
<1> SUFFICES ASSUME ShutdownInv, [Next]_vars PROVE ShutdownInv'
  OBVIOUS
<1> USE DEF ShutdownInv, Alive
\* The HTTP server, the health checker and the signal touch none of this.
<1>1. ASSUME UNCHANGED <<grpcVars, main>> PROVE ShutdownInv'
  BY <1>1 DEF grpcVars
<1>2. CASE Signal \/ StopChecker \/ HTTPStep \/ HStopStep
  BY <1>1, <1>2
     DEF Signal, StopChecker, HTTPStep, SetUpHTTP, ListenHTTP, ListenHTTPFails,
         ListenAndServeReturns, HStopStep, ShutdownHTTP, ShutdownReturns,
         ShutdownTimesOut
<1>3. ASSUME NEW r \in Requests, BeginRequest(r) \/ EndRequest(r)
      PROVE  ShutdownInv'
  BY <1>1, <1>3 DEF BeginRequest, EndRequest
<1>4. CASE ListenGRPCFails \/ ListenGRPC
  BY <1>4 DEF ListenGRPCFails, ListenGRPC
<1>5. CASE SetReady
  BY <1>5 DEF SetReady
<1>6. CASE Serve
  BY <1>6 DEF Serve
<1>7. CASE ServeReturns \/ ServeFails
  BY <1>7 DEF ServeReturns, ServeFails, Stopping
<1>8. CASE SetUnready
  BY <1>8 DEF SetUnready
<1>9. CASE GracefulStop \/ GracefulStopReturns
  BY <1>9 DEF GracefulStop, GracefulStopReturns
<1>10. ASSUME NEW s \in Streams, OpenStream(s) \/ EndStream(s)
       PROVE  ShutdownInv'
  BY <1>10 DEF OpenStream, EndStream, Stopping
<1>11. CASE Exit
  BY <1>11 DEF Exit, grpcVars
<1>12. CASE UNCHANGED vars
  BY <1>1, <1>12 DEF vars
<1> QED
  BY <1>2, <1>3, <1>4, <1>5, <1>6, <1>7, <1>8, <1>9, <1>10, <1>11, <1>12
     DEF Next, GRPCStep, GStopStep

LEMMA ShutdownAlways == Spec => []ShutdownInv
<1>1. Init => ShutdownInv
  BY DEF Init, ShutdownInv, Alive
<1> QED
  BY <1>1, ShutdownNext, PTL DEF Spec

\* For any number of workers, and whatever the order of start-up, signal, failed
\* listeners and shutdown, the process does not exit under an open stream unless
\* startGRPC has returned an error.
THEOREM StreamsEndFirst == Spec => []NoStreamCut
<1>1. ShutdownInv => NoStreamCut
  BY DEF ShutdownInv, NoStreamCut
<1> QED
  BY <1>1, ShutdownAlways, PTL

\* Likewise readiness is withdrawn before the server refuses workers, except
\* where start-up's SetReady(true) overtook SetReady(false).
THEOREM ReadinessFirst == Spec => []UnreadyWhileStopping
<1>1. ShutdownInv => UnreadyWhileStopping
  BY DEF ShutdownInv, UnreadyWhileStopping, Stopping
<1> QED
  BY <1>1, ShutdownAlways, PTL
=============================================================================
