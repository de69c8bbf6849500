----------------------------- MODULE Lifecycle ------------------------------
(***************************************************************************)
(* Start-up and shutdown of the master: Start, startGRPC and startHTTP of  *)
(* internal/master/master.go with the readiness flag of internal/health.   *)
(* Start runs the gRPC server, the HTTP server and the health checker in   *)
(* an errgroup, whose context is done after SIGTERM or the first error;    *)
(* each server has a goroutine beside it that waits for that context and   *)
(* stops the server.                                                       *)
(*                                                                         *)
(* Of the servers, which are libraries, the model has what Start relies    *)
(* on.  grpc.Server.GracefulStop waits for the open streams, and Serve     *)
(* returns only after it, or with an error when called after it has begun. *)
(* http.Server.ListenAndServe returns as soon as Shutdown is called, while *)
(* Shutdown waits for the requests under way.                              *)
(***************************************************************************)
CONSTANTS Streams,    \* AssignTask calls that may be open at once
          Requests    \* HTTP requests that may be under way at once

VARIABLES
  ctx,       \* "live" or "done"
  ready,     \* health.Checker.ready
  grpc,      \* where startGRPC is; "failed" when it has returned an error
  gstop,     \* the goroutine that stops the gRPC server
  http,      \* where startHTTP is
  hstop,     \* the goroutine that stops the HTTP server
  checker,   \* StartHealthChecker
  main,      \* Start waits for the group, or has returned
  streams,   \* open AssignTask streams
  requests,  \* HTTP requests under way
  late       \* history: SetReady(true) came after SetReady(false)

grpcVars == <<ready, grpc, gstop, streams, late>>
httpVars == <<http, hstop, requests>>
vars == <<ctx, grpcVars, httpVars, checker, main>>

TypeOK ==
  /\ ctx \in {"live", "done"}
  /\ ready \in BOOLEAN
  /\ grpc \in {"listen", "ready", "serve", "serving", "returned", "failed"}
  /\ gstop \in {"none", "waiting", "unready", "stopping", "ended"}
  /\ http \in {"setup", "listen", "serving", "returned", "failed"}
  /\ hstop \in {"none", "waiting", "shutdown", "ended", "timedout"}
  /\ checker \in {"running", "returned"}
  /\ main \in {"wait", "exited"}
  /\ streams \subseteq Streams
  /\ requests \subseteq Requests
  /\ late \in BOOLEAN

Init ==
  /\ ctx = "live" /\ ready = FALSE
  /\ grpc = "listen" /\ gstop = "none"
  /\ http = "setup" /\ hstop = "none"
  /\ checker = "running" /\ main = "wait"
  /\ streams = {} /\ requests = {} /\ late = FALSE

Alive == main = "wait"
Stopping == gstop \in {"stopping", "ended"}   \* GracefulStop has been called
-----------------------------------------------------------------------------
\* SIGTERM or an interrupt.
Signal ==
  /\ Alive /\ ctx = "live"
  /\ ctx' = "done"
  /\ UNCHANGED <<grpcVars, httpVars, checker, main>>
-----------------------------------------------------------------------------
(* startGRPC. *)

\* The first error of a goroutine in the group ends the context.
ListenGRPCFails ==
  /\ Alive /\ grpc = "listen"
  /\ grpc' = "failed" /\ ctx' = "done"
  /\ UNCHANGED <<ready, gstop, streams, late, httpVars, checker, main>>

ListenGRPC ==
  /\ Alive /\ grpc = "listen"
  /\ grpc' = "ready" /\ gstop' = "waiting"
  /\ UNCHANGED <<ctx, ready, streams, late, httpVars, checker, main>>

SetReady ==
  /\ Alive /\ grpc = "ready"
  /\ ready' = TRUE
  /\ late' = (gstop # "waiting")
  /\ grpc' = "serve"
  /\ UNCHANGED <<ctx, gstop, streams, httpVars, checker, main>>

\* Serve refuses a server that is being stopped.
Serve ==
  /\ Alive /\ grpc = "serve"
  /\ grpc' = IF Stopping THEN "failed" ELSE "serving"
  /\ UNCHANGED <<ctx, ready, gstop, streams, late, httpVars, checker, main>>

\* Returning as soon as the server is being stopped, as the HTTP server does.
ServeReturns_AtOnce ==
  /\ Alive /\ grpc = "serving" /\ Stopping
  /\ grpc' = "returned"
  /\ UNCHANGED <<ctx, ready, gstop, streams, late, httpVars, checker, main>>

ServeReturns ==
  /\ Alive /\ grpc = "serving" /\ gstop = "ended"
  /\ grpc' = "returned"
  /\ UNCHANGED <<ctx, ready, gstop, streams, late, httpVars, checker, main>>

\* Accept fails for good.
ServeFails ==
  /\ Alive /\ grpc = "serving" /\ ~Stopping
  /\ grpc' = "failed" /\ ctx' = "done"
  /\ UNCHANGED <<ready, gstop, streams, late, httpVars, checker, main>>

\* Readiness withdrawn only after the server has stopped.
SetUnready_Later ==
  /\ Alive /\ gstop = "waiting" /\ ctx = "done"
  /\ gstop' = "unready"
  /\ UNCHANGED <<ctx, ready, grpc, streams, late, httpVars, checker, main>>

SetUnready ==
  /\ Alive /\ gstop = "waiting" /\ ctx = "done"
  /\ ready' = FALSE
  /\ gstop' = "unready"
  /\ UNCHANGED <<ctx, grpc, streams, late, httpVars, checker, main>>

GracefulStop ==
  /\ Alive /\ gstop = "unready"
  /\ gstop' = "stopping"
  /\ UNCHANGED <<ctx, ready, grpc, streams, late, httpVars, checker, main>>

GracefulStopReturns ==
  /\ Alive /\ gstop = "stopping" /\ streams = {}
  /\ gstop' = "ended"
  /\ UNCHANGED <<ctx, ready, grpc, streams, late, httpVars, checker, main>>

OpenStream(s) ==
  /\ Alive /\ grpc = "serving" /\ ~Stopping /\ s \notin streams
  /\ streams' = streams \cup {s}
  /\ UNCHANGED <<ctx, ready, grpc, gstop, late, httpVars, checker, main>>

\* The worker goes or is disconnected; the handler does not look at this ctx.
EndStream(s) ==
  /\ Alive /\ s \in streams
  /\ streams' = streams \ {s}
  /\ UNCHANGED <<ctx, ready, grpc, gstop, late, httpVars, checker, main>>
-----------------------------------------------------------------------------
(* startHTTP. *)

SetUpHTTP ==
  /\ Alive /\ http = "setup"
  /\ http' = "listen" /\ hstop' = "waiting"
  /\ UNCHANGED <<ctx, grpcVars, requests, checker, main>>

\* ListenAndServe refuses a server that is being shut down.
ListenHTTP ==
  /\ Alive /\ http = "listen"
  /\ http' = IF hstop = "waiting" THEN "serving" ELSE "returned"
  /\ UNCHANGED <<ctx, grpcVars, hstop, requests, checker, main>>

ListenHTTPFails ==
  /\ Alive /\ http = "listen"
  /\ http' = "failed" /\ ctx' = "done"
  /\ UNCHANGED <<grpcVars, hstop, requests, checker, main>>

ShutdownHTTP ==
  /\ Alive /\ hstop = "waiting" /\ ctx = "done"
  /\ hstop' = "shutdown"
  /\ UNCHANGED <<ctx, grpcVars, http, requests, checker, main>>

\* Shutdown returns when nothing is under way, or at GracefulShutdownTimeout.
ShutdownReturns ==
  /\ Alive /\ hstop = "shutdown" /\ requests = {}
  /\ hstop' = "ended"
  /\ UNCHANGED <<ctx, grpcVars, http, requests, checker, main>>

ShutdownTimesOut ==
  /\ Alive /\ hstop = "shutdown" /\ requests # {}
  /\ hstop' = "timedout"
  /\ UNCHANGED <<ctx, grpcVars, http, requests, checker, main>>

ListenAndServeReturns ==
  /\ Alive /\ http = "serving" /\ hstop # "waiting"
  /\ http' = "returned"
  /\ UNCHANGED <<ctx, grpcVars, hstop, requests, checker, main>>

BeginRequest(r) ==
  /\ Alive /\ http = "serving" /\ hstop = "waiting" /\ r \notin requests
  /\ requests' = requests \cup {r}
  /\ UNCHANGED <<ctx, grpcVars, http, hstop, checker, main>>

EndRequest(r) ==
  /\ Alive /\ r \in requests
  /\ requests' = requests \ {r}
  /\ UNCHANGED <<ctx, grpcVars, http, hstop, checker, main>>
-----------------------------------------------------------------------------
\* A checker that only listens to its tickers.
StopChecker_Deaf == FALSE /\ UNCHANGED vars

StopChecker ==
  /\ Alive /\ checker = "running" /\ ctx = "done"
  /\ checker' = "returned"
  /\ UNCHANGED <<ctx, grpcVars, httpVars, main>>

\* g.Wait returns, the store is closed and the process exits.
Exit ==
  /\ Alive /\ checker = "returned"
  /\ grpc \in {"returned", "failed"} /\ http \in {"returned", "failed"}
  /\ main' = "exited"
  /\ UNCHANGED <<ctx, grpcVars, httpVars, checker>>
-----------------------------------------------------------------------------
GRPCStep == ListenGRPCFails \/ ListenGRPC \/ SetReady \/ Serve \/ ServeReturns
GStopStep == SetUnready \/ GracefulStop \/ GracefulStopReturns
HTTPStep == SetUpHTTP \/ ListenHTTP \/ ListenHTTPFails \/ ListenAndServeReturns
HStopStep == ShutdownHTTP \/ ShutdownReturns \/ ShutdownTimesOut

Next == \/ Signal \/ GRPCStep \/ ServeFails \/ GStopStep
        \/ HTTPStep \/ HStopStep \/ StopChecker \/ Exit
        \/ \E s \in Streams : OpenStream(s) \/ EndStream(s)
        \/ \E r \in Requests : BeginRequest(r) \/ EndRequest(r)

Spec == Init /\ [][Next]_vars

\* Goroutines run.  Nothing makes a worker end its stream, a client end its
\* request or a signal come.
Fairness == /\ WF_vars(GRPCStep) /\ WF_vars(GStopStep)
            /\ WF_vars(HTTPStep) /\ WF_vars(HStopStep)
            /\ WF_vars(StopChecker) /\ WF_vars(Exit)

FairSpec == Spec /\ Fairness
-----------------------------------------------------------------------------
\* The process never exits under a worker that is connected: when g.Wait
\* returns, GracefulStop has waited for every stream, whatever order start-up,
\* signal, failed listener and shutdown came in.  The one exception is an Accept
\* that fails for good, for which startGRPC returns while streams are open.
NoStreamCut == ~Alive /\ streams # {} => grpc = "failed"

\* /readyz stops answering "ready" before the server begins to refuse workers,
\* unless the signal came so early that the shutdown goroutine's SetReady(false)
\* was overtaken by start-up's SetReady(true); then it says so to the end.
UnreadyWhileStopping == Stopping /\ ready => late

\* Once the context is done the master exits, whether or not requests end,
\* unless a worker keeps its stream open: nothing bounds the wait for those.
StopsUnlessHeld == (ctx = "done" ~> ~Alive) \/ <>[](streams # {})
-----------------------------------------------------------------------------
\* config.go: GracefulShutdownTimeout is "the max time to wait for in-flight work
\* during shutdown": a master that shuts down in order does not exit while a
\* request is under way, unless Shutdown has given up on it.
RequestsFinish ==
  ~Alive /\ grpc = "returned" /\ http = "returned" /\ requests # {} =>
    hstop = "timedout"
=============================================================================
