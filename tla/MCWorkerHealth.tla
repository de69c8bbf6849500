--------------------------- MODULE MCWorkerHealth ---------------------------
(***************************************************************************)
(* Two lives of one worker id beside a worker of another id.               *)
(***************************************************************************)
EXTENDS WorkerHealth, TLC

CONSTANTS w1, w2, s1, s2, s3

RestartedWorker == s1 :> w1 @@ s2 :> w1 @@ s3 :> w2
=============================================================================
