----------------------------- MODULE MCDispatch -----------------------------
(***************************************************************************)
(* Instances of Dispatch for TLC.  The cfg files choose among the values   *)
(* below for the constants that are functions.                             *)
(***************************************************************************)
EXTENDS Dispatch, TLC

CONSTANTS w1, w2, s1, s2, t1, t2, t3

\* Two lives of the same worker id.
RestartedWorker == s1 :> w1 @@ s2 :> w1

OneStreamEach == s1 :> w1 @@ s2 :> w2

AllNormal == [t \in Tasks |-> 1]

HighAndNormal == t1 :> 2 @@ t2 :> 1 @@ t3 :> 1

SameInstant == [t \in Tasks |-> 0]
=============================================================================
