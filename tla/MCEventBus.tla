----------------------------- MODULE MCEventBus -----------------------------
(***************************************************************************)
(* An instance of EventBus for TLC: one publisher has more to say.         *)
(***************************************************************************)
EXTENDS EventBus, TLC

CONSTANTS p1, p2

ThreeAndOne == p1 :> 3 @@ p2 :> 1
=============================================================================
