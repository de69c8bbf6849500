-------------------------- MODULE MCPriorityQueue ---------------------------
(***************************************************************************)
(* Four tasks of three priorities, two of them equal in priority.          *)
(***************************************************************************)
EXTENDS PriorityQueue, TLC

CONSTANTS low, normal1, normal2, high

MCPriority == low :> 0 @@ normal1 :> 1 @@ normal2 :> 1 @@ high :> 2

MCCreatedAt == low :> 0 @@ normal1 :> 1 @@ normal2 :> 2 @@ high :> 3
=============================================================================
