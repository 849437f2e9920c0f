--------------------------- MODULE MC_MicroKernel ---------------------------
(***************************************************************************)
(* Instances of MicroKernel for TLC: the three tasks of iOS.c, and the     *)
(* same tasks with times cut to keep the state space small.                *)
(***************************************************************************)
EXTENDS MicroKernel

Ids3 == {0, 1, 2}

Shipped_TimeOut  == 0 :> 10 @@ 1 :> 3 @@ 2 :> 5
Shipped_Priority == 0 :> 0 @@ 1 :> 1 @@ 2 :> 2
Shipped_WorkTime == [id \in Ids3 |-> 3]

Short_TimeOut  == 0 :> 4 @@ 1 :> 2 @@ 2 :> 3
Short_WorkTime == [id \in Ids3 |-> 2]
=============================================================================
