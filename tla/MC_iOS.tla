------------------------------- MODULE MC_iOS -------------------------------
(***************************************************************************)
(* The scheduler of iOS and the linked list it keeps its queues in, for    *)
(* TLC in one run: a behaviour is one of the scheduler or one of the list. *)
(* The list has one entry more than QUEUE_MAX, and two equal ones.         *)
(***************************************************************************)
EXTENDS MC_MicroKernel, LinkedQueue

FourNodes == 1 .. 4
TwoAlike  == 1 :> 0 @@ 2 :> 1 @@ 3 :> 1 @@ 4 :> 2

VARIABLE part

EitherInit == Init /\ ListInit /\ part \in {"scheduler", "list"}

EitherNext ==
  \/ part = "scheduler" /\ Next /\ UNCHANGED <<listVars, part>>
  \/ part = "list" /\ ListNext /\ UNCHANGED <<vars, part>>

(* The fairness is the scheduler's; the list is checked for safety.        *)
EitherSpec ==
  EitherInit /\ [][EitherNext]_<<vars, listVars, part>> /\ Fairness
=============================================================================
