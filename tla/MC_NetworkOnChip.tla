-------------------------- MODULE MC_NetworkOnChip --------------------------
(***************************************************************************)
(* Instances of NetworkOnChip for TLC.                                     *)
(***************************************************************************)
EXTENDS NetworkOnChip, TLC

(* The tasks of the shipped TaskList that start at node 0, squeezed onto two *)
(* neighbours: two are free, one waits for the first.                      *)
PairNodes == {0, 1}
PairTasks == {0, 1, 3}
PairInit  == [t \in PairTasks |-> 0]
PairDest  == [t \in PairTasks |-> 1]
PairDep   == 0 :> NoTask @@ 1 :> 0 @@ 3 :> NoTask

(* One task that crosses a row of three nodes. *)
RowNodes == {0, 1, 2}
RowTasks == {0}
RowInit  == 0 :> 0
RowDest  == 0 :> 2
RowDep   == 0 :> NoTask

(* Traffic against traffic on a square of nodes: both tasks have two hops  *)
(* to go and two ways to go them.                                          *)
OpposedNodes == {0, 1, 3, 4}
OpposedTasks == {0, 1}
OpposedInit  == 0 :> 0 @@ 1 :> 4
OpposedDest  == 0 :> 4 @@ 1 :> 0
OpposedDep   == [t \in OpposedTasks |-> NoTask]
=============================================================================
