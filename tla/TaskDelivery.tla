---------------------------- MODULE TaskDelivery ----------------------------
(***************************************************************************)
(* What network/network.c promises of TaskList: tasks complete one at a    *)
(* time, each after the task it depends on, and a completed task stays     *)
(* completed.                                                              *)
(***************************************************************************)
CONSTANTS Tasks, DepTId, NoTask

VARIABLE done   \* the tasks whose AddrDone is set

Init == done = {}

Complete(t) ==
  /\ t \notin done
  /\ DepTId[t] # NoTask => DepTId[t] \in done
  /\ done' = done \union {t}

Next == \E t \in Tasks : Complete(t)

Spec == Init /\ [][Next]_done
=============================================================================
