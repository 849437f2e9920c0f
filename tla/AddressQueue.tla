---------------------------- MODULE AddressQueue ----------------------------
(***************************************************************************)
(* What one address FIFO of network/network.c promises: a queue of at most *)
(* Depth entries, one put in at the end or one taken from the front at a   *)
(* time.                                                                   *)
(***************************************************************************)
EXTENDS Naturals, Sequences

CONSTANTS Entry, Depth

VARIABLE queue

Init == queue = <<>>

Put == /\ Len(queue) < Depth
       /\ \E e \in Entry : queue' = Append(queue, e)

Take == /\ queue # <<>>
        /\ queue' = Tail(queue)

Next == Put \/ Take

Spec == Init /\ [][Next]_queue
=============================================================================
