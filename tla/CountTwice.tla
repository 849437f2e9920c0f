----------------------------- MODULE CountTwice -----------------------------
(***************************************************************************)
(* thread_smp/cond1.c: two threads count to COUNT_DONE together.           *)
(* functionCount1 pauses once per round while the count is between the     *)
(* halts; functionCount2 signals while it is not.  The count is changed    *)
(* under count_mutex, but tested for the halts under condition_mutex and   *)
(* for the end under neither.                                              *)
(*                                                                         *)
(* The two comparisons with the halts read count one after the other; as   *)
(* it only grows, they decide as one reading of it does.                   *)
(***************************************************************************)
EXTENDS Integers

CONSTANTS COUNT_DONE, COUNT_HALT1, COUNT_HALT2

ASSUME CountAssumption ==
  /\ {COUNT_DONE, COUNT_HALT1, COUNT_HALT2} \subseteq Nat
  /\ COUNT_HALT1 <= COUNT_HALT2
  /\ COUNT_HALT2 + 1 < COUNT_DONE

VARIABLES
  count,
  pc1, pc2     \* "wait" is pthread_cond_wait

countVars == <<count, pc1, pc2>>

CountInit == count = 0 /\ pc1 = "halt" /\ pc2 = "halt"
-----------------------------------------------------------------------------
BetweenHalts == COUNT_HALT1 <= count /\ count <= COUNT_HALT2

(* Under condition_mutex: the test, and the wait that gives the mutex back.*)
Count1_Halt ==
  /\ pc1 = "halt"
  /\ pc1' = IF BetweenHalts THEN "wait" ELSE "count"
  /\ UNCHANGED <<count, pc2>>

(* pthread_cond_wait may return without a signal; it is not repeated.      *)
Count1_SpuriousWakeup ==
  /\ pc1 = "wait"
  /\ pc1' = "count"
  /\ UNCHANGED <<count, pc2>>

Count1_Count ==
  /\ pc1 = "count"
  /\ count' = count + 1
  /\ pc1' = "test"
  /\ UNCHANGED pc2

AfterTest_Beyond == IF count > COUNT_DONE THEN "returned" ELSE "halt"

(* Without a mutex. *)
AfterTest == IF count >= COUNT_DONE THEN "returned" ELSE "halt"

Count1_Test ==
  /\ pc1 = "test"
  /\ pc1' = AfterTest
  /\ UNCHANGED <<count, pc2>>

Signals_BelowOnly == count < COUNT_HALT1

Signals == count < COUNT_HALT1 \/ count > COUNT_HALT2

(* A signal that finds nobody waiting is lost.                             *)
Count2_Signal ==
  /\ pc2 = "halt"
  /\ pc1' = IF Signals /\ pc1 = "wait" THEN "count" ELSE pc1
  /\ pc2' = "count"
  /\ UNCHANGED count

Count2_Count ==
  /\ pc2 = "count"
  /\ count' = count + 1
  /\ pc2' = "test"
  /\ UNCHANGED pc1

Count2_Test ==
  /\ pc2 = "test"
  /\ pc2' = AfterTest
  /\ UNCHANGED <<count, pc1>>

functionCount1 == Count1_Halt \/ Count1_Count \/ Count1_Test
functionCount2 == Count2_Signal \/ Count2_Count \/ Count2_Test

CountNext == functionCount1 \/ Count1_SpuriousWakeup \/ functionCount2

CountSpec == CountInit /\ [][CountNext]_countVars
-----------------------------------------------------------------------------
Returned(p) == p = "returned"

(* The count ends at COUNT_DONE or, when both threads passed their last    *)
(* test before, one above; and no thread returns before (cond1.c:60-64,    *)
(* 80-84).                                                                 *)
CountsToDone ==
  /\ count <= COUNT_DONE + 1
  /\ Returned(pc1) \/ Returned(pc2) => count >= COUNT_DONE

(* Both threads return: a thread that waits between the halts is woken     *)
(* although signals sent before it waited are lost, because the other one  *)
(* counts alone from there and signals again above the second halt, before *)
(* it can return (cond1.c:53-56, 73-76).                                   *)
BothReturn == <>(Returned(pc1) /\ Returned(pc2))
=============================================================================
