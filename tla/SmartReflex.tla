---------------------------- MODULE SmartReflex ----------------------------
(***************************************************************************)
(* Smart_Reflex/smart_reflex.c: the thread Emulator_BATTERY charges one    *)
(* battery, the thread Emulator_TASK runs the tasks of TASKList on it one  *)
(* after the other.  A run takes its whole consumption at once; a task is  *)
(* done when three runs in a row could be afforded.                        *)
(***************************************************************************)
EXTENDS Integers, Sequences

CONSTANTS
  BATTERY_CONTAIN,
  Initial,         (* the charge compiled into BATTERYList                 *)
  ChargeStep,      (* what Charge_BATTERY adds                             *)
  Consume,         (* of the tasks of TASKList, in their order             *)
  ChargesInARow,   (* of Emulator_BATTERY between two looks at COT         *)
  Rounds,          (* TEST_COT of the source                               *)
  UINT             (* UINT_MAX + 1                                         *)

ASSUME ReflexAssumption ==
  /\ {BATTERY_CONTAIN, Initial, ChargeStep, ChargesInARow, Rounds, UINT} \subseteq Nat
  /\ Consume \in Seq(Nat) /\ Consume # <<>>
  /\ ChargesInARow > 0
  /\ Initial > 0 /\ 5 * Initial <= 4 * BATTERY_CONTAIN
  /\ BATTERY_CONTAIN + ChargeStep < UINT

VARIABLES
  remain, COT,           \* BATTERYList[0].remain
  charges, batteryPc,    \* of Emulator_BATTERY, charges is its i
  app, runs, rst, taskPc, \* of Emulator_TASK: its i (from 1), j, and rst
  batteryHeld            \* a thread has exited with count_mutex locked

reflexVars == <<remain, COT, charges, batteryPc, app, runs, rst, taskPc, batteryHeld>>

ReflexInit ==
  /\ remain = Initial /\ COT = 0
  /\ charges = 0 /\ batteryPc = "while"
  /\ app = 1 /\ runs = 0 /\ rst = -1 /\ taskPc = "begin"
  /\ batteryHeld = FALSE
-----------------------------------------------------------------------------
(* remain is unsigned. *)
Minus(a, b) == IF a >= b THEN a - b ELSE a - b + UINT

Full_At20(charge) == 5 * charge > BATTERY_CONTAIN

(* The results of Check_BATTERY_STATUS that make a difference: more than   *)
(* 80 percent, and nothing.                                                *)
Full(charge)  == 5 * charge > 4 * BATTERY_CONTAIN
Error(charge) == charge = 0

Charge_BATTERY == remain' = IF Full(remain) THEN remain ELSE remain + ChargeStep

Affords_Swapped(charge, task) == 10 * charge > 9 * Consume[task]

(* The condition on the status in Check_TASK_STATUS is always true.        *)
Affords(charge, task) == 9 * charge > 10 * Consume[task]

BATTERY_While ==
  /\ batteryPc = "while"
  /\ batteryPc' = IF COT <= Rounds THEN "charge" ELSE "returned"
  /\ charges' = 0
  /\ UNCHANGED <<remain, COT, app, runs, rst, taskPc, batteryHeld>>

(* With an error the thread exits without unlocking.                       *)
BATTERY_Charge ==
  /\ batteryPc = "charge" /\ ~batteryHeld
  /\ IF Error(remain)
     THEN batteryHeld' = TRUE /\ batteryPc' = "exited" /\ UNCHANGED <<remain, charges>>
     ELSE /\ Charge_BATTERY
          /\ charges' = charges + 1
          /\ batteryPc' = IF charges' = ChargesInARow THEN "while" ELSE "charge"
          /\ UNCHANGED batteryHeld
  /\ UNCHANGED <<COT, app, runs, rst, taskPc>>

Emulator_BATTERY == BATTERY_While \/ BATTERY_Charge

TASK_Begin ==
  /\ taskPc = "begin"
  /\ taskPc' = IF Error(remain) THEN "exited"
               ELSE IF COT <= Rounds THEN "run" ELSE "returned"
  /\ UNCHANGED <<remain, COT, charges, batteryPc, app, runs, rst, batteryHeld>>

(* Check_TASK_STATUS under the mutex, then j, which is the thread's own.   *)
TASK_Run ==
  /\ taskPc = "run" /\ ~batteryHeld
  /\ IF Affords(remain, app)
     THEN /\ remain' = Minus(remain, Consume[app])
          /\ rst' = 0
          /\ runs' = (runs + 1) % 3
          /\ app' = IF runs' = 0 THEN app + 1 ELSE app
          /\ taskPc' = IF app' > Len(Consume) THEN "count" ELSE "run"
     ELSE rst' = -1 /\ runs' = 0 /\ UNCHANGED <<remain, app, taskPc>>
  /\ UNCHANGED <<COT, charges, batteryPc, batteryHeld>>

TASK_Count ==
  /\ taskPc = "count"
  /\ COT' = COT + 1
  /\ taskPc' = "returned"
  /\ UNCHANGED <<remain, charges, batteryPc, app, runs, rst, batteryHeld>>

Emulator_TASK == TASK_Begin \/ TASK_Run \/ TASK_Count

ReflexNext == Emulator_BATTERY \/ Emulator_TASK

ReflexSpec == ReflexInit /\ [][ReflexNext]_reflexVars
-----------------------------------------------------------------------------
(* The charge never reaches 0, which would end both threads with the mutex *)
(* locked, never wraps to a huge value, which no charging would correct,   *)
(* and never exceeds full by more than one charging: a run that needs more *)
(* than nine tenths of the charge is refused, and runs and charges come in *)
(* any order (smart_reflex.c:118-122, 146-149, 159).                       *)
ChargeInRange ==
  /\ remain > 0
  /\ 5 * remain <= 4 * BATTERY_CONTAIN + 5 * ChargeStep

(* A task that was refused is not refused for ever: charging goes on until *)
(* the battery is full, and a full battery affords every task.  (That one  *)
(* task gets three runs in a row is not promised: nothing bounds how often *)
(* a refusal sets it back.)  (smart_reflex.c:119-121, 156, 187-202)        *)
RunsAreAfforded == []<>(rst = 0)
=============================================================================
