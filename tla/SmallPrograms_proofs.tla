------------------------ MODULE SmallPrograms_proofs ------------------------
(***************************************************************************)
(* The single bus (InOrderBus), the battery and its tasks (SmartReflex),   *)
(* the counter of two threads (CountTwice), the multiplier (Booth), the    *)
(* combinations of work modes (Dvfs) and the times of a graph (AsapAlap),  *)
(* for all values of their constants.                                      *)
(***************************************************************************)
EXTENDS InOrderBus, SmartReflex, CountTwice, Booth, Dvfs, AsapAlap, ProofLemmas

(* The single bus, for every number of transfers, every limit of the       *)
(* polling loops and both builds of the range test.                        *)

(* The Receiver saw TEST_COT below its limit when it began this turn, and  *)
(* no other thread changes TEST_COT.                                       *)
ReceiverMayCount == busPc[Receiver] \notin {"top", "exited"} => TEST_COT < MAX_TEST_COT

IInv == BusTypeOK /\ RequestNotOverwritten /\ ReceiverMayCount

(* The bus is free and nobody has begun at first.                          *)
LEMMA InitIInv == BusInit => IInv
BY BusAssumption
   DEF BusInit, IInv, BusTypeOK, RequestNotOverwritten, ReceiverMayCount,
       Masters, Slaves, Threads, Transmitter, Receiver, Master

(* A step of a thread keeps the invariant: Busy is set by the Transmitter  *)
(* alone, on its way to the top, and a counter is decremented only when it *)
(* is not zero.                                                            *)
LEMMA NextIInv == IInv /\ [BusNext]_busVars => IInv'
<1> SUFFICES ASSUME IInv, [BusNext]_busVars
             PROVE  IInv'
  OBVIOUS
<1> USE BusAssumption
    DEF IInv, BusTypeOK, RequestNotOverwritten, ReceiverMayCount,
        Masters, Slaves, Threads, Transmitter, Receiver, Master
<1>1. CASE TransmitterTop
  BY <1>1 DEF TransmitterTop, Top, BusGoto
<1>2. CASE TransmitterPoll
  BY <1>2 DEF TransmitterPoll, Wait, Leave, BusGoto
<1>3. CASE TransmitterAct
  BY <1>3 DEF TransmitterAct, BusGoto
<1>4. CASE ReceiverTop
  BY <1>4 DEF ReceiverTop, Top, BusGoto
<1>5. CASE ReceiverPoll
  BY <1>5 DEF ReceiverPoll, Wait, Leave, BusGoto
<1>6. CASE ReceiverTest
  BY <1>6 DEF ReceiverTest, TestRange, BusGoto
<1>7. CASE ReceiverAct
  <2>1. TEST_COT' \in 0 .. MAX_TEST_COT
    BY <1>7 DEF ReceiverAct
  <2>2. Bus' \in [FmAddr : {0, Master}, ToAddr : {0} \union Slaves,
                  Data : {0} \union Slaves, Busy : BOOLEAN, Lock : BOOLEAN]
    BY <1>7 DEF ReceiverAct
  <2>3. Bus'.Busy = FALSE
    BY <1>7 DEF ReceiverAct
  <2> QED
    BY <1>7, <2>1, <2>2, <2>3 DEF ReceiverAct, BusGoto
<1>8. ASSUME NEW n \in Slaves, SLAVE_DO(n)
      PROVE  IInv'
  <2>1. CASE SlaveTop(n)
    BY <2>1 DEF SlaveTop, Top, BusGoto
  <2>2. CASE SlavePoll(n)
    BY <2>2 DEF SlavePoll, BusGoto
  <2>3. CASE SlaveTest(n)
    BY <2>3 DEF SlaveTest, TestRange, BusGoto
  <2>4. CASE SlaveAct(n)
    BY <2>4 DEF SlaveAct, BusGoto
  <2> QED
    BY <1>8, <2>1, <2>2, <2>3, <2>4 DEF SLAVE_DO
<1>9. CASE UNCHANGED busVars
  BY <1>9 DEF busVars
<1> QED
  BY <1>1, <1>2, <1>3, <1>4, <1>5, <1>6, <1>7, <1>8, <1>9
     DEF BusNext, MASTER_1_Transmitter, MASTER_1_Receiver, Joined

(* Types: no counter runs below zero, although the Receiver's is never set *)
(* again, and TEST_COT stops at its limit.                                 *)
THEOREM TypesHold == BusSpec => []BusTypeOK
<1>1. IInv => BusTypeOK
  BY DEF IInv
<1> QED
  BY <1>1, InitIInv, NextIInv, PTL DEF BusSpec

(* A transfer that has not been received is never replaced by the next:    *)
(* the bus the Transmitter found free is free when it drives it.           *)
THEOREM TransfersSurvive == BusSpec => []RequestNotOverwritten
<1>1. IInv => RequestNotOverwritten
  BY DEF IInv
<1> QED
  BY <1>1, InitIInv, NextIInv, PTL DEF BusSpec
-----------------------------------------------------------------------------
(* The battery.                                                            *)

(* A task that may run is one of the list. *)
TaskListed ==
  /\ remain \in Nat
  /\ runs \in 0 .. 2
  /\ app \in 1 .. Len(Consume) + 1
  /\ taskPc \in {"begin", "run"} => app <= Len(Consume)

ReflexIInv == TaskListed /\ ChargeInRange

(* The list of tasks is a sequence of consumptions.                        *)
LEMMA ConsumeFacts ==
  /\ Len(Consume) \in Nat /\ Len(Consume) >= 1
  /\ \A task \in 1 .. Len(Consume) : Consume[task] \in Nat
<1>1. Consume \in Seq(Nat) /\ Consume # <<>>
  BY ReflexAssumption
<1> QED
  BY <1>1

(* Multiplying by five keeps the order. *)
LEMMA FiveTimesLess ==
  ASSUME NEW x \in Nat, NEW y \in Nat, NEW z \in Nat, x <= y, 5 * y <= z
  PROVE  5 * x <= z
OBVIOUS

(* A run that can be afforded leaves a charge, by subtraction without a    *)
(* borrow.                                                                 *)
LEMMA AffordedLeavesCharge ==
  ASSUME NEW charge \in Nat, NEW task \in 1 .. Len(Consume), Affords(charge, task)
  PROVE  /\ Minus(charge, Consume[task]) \in Nat
         /\ 0 < Minus(charge, Consume[task])
         /\ Minus(charge, Consume[task]) <= charge
<1>1. Consume[task] \in Nat
  BY ConsumeFacts
<1>2. 9 * charge > 10 * Consume[task]
  BY DEF Affords
<1>3. \A used \in Nat : 9 * charge > 10 * used => used < charge
  OBVIOUS
<1>4. Consume[task] < charge
  BY <1>1, <1>2, <1>3
<1> QED
  BY <1>1, <1>4 DEF Minus

(* A battery is charged only below full, so that it holds one charging     *)
(* more than full at most.                                                 *)
LEMMA ChargingStaysBelow ==
  ASSUME ReflexIInv, Charge_BATTERY
  PROVE  remain' \in Nat /\ ChargeInRange'
<1>1. BATTERY_CONTAIN \in Nat /\ ChargeStep \in Nat
  BY ReflexAssumption
<1>2. remain \in Nat /\ remain > 0 /\ 5 * remain <= 4 * BATTERY_CONTAIN + 5 * ChargeStep
  BY DEF ReflexIInv, TaskListed, ChargeInRange
<1>3. /\ Full(remain) => remain' = remain
      /\ ~Full(remain) => remain' = remain + ChargeStep
  BY DEF Charge_BATTERY
<1>4. CASE Full(remain)
  BY <1>1, <1>2, <1>3, <1>4 DEF ChargeInRange
<1>5. CASE ~Full(remain)
  BY <1>1, <1>2, <1>3, <1>5 DEF ChargeInRange, Full
<1> QED
  BY <1>4, <1>5

(* Both conjuncts hold of the compiled battery. *)
LEMMA ReflexInitIInv == ReflexInit => ReflexIInv
<1>1. Initial \in Nat /\ Initial > 0 /\ BATTERY_CONTAIN \in Nat /\ ChargeStep \in Nat
      /\ 5 * Initial <= 4 * BATTERY_CONTAIN
  BY ReflexAssumption
<1> QED
  BY <1>1, ConsumeFacts DEF ReflexInit, ReflexIInv, TaskListed, ChargeInRange

(* A run, afforded or refused, keeps a task of the list and a charge.      *)
LEMMA RunStep ==
  ASSUME ReflexIInv, TASK_Run
  PROVE  ReflexIInv'
<1>1. /\ Len(Consume) \in Nat /\ app \in 1 .. Len(Consume)
      /\ remain \in Nat /\ runs \in 0 .. 2
  BY ConsumeFacts DEF ReflexIInv, TaskListed, TASK_Run
<1>2. CASE Affords(remain, app)
  <2>1. /\ remain' = Minus(remain, Consume[app])
        /\ runs' = (runs + 1) % 3
        /\ app' = IF runs' = 0 THEN app + 1 ELSE app
        /\ taskPc' = IF app' > Len(Consume) THEN "count" ELSE "run"
    BY <1>2 DEF TASK_Run
  <2>2. /\ remain' \in Nat /\ 0 < remain' /\ remain' <= remain
    BY <1>1, <1>2, <2>1, AffordedLeavesCharge
  <2>3. ChargeInRange'
    <3>1. BATTERY_CONTAIN \in Nat /\ ChargeStep \in Nat
      BY ReflexAssumption
    <3>2. 5 * remain <= 4 * BATTERY_CONTAIN + 5 * ChargeStep
      BY DEF ReflexIInv, ChargeInRange
    <3>3. remain \in Nat /\ remain' \in Nat /\ 0 < remain' /\ remain' <= remain
      BY <1>1, <2>2
    <3>4. 5 * remain' <= 4 * BATTERY_CONTAIN + 5 * ChargeStep
      <4>1. 4 * BATTERY_CONTAIN + 5 * ChargeStep \in Nat
        BY <3>1
      <4> QED
        BY <3>2, <3>3, <4>1, FiveTimesLess
    <3> QED
      BY <3>3, <3>4 DEF ChargeInRange
  <2>4. TaskListed'
    BY <1>1, <2>1, <2>2 DEF TaskListed
  <2> QED
    BY <2>3, <2>4 DEF ReflexIInv
<1>3. CASE ~Affords(remain, app)
  BY <1>1, <1>3 DEF TASK_Run, ReflexIInv, TaskListed, ChargeInRange
<1> QED
  BY <1>2, <1>3

(* Every step of both threads keeps the invariant. *)
LEMMA ReflexNextIInv == ReflexIInv /\ [ReflexNext]_reflexVars => ReflexIInv'
<1> SUFFICES ASSUME ReflexIInv, [ReflexNext]_reflexVars
             PROVE  ReflexIInv'
  OBVIOUS
<1>1. ASSUME UNCHANGED <<remain, runs, app>>, taskPc' \in {"begin", "run"} => taskPc \in {"begin", "run"}
      PROVE  ReflexIInv'
  BY <1>1 DEF ReflexIInv, TaskListed, ChargeInRange
<1>2. CASE BATTERY_While
  BY <1>1, <1>2 DEF BATTERY_While
<1>3. CASE BATTERY_Charge
  <2>1. UNCHANGED <<runs, app, taskPc>>
    BY <1>3 DEF BATTERY_Charge
  <2>2. CASE Error(remain)
    BY <1>1, <1>3, <2>2 DEF BATTERY_Charge
  <2>3. CASE ~Error(remain)
    BY <1>3, <2>1, <2>3, ChargingStaysBelow DEF BATTERY_Charge, ReflexIInv, TaskListed
  <2> QED
    BY <2>2, <2>3
<1>4. CASE TASK_Begin
  BY <1>1, <1>4 DEF TASK_Begin
<1>5. CASE TASK_Run
  BY <1>5, RunStep
<1>6. CASE TASK_Count
  BY <1>1, <1>6 DEF TASK_Count
<1>7. CASE UNCHANGED reflexVars
  BY <1>1, <1>7 DEF reflexVars
<1> QED
  BY <1>2, <1>3, <1>4, <1>5, <1>6, <1>7 DEF ReflexNext, Emulator_BATTERY, Emulator_TASK

(* The charge never reaches 0, never wraps and never exceeds full by more  *)
(* than one charging.                                                      *)
THEOREM ChargeStaysInRange == ReflexSpec => []ChargeInRange
<1>1. ReflexIInv => ChargeInRange
  BY DEF ReflexIInv
<1> QED
  BY <1>1, ReflexInitIInv, ReflexNextIInv, PTL DEF ReflexSpec

(* Neither thread ends with the mutex locked, since the battery is never   *)
(* empty.                                                                  *)
THEOREM MutexNeverKept == ReflexSpec => [](~batteryHeld)
<1>1. ReflexInit => ~batteryHeld
  BY DEF ReflexInit
<1>2. ReflexIInv /\ ~batteryHeld /\ [ReflexNext]_reflexVars => ~batteryHeld'
  <2> SUFFICES ASSUME ReflexIInv, ~batteryHeld, [ReflexNext]_reflexVars
               PROVE  ~batteryHeld'
    OBVIOUS
  <2>1. ~Error(remain)
    BY DEF ReflexIInv, TaskListed, ChargeInRange, Error
  <2> QED
    BY <2>1 DEF ReflexNext, reflexVars, Emulator_BATTERY, Emulator_TASK,
                BATTERY_While, BATTERY_Charge, TASK_Begin, TASK_Run, TASK_Count
<1> QED
  BY <1>1, <1>2, ReflexInitIInv, ReflexNextIInv, PTL DEF ReflexSpec
-----------------------------------------------------------------------------
(* The counter.                                                            *)

(* A thread that has passed its last test counts once more. *)
Counting(at) == at \in {"halt", "wait", "count"}

(* At the limit one thread at most still counts, above it none. *)
CountersLeft ==
  /\ count \in Nat
  /\ pc1 \in {"halt", "wait", "count", "test", "returned"}
  /\ pc2 \in {"halt", "count", "test", "returned"}
  /\ count >= COUNT_DONE => ~(Counting(pc1) /\ Counting(pc2))
  /\ count > COUNT_DONE => ~Counting(pc1) /\ ~Counting(pc2)

CountIInv == CountersLeft /\ CountsToDone

(* Both threads count at first, below the limit. *)
LEMMA CountInitIInv == CountInit => CountIInv
BY CountAssumption
   DEF CountInit, CountIInv, CountersLeft, CountsToDone, Counting, Returned

(* Every step keeps the invariant: counting takes the thread to its test,  *)
(* and the test lets it count again below the limit only.                  *)
LEMMA CountNextIInv == CountIInv /\ [CountNext]_countVars => CountIInv'
<1> SUFFICES ASSUME CountIInv, [CountNext]_countVars
             PROVE  CountIInv'
  OBVIOUS
<1> USE CountAssumption DEF CountIInv, CountersLeft, CountsToDone, Counting, Returned
<1>1. CASE Count1_Halt
  BY <1>1 DEF Count1_Halt
<1>2. CASE Count1_SpuriousWakeup
  BY <1>2 DEF Count1_SpuriousWakeup
<1>3. CASE Count1_Count
  BY <1>3 DEF Count1_Count
<1>4. CASE Count1_Test
  BY <1>4 DEF Count1_Test, AfterTest
<1>5. CASE Count2_Signal
  BY <1>5 DEF Count2_Signal
<1>6. CASE Count2_Count
  BY <1>6 DEF Count2_Count
<1>7. CASE Count2_Test
  BY <1>7 DEF Count2_Test, AfterTest
<1>8. CASE UNCHANGED countVars
  BY <1>8 DEF countVars
<1> QED
  BY <1>1, <1>2, <1>3, <1>4, <1>5, <1>6, <1>7, <1>8
     DEF CountNext, functionCount1, functionCount2

(* The count never exceeds the limit by more than one, and no thread       *)
(* returns below it.                                                       *)
THEOREM CountEnds == CountSpec => []CountsToDone
<1>1. CountIInv => CountsToDone
  BY DEF CountIInv
<1> QED
  BY <1>1, CountInitIInv, CountNextIInv, PTL DEF CountSpec
-----------------------------------------------------------------------------
(* The multiplier.                                                         *)

(* The value of the first of BITSIZE bits.                                 *)
TopWeight == 2 ^ (BITSIZE - 1)

LEMMA HalfIsTwoTops == TopWeight \in Nat \ {0} /\ Half \in Nat \ {0} /\ Half = 2 * TopWeight
<1>1. BITSIZE - 1 \in Nat /\ (BITSIZE - 1) + 1 = BITSIZE
  BY BoothAssumption
<1>2. TopWeight \in Nat \ {0} /\ 2 ^ ((BITSIZE - 1) + 1) = 2 * TopWeight
  BY <1>1, PowerType, PowerDoubles, Zenon DEF TopWeight
<1>3. Half = 2 * TopWeight
  BY <1>1, <1>2, Zenon DEF Half
<1> QED
  BY <1>2, <1>3

(* The bits of a number that fits.                                         *)
LEMMA BitsOfFitting ==
  ASSUME NEW x \in Int, Fits(x)
  PROVE  /\ Int2Bin(x) = (IF x < 0 THEN x + Half ELSE x)
         /\ FirstBit(x) = (IF x < 0 THEN 1 ELSE 0)
         /\ Int2Bin(x) \in 0 .. Half - 1
<1>1. -TopWeight <= x /\ x < TopWeight
  BY DEF Fits, TopWeight
<1>2. CASE x < 0
  <2>1. x = Half * (-1) + (x + Half) /\ x + Half \in 0 .. Half - 1
    BY <1>1, <1>2, HalfIsTwoTops
  <2>2. Int2Bin(x) = x + Half
    BY <2>1, HalfIsTwoTops, DivisionIsUnique DEF Int2Bin
  <2>3. x + Half = TopWeight * 1 + (x + TopWeight) /\ x + TopWeight \in 0 .. TopWeight - 1 /\ x + Half \in Int
    BY <1>1, <1>2, HalfIsTwoTops
  <2>4. (x + Half) \div TopWeight = 1
    BY <2>3, HalfIsTwoTops, DivisionIsUnique
  <2> QED
    BY <1>2, <2>1, <2>2, <2>4, Zenon DEF FirstBit, GetBegin, TopWeight
<1>3. CASE ~(x < 0)
  <2>1. x = Half * 0 + x /\ x \in 0 .. Half - 1
    BY <1>1, <1>3, HalfIsTwoTops
  <2>2. Int2Bin(x) = x
    BY <2>1, HalfIsTwoTops, DivisionIsUnique DEF Int2Bin
  <2>3. x = TopWeight * 0 + x /\ x \in 0 .. TopWeight - 1
    BY <1>1, <1>3, HalfIsTwoTops
  <2>4. x \div TopWeight = 0
    BY <2>3, HalfIsTwoTops, DivisionIsUnique
  <2> QED
    BY <1>3, <2>1, <2>2, <2>4, Zenon DEF FirstBit, GetBegin, TopWeight
<1> QED
  BY <1>2, <1>3

(* Shifting the bits of a number that fits shifts the number.              *)
LEMMA ShiftedNumber ==
  ASSUME NEW x \in Int, Fits(x)
  PROVE  /\ Shifted(Int2Bin(x)) = Int2Bin(x \div 2)
         /\ GetEnd(Int2Bin(x)) = x % 2
         /\ Fits(x \div 2)
<1> DEFINE h == x \div 2
           e == x % 2
<1>1. -TopWeight <= x /\ x < TopWeight
  BY DEF Fits, TopWeight
<1>2. h \in Int /\ e \in 0 .. 1 /\ x = 2 * h + e
  BY Division
<1> HIDE DEF h, e
<1>3. Fits(h) /\ (h < 0 <=> x < 0)
  BY <1>1, <1>2, HalfIsTwoTops DEF Fits, TopWeight
<1>4. /\ Int2Bin(x) = (IF x < 0 THEN x + Half ELSE x)
      /\ GetBegin(Int2Bin(x)) = (IF x < 0 THEN 1 ELSE 0)
      /\ Int2Bin(h) = (IF x < 0 THEN h + Half ELSE h)
  BY <1>2, <1>3, BitsOfFitting, Zenon DEF FirstBit
<1>5. CASE x < 0
  <2>1. /\ x + Half = 2 * (h + TopWeight) + e /\ h + TopWeight \in Int /\ x + Half \in Int
        /\ e \in 0 .. 2 - 1 /\ 2 \in Nat \ {0}
    BY <1>2, HalfIsTwoTops
  <2>2. (x + Half) \div 2 = h + TopWeight /\ (x + Half) % 2 = e
    BY <2>1, DivisionIsUnique, Zenon
  <2>3. (h + TopWeight) + 1 * TopWeight = h + Half
    BY <1>2, HalfIsTwoTops
  <2>4. Shifted(Int2Bin(x)) = (h + TopWeight) + 1 * TopWeight /\ GetEnd(Int2Bin(x)) = e
    BY <1>4, <1>5, <2>2, Zenon DEF Shifted, GetEnd, TopWeight
  <2> QED
    BY <1>3, <1>4, <1>5, <2>3, <2>4, Zenon DEF h, e
<1>6. CASE ~(x < 0)
  <2>1. Shifted(Int2Bin(x)) = h + 0 * TopWeight /\ GetEnd(Int2Bin(x)) = e
    BY <1>4, <1>6, Zenon DEF Shifted, GetEnd, TopWeight, h, e
  <2>2. h + 0 * TopWeight = h
    BY <1>2, HalfIsTwoTops
  <2> QED
    BY <1>3, <1>4, <1>6, <2>1, <2>2, Zenon DEF h, e
<1> QED
  BY <1>5, <1>6
-----------------------------------------------------------------------------
(* A number between 0 and n, which may be negative.                        *)
Between(x, n) == (0 <= x /\ x <= n) \/ (n <= x /\ x <= 0)

(* What is left of the bits of b, what the string holds of the product, and *)
(* the bits of b that have been read.                                      *)
Rest  == lower % 2 ^ (BITSIZE - step)
Found == lower \div 2 ^ (BITSIZE - step)
Read  == Int2Bin(b) - Rest * 2 ^ step

(* The additions and the subtractions of a alternate.                      *)
Balanced == Between(c, IF bit = 0 THEN a ELSE -a)

(* The number so far is the multiple of a by the bits read so far.         *)
PartialProduct == c * 2 ^ step + Found = a * (FirstBit(a) + Read - bit * 2 ^ step)

BitsInPlace ==
  /\ {a, b, c, upper} \subseteq Int
  /\ bit \in 0 .. 1 /\ step \in 0 .. BITSIZE
  /\ lower \in 0 .. Half - 1
  /\ 2 ^ step * 2 ^ (BITSIZE - step) = Half

BitsRead ==
  /\ Read \in 0 .. 2 ^ step - 1
  /\ step > 0 => bit * 2 ^ (step - 1) <= Read /\ Read < (bit + 1) * 2 ^ (step - 1)

BoothIInv ==
  /\ BitsInPlace /\ BitsRead
  /\ Fits(a) /\ Fits(-a) => Balanced /\ PartialProduct /\ UpperHalfIsC

(* At first everything is left and nothing found.                          *)
LEMMA BoothInitIInv == BoothInit => BoothIInv
<1> SUFFICES ASSUME BoothInit PROVE BoothIInv
  OBVIOUS
<1>1. a \in Int /\ b \in Int
  BY DEF BoothInit, CheckRange
<1>2. c = 0 /\ upper = Int2Bin(0) /\ lower = Int2Bin(b) /\ bit = FirstBit(a) /\ step = 0
  BY DEF BoothInit
<1>3. /\ Int2Bin(a) \in 0 .. Half - 1 /\ Int2Bin(b) \in 0 .. Half - 1
      /\ Int2Bin(0) \in 0 .. Half - 1
  BY <1>1, HalfIsTwoTops, Division DEF Int2Bin
<1>4. bit \in 0 .. 1
  <2> DEFINE n == Int2Bin(a)
  <2>1. n \in 0 .. 2 * TopWeight - 1 /\ n \in Int
    BY <1>3, HalfIsTwoTops
  <2> HIDE DEF n
  <2>2. n \div TopWeight \in Int /\ n % TopWeight \in 0 .. TopWeight - 1 /\ n = TopWeight * (n \div TopWeight) + (n % TopWeight)
    BY <2>1, HalfIsTwoTops, Division
  <2> DEFINE q == n \div TopWeight
  <2> HIDE DEF q
  <2>3. q \in Int /\ TopWeight * q < 2 * TopWeight /\ TopWeight * q > TopWeight * (-1)
    BY <2>1, <2>2, HalfIsTwoTops DEF q
  <2>4. q < 2 /\ q > -1
    <3>1. CASE q >= 2
      <4>1. TopWeight * q >= TopWeight * 2
        BY <2>3, <3>1, HalfIsTwoTops
      <4> QED
        BY <2>3, <4>1, HalfIsTwoTops
    <3>2. CASE q <= -1
      <4>1. TopWeight * q <= TopWeight * (-1)
        BY <2>3, <3>2, HalfIsTwoTops
      <4> QED
        BY <2>3, <4>1, HalfIsTwoTops
    <3> QED
      BY <2>3, <3>1, <3>2
  <2>5. q \in 0 .. 1
    BY <2>3, <2>4
  <2> QED
    BY <1>2, <2>5, Zenon DEF FirstBit, GetBegin, q, n, TopWeight
<1>5. 2 ^ step = 1 /\ 2 ^ (BITSIZE - step) = Half
  <2>1. BITSIZE - 0 = BITSIZE /\ 2 ^ 0 = 1
    BY BoothAssumption
  <2> QED
    BY <1>2, <2>1, Zenon DEF Half
<1>6. BitsInPlace
  <2>1. 1 * Half = Half /\ step \in 0 .. BITSIZE /\ upper \in Int /\ c \in Int
    BY <1>2, <1>3, HalfIsTwoTops, BoothAssumption
  <2> QED
    BY <1>1, <1>2, <1>3, <1>4, <1>5, <2>1 DEF BitsInPlace
<1>7. Rest = lower /\ Found = 0
  <2>1. lower \in Int /\ lower = Half * 0 + lower /\ lower \in 0 .. Half - 1 /\ 0 \in Int
    BY <1>2, <1>3, HalfIsTwoTops
  <2>2. lower \div Half = 0 /\ lower % Half = lower
    BY <2>1, HalfIsTwoTops, DivisionIsUnique, Zenon
  <2> QED
    BY <1>5, <2>2, Zenon DEF Rest, Found
<1>8. Read = 0
  <2>1. Read = lower - lower * 1
    BY <1>2, <1>5, <1>7, Zenon DEF Read
  <2>2. lower \in Int
    BY <1>2, <1>3
  <2> QED
    BY <2>1, <2>2
<1>9. BitsRead
  BY <1>2, <1>5, <1>8 DEF BitsRead
<1>10. PartialProduct
  <2>1. c * 2 ^ step + Found = 0 * 1 + 0
    BY <1>2, <1>5, <1>7, Zenon
  <2>2. a * (FirstBit(a) + Read - bit * 2 ^ step) = a * (bit + 0 - bit * 1)
    BY <1>2, <1>5, <1>8, Zenon
  <2>3. a * (bit + 0 - bit * 1) = 0 * 1 + 0
    BY <1>1, <1>4
  <2> QED
    BY <2>1, <2>2, <2>3, Zenon DEF PartialProduct
<1>11. Balanced /\ UpperHalfIsC
  BY <1>1, <1>2, <1>4 DEF Balanced, Between, UpperHalfIsC
<1> QED
  BY <1>6, <1>9, <1>10, <1>11 DEF BoothIInv

(* What shifting the lower half, with the bit e coming in, does to what is *)
(* left and to what was found: p and r are the powers that divide them     *)
(* afterwards.                                                             *)
LEMMA LowerShifted ==
  \A p, r \in Nat \ {0} : \A l \in Nat : \A e \in 0 .. 1 :
    p * r = TopWeight =>
      /\ (l \div 2 + e * TopWeight) \div r = l \div (2 * r) + e * p
      /\ (l \div 2 + e * TopWeight) % r = (l % (2 * r)) \div 2
      /\ l % 2 = (l % (2 * r)) % 2
      /\ l \div 2 + e * TopWeight \in Int
<1> SUFFICES ASSUME NEW p \in Nat \ {0}, NEW r \in Nat \ {0},
                    NEW l \in Nat, NEW e \in 0 .. 1, p * r = TopWeight
             PROVE  /\ (l \div 2 + e * TopWeight) \div r = l \div (2 * r) + e * p
                    /\ (l \div 2 + e * TopWeight) % r = (l % (2 * r)) \div 2
                    /\ l % 2 = (l % (2 * r)) % 2
                    /\ l \div 2 + e * TopWeight \in Int
  BY Zenon
<1> DEFINE new == l \div 2 + e * TopWeight
           q == l \div (2 * r)
           k == l % (2 * r)
           h == k \div 2
           z == k % 2
<1>1. 2 * r \in Nat \ {0} /\ l \in Int
  OBVIOUS
<1>2. q \in Int /\ k \in 0 .. 2 * r - 1 /\ l = (2 * r) * q + k
  BY <1>1, Division
<1> HIDE DEF q, k
<1>3. h \in Int /\ z \in 0 .. 1 /\ k = 2 * h + z
  BY <1>2, Division
<1> HIDE DEF h, z
<1>4. h \in 0 .. r - 1
  BY <1>2, <1>3
<1>5. /\ l = 2 * (r * q + h) + z /\ r * q + h \in Int
      /\ z \in 0 .. 2 - 1 /\ 2 \in Nat \ {0}
  BY <1>2, <1>3
<1>6. l \div 2 = r * q + h /\ l % 2 = z
  BY <1>1, <1>5, DivisionIsUnique, Zenon
<1>7. new = r * (q + e * p) + h /\ q + e * p \in Int /\ new \in Int
  <2>1. new = (r * q + h) + e * (p * r)
    BY <1>6, Zenon
  <2> QED
    BY <1>2, <1>3, <2>1
<1>8. new \div r = q + e * p /\ new % r = h
  BY <1>4, <1>7, DivisionIsUnique, Zenon
<1> QED
  BY <1>6, <1>7, <1>8, Zenon DEF q, k, h, z

(* How a step adds to the partial product: c and bit become n and z, the   *)
(* bit e passes from c to the found part f, p is 2 ^ step and x + y are    *)
(* the bits read.                                                          *)
LEMMA ProductGrows ==
  ASSUME NEW m \in Int, NEW n \in Int, NEW sum \in Int, NEW e \in 0 .. 1,
         NEW p \in Nat, NEW f \in Int, NEW x \in Int, NEW y \in Int,
         NEW bt \in 0 .. 1, NEW z \in 0 .. 1, NEW old \in Int,
         sum = 2 * n + e, sum = old + m * (bt - z),
         old * p + f = m * (x + y - bt * p)
  PROVE  n * (2 * p) + (f + e * p) = m * (x + (y + z * p) - z * (2 * p))
<1>1. n * (2 * p) + (f + e * p) = sum * p + f
  OBVIOUS
<1>2. sum * p + f = m * (x + y - bt * p) + (m * (bt - z)) * p
  OBVIOUS
<1>3. m * (x + y - bt * p) + (m * (bt - z)) * p = m * (x + y - z * p)
  OBVIOUS
<1>4. x + y - z * p = x + (y + z * p) - z * (2 * p)
  OBVIOUS
<1> QED
  BY <1>1, <1>2, <1>3, <1>4, Zenon

(* A step keeps the invariant.                                             *)
LEMMA BoothStepIInv == BoothIInv /\ BoothStep => BoothIInv'
<1> SUFFICES ASSUME BoothIInv, BoothStep PROVE BoothIInv'
  OBVIOUS
<1> DEFINE last == GetEnd(lower)
           s == Summand(<<last, bit>>)
           sum == c + s
           up == IF last = bit THEN upper ELSE Int2Bin(sum)
           p == 2 ^ step
           r == 2 ^ (BITSIZE - (step + 1))
           e == GetEnd(up)
<1>1. /\ a \in Int /\ b \in Int /\ c \in Int /\ upper \in Int
      /\ bit \in 0 .. 1 /\ step \in 0 .. BITSIZE /\ lower \in Nat
      /\ lower \in 0 .. Half - 1
      /\ 2 ^ step * 2 ^ (BITSIZE - step) = Half
  <2>1. {a, b, c, upper} \subseteq Int /\ lower \in 0 .. Half - 1
    BY DEF BoothIInv, BitsInPlace
  <2> QED
    BY <2>1, HalfIsTwoTops DEF BoothIInv, BitsInPlace
<1>2. /\ step < BITSIZE /\ step' = step + 1 /\ a' = a /\ b' = b
      /\ c' = sum \div 2 /\ upper' = Shifted(up) /\ bit' = last
      /\ lower' = lower \div 2 + e * TopWeight
  BY DEF BoothStep, Pro_SHIFT, TopWeight
<1>3. last \in 0 .. 1 /\ lower \in Int
  BY <1>1, Division DEF GetEnd
<1>4. s = a * (bit - last) /\ s \in Int /\ sum \in Int
  <2> HIDE DEF last
  <2> QED
    BY <1>1, <1>3 DEF Summand
<1>5. p \in Nat \ {0} /\ r \in Nat \ {0} /\ 2 ^ (BITSIZE - step) = 2 * r /\ 2 ^ step' = 2 * p
  <2>1. /\ step \in Nat /\ BITSIZE - (step + 1) \in Nat
        /\ (BITSIZE - (step + 1)) + 1 = BITSIZE - step
    BY <1>1, <1>2, BoothAssumption
  <2>2. /\ p \in Nat \ {0} /\ r \in Nat \ {0} /\ 2 ^ (step + 1) = 2 * p
        /\ 2 ^ ((BITSIZE - (step + 1)) + 1) = 2 * r
    BY <2>1, PowerType, PowerDoubles, Zenon
  <2> QED
    BY <1>2, <2>1, <2>2, Zenon
<1>6. up \in Int /\ e \in 0 .. 1
  <2>1. Int2Bin(sum) \in Int
    BY <1>4, HalfIsTwoTops, Division DEF Int2Bin
  <2>2. up \in Int
    BY <1>1, <2>1
  <2> HIDE DEF up
  <2> QED
    BY <2>2, Division DEF GetEnd
<1> HIDE DEF s, sum, up, p, r, e, last
<1>7. p * r = TopWeight
  <2>1. p * (2 * r) = 2 * TopWeight
    BY <1>1, <1>5, HalfIsTwoTops, Zenon DEF p
  <2>2. p \in Int /\ r \in Int /\ TopWeight \in Int
    BY <1>5, HalfIsTwoTops
  <2> QED
    BY <2>1, <2>2
<1>8. /\ lower' \div r = Found + e * p
      /\ lower' % r = Rest \div 2
      /\ last = Rest % 2
      /\ lower' \in Int
  <2>1. p \in Nat \ {0} /\ r \in Nat \ {0} /\ lower \in Nat /\ e \in 0 .. 1
    BY <1>1, <1>5, <1>6, Zenon
  <2>2. p * r = TopWeight /\ lower' = lower \div 2 + e * TopWeight
    BY <1>2, <1>7, Zenon
  <2>3. /\ (lower \div 2 + e * TopWeight) \div r = lower \div (2 * r) + e * p
        /\ (lower \div 2 + e * TopWeight) % r = (lower % (2 * r)) \div 2
        /\ lower % 2 = (lower % (2 * r)) % 2
        /\ lower \div 2 + e * TopWeight \in Int
    BY <2>1, <2>2, LowerShifted, Zenon
  <2> QED
    BY <1>5, <2>2, <2>3, Zenon DEF Found, Rest, GetEnd, last
<1>9. Found' = Found + e * p /\ Rest' = Rest \div 2
  BY <1>2, <1>8, Zenon DEF Found, Rest, r
<1>10. /\ Rest \in Int /\ Rest \div 2 \in Int /\ Rest = 2 * (Rest \div 2) + last
       /\ Found \in Int
  <2>1. Rest \in Int /\ Found \in Int
    <3>1. 2 * r \in Nat \ {0}
      BY <1>5
    <3>2. lower % (2 * r) \in 0 .. 2 * r - 1 /\ lower \div (2 * r) \in Int
      BY <1>3, <3>1, Division
    <3> QED
      BY <1>5, <3>1, <3>2 DEF Rest, Found
  <2> QED
    BY <1>8, <2>1, Division
<1>11. Read' = Read + last * p /\ Read \in Int
  <2> DEFINE bits == Int2Bin(b)
             h == Rest \div 2
  <2>1. Read = bits - Rest * p /\ Read' = bits - h * (2 * p)
    BY <1>2, <1>5, <1>9, Zenon DEF Read, p, Int2Bin
  <2>2. bits \in Int
    BY <1>1, HalfIsTwoTops, Division DEF Int2Bin
  <2> HIDE DEF bits, h
  <2>3. h \in Int /\ Rest = 2 * h + last /\ Rest \in Int /\ last \in Int /\ p \in Int
    BY <1>3, <1>5, <1>10 DEF h
  <2>4. bits - h * (2 * p) = (bits - (2 * h + last) * p) + last * p
    BY <2>2, <2>3
  <2>5. bits - Rest * p \in Int
    BY <2>2, <2>3
  <2> QED
    BY <2>1, <2>3, <2>4, <2>5, Zenon
<1>12. BitsInPlace'
  <2>1. c' \in Int /\ upper' \in Int
    <3>1. sum \div 2 \in Int /\ up \div 2 \in Int /\ GetBegin(up) \in Int
      BY <1>4, <1>6, HalfIsTwoTops, Division DEF GetBegin, TopWeight
    <3>2. Shifted(up) = up \div 2 + GetBegin(up) * TopWeight
      BY Zenon DEF Shifted, TopWeight
    <3>3. TopWeight \in Int
      BY HalfIsTwoTops
    <3> QED
      BY <1>2, <3>1, <3>2, <3>3
  <2>2. lower' \in 0 .. Half - 1
    <3> DEFINE g == lower \div 2
    <3>1. g \in Int /\ lower % 2 \in 0 .. 1 /\ lower = 2 * g + (lower % 2)
      BY <1>3, Division
    <3>2. g \in 0 .. TopWeight - 1
      <4> HIDE DEF g
      <4> QED
        BY <1>1, <3>1, HalfIsTwoTops
    <3> HIDE DEF g
    <3>3. g + e * TopWeight \in 0 .. 2 * TopWeight - 1
      BY <1>6, <3>2, HalfIsTwoTops
    <3> QED
      BY <1>2, <3>3, HalfIsTwoTops, Zenon DEF g
  <2>3. 2 ^ step' * 2 ^ (BITSIZE - step') = Half
    <3>1. (2 * p) * r = Half
      <4>1. p \in Int /\ r \in Int
        BY <1>5
      <4> QED
        BY <1>7, <4>1, HalfIsTwoTops
    <3> QED
      BY <1>2, <1>5, <3>1, Zenon DEF r
  <2>4. step' \in 0 .. BITSIZE
    BY <1>1, <1>2, BoothAssumption
  <2> QED
    BY <1>1, <1>2, <1>3, <2>1, <2>2, <2>3, <2>4 DEF BitsInPlace
<1>13. BitsRead'
  <2>1. Read \in 0 .. p - 1
    BY Zenon DEF BoothIInv, BitsRead, p
  <2>2. Read' \in 0 .. 2 * p - 1 /\ last * p <= Read' /\ Read' < (last + 1) * p
    BY <1>3, <1>5, <1>11, <2>1
  <2>3. step' - 1 = step
    BY <1>1, <1>2
  <2> QED
    BY <1>2, <1>5, <2>2, <2>3, Zenon DEF BitsRead, p
<1>14. ASSUME Fits(a), Fits(-a)
       PROVE  Balanced' /\ PartialProduct' /\ UpperHalfIsC'
  <2>1. Balanced /\ PartialProduct /\ UpperHalfIsC
    BY <1>14 DEF BoothIInv
  <2>2. up = Int2Bin(sum)
    <3>1. CASE last = bit
      <4>1. sum = c
        BY <1>1, <1>3, <1>4, <3>1 DEF sum
      <4> QED
        BY <1>14, <2>1, <3>1, <4>1, Zenon DEF up, UpperHalfIsC
    <3>2. CASE last # bit
      BY <3>2, Zenon DEF up
    <3> QED
      BY <3>1, <3>2
  <2>3. Between(sum, IF last = 0 THEN a ELSE -a)
    <3>1. sum = c + a * (bit - last)
      BY <1>4, Zenon DEF sum
    <3> QED
      BY <1>1, <1>3, <2>1, <3>1 DEF Balanced, Between
  <2>4. Fits(sum)
    BY <1>1, <1>3, <1>4, <1>14, <2>3, HalfIsTwoTops DEF Between, Fits, TopWeight
  <2>5. /\ upper' = Int2Bin(c') /\ e = sum % 2
    BY <1>2, <1>4, <2>2, <2>4, ShiftedNumber, Zenon DEF e
  <2>6. c' \in Int /\ sum = 2 * c' + e
    BY <1>2, <1>4, <2>5, Division
  <2>7. Balanced'
    BY <1>1, <1>2, <1>3, <1>4, <1>6, <2>3, <2>6 DEF Balanced, Between
  <2>8. PartialProduct'
    <3>1. c * p + Found = a * (FirstBit(a) + Read - bit * p)
      BY <2>1, Zenon DEF PartialProduct, p
    <3>2. sum = c + a * (bit - last) /\ p \in Nat /\ FirstBit(a) \in Int
      <4>1. FirstBit(a) \in Int
        BY <1>1, <1>14, BitsOfFitting
      <4> QED
        BY <1>4, <1>5, <4>1 DEF sum
    <3>3. c' * (2 * p) + (Found + e * p)
            = a * (FirstBit(a) + (Read + last * p) - last * (2 * p))
      <4> DEFINE first == FirstBit(a)
                 n == c'
      <4>1. /\ a \in Int /\ n \in Int /\ sum \in Int /\ e \in 0 .. 1
            /\ p \in Nat /\ Found \in Int /\ first \in Int /\ Read \in Int
            /\ bit \in 0 .. 1 /\ last \in 0 .. 1 /\ c \in Int
        BY <1>1, <1>3, <1>4, <1>6, <1>10, <1>11, <2>6, <3>2, Zenon
      <4>2. /\ sum = 2 * n + e /\ sum = c + a * (bit - last)
            /\ c * p + Found = a * (first + Read - bit * p)
        BY <2>6, <3>1, <3>2, Zenon
      <4> HIDE DEF first, n
      <4>3. n * (2 * p) + (Found + e * p)
              = a * (first + (Read + last * p) - last * (2 * p))
        BY <4>1, <4>2, ProductGrows
      <4> QED
        BY <4>3, Zenon DEF first, n
    <3>4. FirstBit(a)' = FirstBit(a)
      BY <1>2, Zenon DEF FirstBit, GetBegin, Int2Bin
    <3> QED
      BY <1>2, <1>5, <1>9, <1>11, <3>3, <3>4, Zenon DEF PartialProduct
  <2> QED
    BY <2>5, <2>7, <2>8, Zenon DEF UpperHalfIsC, Int2Bin
<1>15. Fits(a)' = Fits(a) /\ Fits(-a)' = Fits(-a)
  BY <1>2, Zenon DEF Fits
<1> QED
  BY <1>12, <1>13, <1>14, <1>15, Zenon DEF BoothIInv

(* Every step keeps the invariant, if there is one.                        *)
LEMMA BoothNextIInv == BoothIInv /\ [BoothNext]_boothVars => BoothIInv'
<1> SUFFICES ASSUME BoothIInv, UNCHANGED boothVars PROVE BoothIInv'
  BY BoothStepIInv DEF BoothNext
<1> QED
  BY Zenon DEF boothVars, BoothIInv, BitsInPlace, BitsRead, Balanced, Between, PartialProduct,
               UpperHalfIsC, Rest, Found, Read, Fits, FirstBit, GetBegin, Int2Bin

(* When nothing is left of b, the string holds the multiple of a by b and  *)
(* the bit b was extended with.                                            *)
LEMMA LastPartialProduct == BoothIInv => ProductOfExtended
<1> SUFFICES ASSUME BoothIInv, step = BITSIZE, Fits(a), Fits(-a), Fits(b)
             PROVE  Product = (a * (IF a < 0 THEN b + 1 ELSE b)) % (Half * Half)
  BY DEF ProductOfExtended, Representable
<1> DEFINE bits == Int2Bin(b)
           factor == IF a < 0 THEN b + 1 ELSE b
<1>1. /\ a \in Int /\ b \in Int /\ c \in Int /\ bit \in 0 .. 1
      /\ lower \in 0 .. Half - 1 /\ lower \in Int
  <2>1. {a, b, c, upper} \subseteq Int
    BY DEF BoothIInv, BitsInPlace
  <2> QED
    BY <2>1, HalfIsTwoTops DEF BoothIInv, BitsInPlace
<1>2. 2 ^ (BITSIZE - step) = 1 /\ 2 ^ step = Half /\ 2 ^ (step - 1) = TopWeight /\ step > 0
  <2>1. BITSIZE - BITSIZE = 0 /\ 2 ^ 0 = 1 /\ BITSIZE > 0
    BY BoothAssumption
  <2> QED
    BY <2>1, Zenon DEF Half, TopWeight
<1>3. Rest = 0 /\ Found = lower
  <2>1. lower = 1 * lower + 0 /\ 1 \in Nat \ {0} /\ 0 \in 0 .. 1 - 1
    BY <1>1
  <2>2. lower \div 1 = lower /\ lower % 1 = 0
    BY <1>1, <2>1, DivisionIsUnique, Zenon
  <2> QED
    BY <1>2, <2>2, Zenon DEF Rest, Found
<1>4. bits \in 0 .. Half - 1 /\ bits = (IF b < 0 THEN b + Half ELSE b)
  BY <1>1, BitsOfFitting
<1>5. Read = bits
  <2>1. Read = bits - 0 * Half
    BY <1>2, <1>3, Zenon DEF Read
  <2> HIDE DEF bits
  <2> QED
    BY <1>4, <2>1, HalfIsTwoTops
<1>6. bit * TopWeight <= bits /\ bits < (bit + 1) * TopWeight
  BY <1>2, <1>5, Zenon DEF BoothIInv, BitsRead
<1> HIDE DEF bits
<1>7. bits - bit * Half = b
  <2>1. -TopWeight <= b /\ b < TopWeight
    BY DEF Fits, TopWeight
  <2>2. CASE bit = 0
    BY <1>1, <1>4, <1>6, <2>1, <2>2, HalfIsTwoTops
  <2>3. CASE bit = 1
    BY <1>1, <1>4, <1>6, <2>1, <2>3, HalfIsTwoTops
  <2> QED
    BY <1>1, <2>2, <2>3
<1>8. c * Half + lower = a * factor /\ factor \in Int
  <2>1. c * Half + lower = a * (FirstBit(a) + bits - bit * Half)
    BY <1>2, <1>3, <1>5, Zenon DEF BoothIInv, PartialProduct
  <2>2. FirstBit(a) = IF a < 0 THEN 1 ELSE 0
    BY <1>1, BitsOfFitting
  <2>3. FirstBit(a) + bits - bit * Half = factor
    <3> DEFINE x == bit * Half
    <3>1. x \in Int /\ bits \in Int
      BY <1>1, <1>4, HalfIsTwoTops
    <3> HIDE DEF x
    <3>2. bits - x = b
      BY <1>7, Zenon DEF x
    <3>3. FirstBit(a) + bits - x = factor
      BY <1>1, <2>2, <3>1, <3>2
    <3> QED
      BY <3>3, Zenon DEF x
  <2>4. factor \in Int
    BY <1>1
  <2> HIDE DEF factor
  <2> QED
    BY <2>1, <2>3, <2>4, Zenon
<1> HIDE DEF factor
<1> DEFINE q == c \div Half
<1>9. upper = c % Half
  BY Zenon DEF BoothIInv, UpperHalfIsC, Int2Bin
<1>10. q \in Int /\ upper \in 0 .. Half - 1 /\ c = Half * q + upper
  BY <1>1, <1>9, HalfIsTwoTops, Division
<1> HIDE DEF q
<1> DEFINE all == a * factor
           square == Half * Half
           product == upper * Half + lower
<1>11. all = square * q + product
  <2>1. (Half * q + upper) * Half + lower = (Half * Half) * q + (upper * Half + lower)
    BY <1>1, <1>10, HalfIsTwoTops
  <2> QED
    BY <1>8, <1>10, <2>1, Zenon
<1>12. square \in Nat \ {0} /\ product \in 0 .. square - 1
  <2>1. upper * Half <= (Half - 1) * Half /\ upper * Half \in Nat
    BY <1>10, HalfIsTwoTops
  <2>2. (Half - 1) * Half = square - Half /\ square \in Nat \ {0}
    BY HalfIsTwoTops
  <2> QED
    BY <1>1, <2>1, <2>2, HalfIsTwoTops
<1>13. all \in Int
  BY <1>1, <1>8
<1> HIDE DEF all, square, product
<1>14. all % square = product
  BY <1>10, <1>11, <1>12, <1>13, DivisionIsUnique, Zenon
<1> QED
  BY <1>14, Zenon DEF Product, all, square, product, factor

(* The two columns that main prints agree, for every width and every a     *)
(* that can be held with its negation.                                     *)
THEOREM ColumnsAgree == BoothSpec => []UpperHalfIsC
<1>1. BoothIInv => UpperHalfIsC
  BY DEF BoothIInv, UpperHalfIsC
<1> QED
  BY <1>1, BoothInitIInv, BoothNextIInv, PTL DEF BoothSpec

(* main multiplies a by b for a >= 0 and by b + 1 for a < 0, for every     *)
(* width and all operands that can be held.                                *)
THEOREM MultipliesExtended == BoothSpec => []ProductOfExtended
BY BoothInitIInv, BoothNextIInv, LastPartialProduct, PTL DEF BoothSpec
-----------------------------------------------------------------------------
(* The times of a graph.                                                   *)

(* Kept keeps the elements that are in T and no others.                    *)
LEMMA KeptFacts ==
  ASSUME NEW S, NEW s \in Seq(S), NEW T
  PROVE  Kept(s, T) \in Seq(S) /\ ToSet(Kept(s, T)) = ToSet(s) \intersect T
<1> DEFINE n == Len(s)
           Step(i, w) == IF s[i] \in T THEN Append(w, s[i]) ELSE w
           F == [x \in (1 .. n) \X Seq(S) |-> Step(x[1], x[2])]
           of == CHOOSE g : g = [i \in 0 .. n |->
                   IF i = 0 THEN <<>>
                   ELSE IF s[i] \in T THEN Append(g[i - 1], s[i]) ELSE g[i - 1]]
           Prefix(i) == {s[k] : k \in 1 .. i}
           Fine(i) == of[i] \in Seq(S) /\ ToSet(of[i]) = Prefix(i) \intersect T
<1>1. Kept(s, T) = of[n]
  BY Zenon DEF Kept
<1>2. n \in Nat /\ <<>> \in Seq(S) /\ (\A i \in 1 .. n : s[i] \in S) /\ ToSet(s) = Prefix(n)
  BY ToSetFacts, ElementOfSeq
<1>3. F \in [(1 .. n) \X Seq(S) -> Seq(S)]
  <2>1. ASSUME NEW i \in 1 .. n, NEW w \in Seq(S)
        PROVE  Step(i, w) \in Seq(S)
    BY <1>2, AppendProperties
  <2> HIDE DEF Step, n
  <2> QED
    BY <2>1
<1>4. PICK g \in [0 .. n -> Seq(S)] : IsRecursion(g, n, <<>>, F)
  <2> HIDE DEF F, n
  <2> QED
    BY <1>2, <1>3, RecursionExists, Zenon
<1>5. g = [i \in 0 .. n |->
             IF i = 0 THEN <<>>
             ELSE IF s[i] \in T THEN Append(g[i - 1], s[i]) ELSE g[i - 1]]
  <2>1. ASSUME NEW i \in 0 .. n, i # 0
        PROVE  F[<<i, g[i - 1]>>] = Step(i, g[i - 1])
    <3>1. i \in 1 .. n /\ i - 1 \in 0 .. n
      BY <1>2, <2>1
    <3>2. g[i - 1] \in Seq(S)
      BY <3>1
    <3> HIDE DEF Step, n
    <3> QED
      BY <3>1, <3>2
  <2> HIDE DEF F, n
  <2> QED
    BY <1>4, <2>1 DEF IsRecursion
<1>6. of = [i \in 0 .. n |->
             IF i = 0 THEN <<>>
             ELSE IF s[i] \in T THEN Append(of[i - 1], s[i]) ELSE of[i - 1]]
  BY <1>5, Zenon
<1> HIDE DEF of, F, n
<1> DEFINE G == {i \in Nat : Fine(i)}
<1>7. 0 \in G
  <2>1. of[0] = <<>> /\ 0 \in Nat
    BY <1>2, <1>6
  <2>2. Prefix(0) = {} /\ ToSet(<<>>) = {}
    BY DEF ToSet
  <2> QED
    BY <1>2, <2>1, <2>2
<1>8. ASSUME NEW i \in 1 .. n, i - 1 \in G
      PROVE  i \in G
  <2>1. i \in 0 .. n /\ i # 0 /\ i \in Nat /\ i - 1 \in 0 .. n
    BY <1>2
  <2>2. of[i] = Step(i, of[i - 1])
    BY <1>6, <2>1
  <2>3. s[i] \in S
    BY <1>2
  <2>4. Prefix(i) = Prefix(i - 1) \union {s[i]}
    <3>1. \A k \in 1 .. i : k \in 1 .. i - 1 \/ k = i
      BY <2>1
    <3>2. (\A k \in 1 .. i - 1 : k \in 1 .. i) /\ i \in 1 .. i
      BY <2>1
    <3>3. \A x \in Prefix(i) : x \in Prefix(i - 1) \union {s[i]}
      BY <3>1
    <3>4. \A x \in Prefix(i - 1) \union {s[i]} : x \in Prefix(i)
      BY <3>2
    <3> QED
      BY <3>3, <3>4
  <2>5. Fine(i - 1)
    BY <1>8
  <2> HIDE DEF Prefix
  <2>6. CASE s[i] \in T
    <3>1. of[i] \in Seq(S) /\ ToSet(of[i]) = ToSet(of[i - 1]) \union {s[i]}
      BY <2>2, <2>3, <2>5, <2>6, ToSetAppend
    <3> QED
      BY <2>1, <2>4, <2>5, <2>6, <3>1
  <2>7. CASE s[i] \notin T
    BY <2>1, <2>2, <2>4, <2>5, <2>7
  <2> QED
    BY <2>6, <2>7
<1>9. 0 .. n \subseteq G
  <2> HIDE DEF G
  <2> QED
    BY <1>2, <1>7, <1>8, UpTo
<1>10. n \in 0 .. n
  BY <1>2
<1> QED
  BY <1>1, <1>2, <1>9, <1>10
-----------------------------------------------------------------------------
Edge == [src : Vertex, dst : Vertex, weight : Nat]

E == ToSet(edges)

(* The edges lead to higher ranks.                                         *)
Ranked(rank) == \A e \in E : rank[e.src] < rank[e.dst]

(* What TimingAssumption says of the graph, as a set of edges.             *)
LEMMA GraphFacts ==
  ASSUME edges \in TimingGraphs
  PROVE  /\ edges \in Seq(Edge) /\ E \subseteq Edge
         /\ IsFiniteSet(Vertex) /\ Cardinality(Vertex) \in Nat
         /\ \E rank \in [Vertex -> 1 .. Cardinality(Vertex)] : Ranked(rank)
         /\ \A e, f \in E : e.src = f.src /\ e.dst = f.dst => e = f
         /\ Sources \ Destinations \subseteq Vertex
         /\ Destinations \ Sources \subseteq Vertex
<1>1. edges \in Seq(Edge) /\ IsFiniteSet(Vertex)
  BY TimingAssumption, Zenon DEF Edge
<1>2. E \subseteq Edge /\ E = {edges[k] : k \in DOMAIN edges}
  BY <1>1, ToSetFacts DEF E, ToSet
<1>3. \A e \in E : e.src \in Vertex /\ e.dst \in Vertex
  BY <1>2 DEF Edge
<1>4. PICK rank \in [Vertex -> 1 .. Cardinality(Vertex)] :
        \A k \in DOMAIN edges : rank[edges[k].src] < rank[edges[k].dst]
  BY TimingAssumption, Zenon
<1>5. Ranked(rank)
  BY <1>2, <1>4 DEF Ranked
<1>6. \A j, k \in DOMAIN edges :
        edges[j].src = edges[k].src /\ edges[j].dst = edges[k].dst => j = k
  BY TimingAssumption, Zenon
<1>7. \A e, f \in E : e.src = f.src /\ e.dst = f.dst => e = f
  BY <1>2, <1>6
<1>8. /\ Sources \ Destinations \subseteq Vertex
      /\ Destinations \ Sources \subseteq Vertex
  BY <1>3 DEF Sources, Destinations, E
<1> QED
  BY <1>1, <1>2, <1>4, <1>5, <1>7, <1>8, FS_CardinalityType

(* The two stacks of a vertex.                                             *)
LEMMA StackFacts ==
  ASSUME edges \in TimingGraphs, NEW v \in Vertex
  PROVE  /\ Leaving(v) \in Seq(Edge) /\ ToSet(Leaving(v)) = {e \in E : e.src = v}
         /\ Entering(v) \in Seq(Edge) /\ ToSet(Entering(v)) = {e \in E : e.dst = v}
<1>1. edges \in Seq(Edge) /\ E \subseteq Edge
  BY GraphFacts
<1>2. /\ Leaving(v) \in Seq(Edge)
      /\ ToSet(Leaving(v)) = E \intersect [src : {v}, dst : Vertex, weight : Nat]
  BY <1>1, KeptFacts, Zenon DEF Leaving, E
<1>3. /\ Entering(v) \in Seq(Edge)
      /\ ToSet(Entering(v)) = E \intersect [src : Vertex, dst : {v}, weight : Nat]
  BY <1>1, KeptFacts, Zenon DEF Entering, E
<1>4. \A e \in Edge : e \in [src : {v}, dst : Vertex, weight : Nat] <=> e.src = v
  BY DEF Edge
<1>5. \A e \in Edge : e \in [src : Vertex, dst : {v}, weight : Nat] <=> e.dst = v
  BY DEF Edge
<1>6. ToSet(Leaving(v)) = {e \in E : e.src = v}
  BY <1>1, <1>2, <1>4
<1>7. ToSet(Entering(v)) = {e \in E : e.dst = v}
  BY <1>1, <1>3, <1>5
<1> QED
  BY <1>2, <1>3, <1>6, <1>7

(* A list with one element.                                                *)
LEMMA OneElement ==
  ASSUME NEW S, NEW s \in Seq(S), Len(s) <= 1
  PROVE  /\ \A x, y \in ToSet(s) : x = y
         /\ s # <<>> => s[1] \in ToSet(s)
<1>1. Len(s) \in Nat /\ ToSet(s) = {s[i] : i \in 1 .. Len(s)}
  BY ToSetFacts
<1>2. \A i \in 1 .. Len(s) : i = 1
  BY <1>1
<1>3. s # <<>> => 1 \in 1 .. Len(s)
  BY <1>1, EmptySeq
<1> QED
  BY <1>1, <1>2, <1>3

(* The earliest time is that of some entering edge, or 0.                  *)
TimeOver(time, v) == {0} \union {time[e.src] + e.weight : e \in ToSet(Entering(v))}

(* The times over the entering edges have a maximum.                       *)
LEMMA TimeOverFacts ==
  ASSUME edges \in TimingGraphs, NEW v \in Vertex, NEW time,
         \A e \in E : e.dst = v => time[e.src] \in Nat
  PROVE  /\ TimeOver(time, v) \subseteq Nat
         /\ Max(TimeOver(time, v)) \in TimeOver(time, v)
         /\ \A x \in TimeOver(time, v) : Max(TimeOver(time, v)) >= x
<1> DEFINE s == Entering(v)
           n == Len(s)
           f == [k \in 1 .. n |-> time[s[k].src] + s[k].weight]
<1>1. s \in Seq(Edge) /\ ToSet(s) = {e \in E : e.dst = v}
  BY StackFacts
<1>2. E \subseteq Edge
  BY GraphFacts
<1> HIDE DEF s
<1>3. n \in Nat /\ ToSet(s) = {s[k] : k \in 1 .. n}
  BY <1>1, ToSetFacts
<1>4. ASSUME NEW k \in 1 .. n
      PROVE  time[s[k].src] + s[k].weight \in Nat
  <2>1. s[k] \in E /\ s[k].dst = v /\ s[k].weight \in Nat
    BY <1>1, <1>2, <1>3 DEF Edge
  <2>2. time[s[k].src] \in Nat
    BY <2>1
  <2> QED
    BY <2>1, <2>2
<1>5. f \in [1 .. n -> Nat]
  BY <1>4
<1>6. TimeOver(time, v) = {0} \union {f[k] : k \in 1 .. n}
  BY <1>3 DEF TimeOver, s
<1> HIDE DEF f, n
<1>7. TimeOver(time, v) \subseteq Nat
  BY <1>5, <1>6
<1>8. \E x \in TimeOver(time, v) : \A y \in TimeOver(time, v) : x >= y
  BY <1>3, <1>5, <1>6, ListHasMax
<1>9. TimeOver(time, v) \subseteq Int
  BY <1>7
<1> QED
  BY <1>7, <1>8, <1>9, MaxFacts

(* The recursive definitions have solutions.                               *)
LEMMA EarliestFacts ==
  ASSUME edges \in TimingGraphs
  PROVE  \A v \in Vertex : /\ Earliest[v] = Max(TimeOver(Earliest, v))
                           /\ Earliest[v] \in Nat
<1> DEFINE N == Cardinality(Vertex)
           Phi == [t \in [Vertex -> Nat] |-> [v \in Vertex |-> Max(TimeOver(t, v))]]
<1>1. N \in Nat /\ E \subseteq Edge
  BY GraphFacts
<1>2. PICK rank \in [Vertex -> 1 .. N] : Ranked(rank)
  BY GraphFacts
<1>3. \A e \in E : e.src \in Vertex /\ e.dst \in Vertex /\ e.weight \in Nat
  BY <1>1 DEF Edge
<1>4. \A v \in Vertex : ToSet(Entering(v)) = {e \in E : e.dst = v}
  BY StackFacts
<1>5. ASSUME NEW t \in [Vertex -> Nat], NEW v \in Vertex
      PROVE  Max(TimeOver(t, v)) \in Nat
  <2>1. \A e \in E : e.dst = v => t[e.src] \in Nat
    BY <1>3
  <2>2. Max(TimeOver(t, v)) \in TimeOver(t, v) /\ TimeOver(t, v) \subseteq Nat
    BY <2>1, TimeOverFacts, Zenon
  <2> QED
    BY <2>2, Zenon
<1>6. Phi \in [[Vertex -> Nat] -> [Vertex -> Nat]]
  BY <1>5
<1>7. ASSUME NEW t, NEW u, NEW v \in Vertex,
             \A w \in Vertex : rank[w] < rank[v] => t[w] = u[w]
      PROVE  TimeOver(t, v) = TimeOver(u, v)
  <2>1. \A e \in ToSet(Entering(v)) : t[e.src] = u[e.src]
    BY <1>2, <1>3, <1>4, <1>7 DEF Ranked
  <2> QED
    BY <2>1 DEF TimeOver
<1>8. OnLowerRanks(Vertex, Nat, rank, Phi)
  <2> SUFFICES ASSUME NEW t \in [Vertex -> Nat], NEW u \in [Vertex -> Nat], NEW v \in Vertex,
                      \A w \in Vertex : rank[w] < rank[v] => t[w] = u[w]
               PROVE  Phi[t][v] = Phi[u][v]
    BY DEF OnLowerRanks
  <2>1. TimeOver(t, v) = TimeOver(u, v)
    BY <1>7
  <2>2. Phi[t][v] = Max(TimeOver(t, v)) /\ Phi[u][v] = Max(TimeOver(u, v))
    OBVIOUS
  <2> QED
    BY <2>1, <2>2
<1>9. [v \in Vertex |-> 0] \in [Vertex -> Nat]
  OBVIOUS
<1>10. PICK t \in [Vertex -> Nat] : Phi[t] = t
  <2> HIDE DEF Phi, N
  <2>1. HasSolution(Vertex, Nat, Phi)
    BY <1>1, <1>6, <1>8, <1>9, RecursionOverRanks, Zenon
  <2> QED
    BY <2>1 DEF HasSolution
<1>11. t = [v \in Vertex |->
              Max({0} \union {t[e.src] + e.weight : e \in ToSet(Entering(v))})]
  BY <1>10 DEF TimeOver
<1>12. Earliest = [v \in Vertex |->
         Max({0} \union {Earliest[e.src] + e.weight : e \in ToSet(Entering(v))})]
  BY <1>11, Zenon DEF Earliest
<1>13. \A v \in Vertex : Earliest[v] = Max(TimeOver(Earliest, v))
  <2> DEFINE e0 == Earliest
  <2>1. e0 = [v \in Vertex |->
              Max({0} \union {e0[e.src] + e.weight : e \in ToSet(Entering(v))})]
    BY <1>12
  <2> HIDE DEF e0
  <2>2. \A v \in Vertex : e0[v] = Max(TimeOver(e0, v))
    BY <2>1, Zenon DEF TimeOver
  <2> QED
    BY <2>2 DEF e0
<1> DEFINE G == {i \in Nat : \A v \in Vertex : rank[v] <= i => Earliest[v] \in Nat}
<1>14. \A v \in Vertex : rank[v] \in 1 .. N
  BY <1>2
<1> HIDE DEF N
<1>15. 0 \in G
  BY <1>14
<1>16. ASSUME NEW i \in 1 .. N, i - 1 \in G
       PROVE  i \in G
  <2>1. i \in Nat
    BY <1>1
  <2> SUFFICES ASSUME NEW v \in Vertex, rank[v] <= i PROVE Earliest[v] \in Nat
    BY <2>1
  <2>2. ASSUME NEW e \in E, e.dst = v
        PROVE  Earliest[e.src] \in Nat
    <3>1. rank[e.src] < rank[v]
      BY <1>2, <2>2 DEF Ranked
    <3>2. rank[e.src] <= i - 1 /\ e.src \in Vertex
      BY <1>3, <1>14, <2>1, <3>1
    <3> QED
      BY <1>16, <3>2
  <2>3. /\ Max(TimeOver(Earliest, v)) \in TimeOver(Earliest, v)
        /\ TimeOver(Earliest, v) \subseteq Nat
    <3>1. \A e \in E : e.dst = v => Earliest[e.src] \in Nat
      BY <2>2
    <3> QED
      BY <3>1, TimeOverFacts, Zenon
  <2> QED
    BY <1>13, <2>3
<1>17. 0 .. N \subseteq G
  <2> HIDE DEF G
  <2> QED
    BY <1>1, <1>15, <1>16, UpTo
<1>18. N \in 0 .. N /\ \A v \in Vertex : rank[v] <= N
  BY <1>1, <1>14
<1>19. \A v \in Vertex : Earliest[v] \in Nat
  BY <1>17, <1>18
<1> QED
  BY <1>13, <1>19

(* The reversed order of the ranks.                                        *)
LEMMA RanksBack ==
  ASSUME edges \in TimingGraphs
  PROVE  \E rank \in [Vertex -> 1 .. Cardinality(Vertex)] :
           \A e \in E : rank[e.dst] < rank[e.src]
<1> DEFINE N == Cardinality(Vertex)
<1>1. N \in Nat /\ E \subseteq Edge
  BY GraphFacts
<1>2. PICK rank \in [Vertex -> 1 .. N] : Ranked(rank)
  BY GraphFacts
<1> HIDE DEF N
<1> DEFINE back == [v \in Vertex |-> N + 1 - rank[v]]
<1>3. back \in [Vertex -> 1 .. N]
  BY <1>1
<1>4. ASSUME NEW e \in E
      PROVE  back[e.dst] < back[e.src]
  <2>1. e.src \in Vertex /\ e.dst \in Vertex
    BY <1>1 DEF Edge
  <2>2. rank[e.src] < rank[e.dst] /\ rank[e.src] \in Int /\ rank[e.dst] \in Int
    BY <1>2, <2>1 DEF Ranked
  <2>3. back[e.src] = N + 1 - rank[e.src] /\ back[e.dst] = N + 1 - rank[e.dst]
    BY <2>1
  <2> HIDE DEF back
  <2> QED
    BY <1>1, <2>2, <2>3
<1> HIDE DEF back
<1> QED
  BY <1>3, <1>4 DEF N

(* The ancestors of a vertex are those behind its entering edges, and      *)
(* theirs.                                                                 *)
LEMMA AncestorsFacts ==
  ASSUME edges \in TimingGraphs
  PROVE  \A e \in E : {e.src} \union Ancestors[e.src] \subseteq Ancestors[e.dst]
<1> DEFINE N == Cardinality(Vertex)
           S == SUBSET Vertex
           Behind(t, v) == UNION {{e.src} \union t[e.src] : e \in ToSet(Entering(v))}
           Phi == [t \in [Vertex -> S] |-> [v \in Vertex |-> Behind(t, v)]]
<1>1. N \in Nat /\ E \subseteq Edge
  BY GraphFacts
<1>2. PICK rank \in [Vertex -> 1 .. N] : Ranked(rank)
  BY GraphFacts
<1>3. \A e \in E : e.src \in Vertex /\ e.dst \in Vertex
  BY <1>1 DEF Edge
<1>4. \A v \in Vertex : ToSet(Entering(v)) = {e \in E : e.dst = v}
  BY StackFacts
<1>5. Phi \in [[Vertex -> S] -> [Vertex -> S]]
  <2>1. ASSUME NEW t \in [Vertex -> S], NEW v \in Vertex
        PROVE  Behind(t, v) \in S
    <3>1. \A e \in ToSet(Entering(v)) : e.src \in Vertex /\ t[e.src] \subseteq Vertex
      BY <1>3, <1>4
    <3> QED
      BY <3>1
  <2> HIDE DEF S, Behind
  <2> QED
    BY <2>1
<1>6. OnLowerRanks(Vertex, S, rank, Phi)
  <2> SUFFICES ASSUME NEW t \in [Vertex -> S], NEW u \in [Vertex -> S], NEW v \in Vertex,
                      \A w \in Vertex : rank[w] < rank[v] => t[w] = u[w]
               PROVE  Phi[t][v] = Phi[u][v]
    BY DEF OnLowerRanks
  <2>1. \A e \in ToSet(Entering(v)) : t[e.src] = u[e.src]
    BY <1>2, <1>3, <1>4 DEF Ranked
  <2>2. Behind(t, v) = Behind(u, v)
    BY <2>1
  <2> HIDE DEF Behind, S
  <2> QED
    BY <2>2
<1>7. [v \in Vertex |-> {}] \in [Vertex -> S]
  OBVIOUS
<1>8. PICK t \in [Vertex -> S] : Phi[t] = t
  <2> HIDE DEF Phi, N, S
  <2>1. HasSolution(Vertex, S, Phi)
    BY <1>1, <1>5, <1>6, <1>7, RecursionOverRanks, Zenon
  <2> QED
    BY <2>1 DEF HasSolution
<1>9. t = [v \in Vertex |-> UNION {{e.src} \union t[e.src] : e \in ToSet(Entering(v))}]
  BY <1>8
<1>10. Ancestors = [v \in Vertex |->
         UNION {{e.src} \union Ancestors[e.src] : e \in ToSet(Entering(v))}]
  BY <1>9, Zenon DEF Ancestors
<1> DEFINE of == Ancestors
<1>11. of = [v \in Vertex |-> Behind(of, v)]
  BY <1>10
<1>12. ASSUME NEW e \in E
       PROVE  {e.src} \union of[e.src] \subseteq of[e.dst]
  <2>1. of[e.dst] = Behind(of, e.dst)
    <3> HIDE DEF of, Behind
    <3> QED
      BY <1>3, <1>11
  <2>2. e \in ToSet(Entering(e.dst))
    BY <1>3, <1>4
  <2> HIDE DEF of
  <2> QED
    BY <2>1, <2>2
<1> QED
  BY <1>12

(* The descendants of a vertex are those before its leaving edges, and     *)
(* theirs.                                                                 *)
LEMMA DescendantsFacts ==
  ASSUME edges \in TimingGraphs
  PROVE  \A e \in E : {e.dst} \union Descendants[e.dst] \subseteq Descendants[e.src]
<1> DEFINE N == Cardinality(Vertex)
           S == SUBSET Vertex
           Ahead(t, v) == UNION {{e.dst} \union t[e.dst] : e \in ToSet(Leaving(v))}
           Phi == [t \in [Vertex -> S] |-> [v \in Vertex |-> Ahead(t, v)]]
<1>1. N \in Nat /\ E \subseteq Edge
  BY GraphFacts
<1>2. PICK rank \in [Vertex -> 1 .. N] : \A e \in E : rank[e.dst] < rank[e.src]
  BY RanksBack
<1>3. \A e \in E : e.src \in Vertex /\ e.dst \in Vertex
  BY <1>1 DEF Edge
<1>4. \A v \in Vertex : ToSet(Leaving(v)) = {e \in E : e.src = v}
  BY StackFacts
<1>5. Phi \in [[Vertex -> S] -> [Vertex -> S]]
  <2>1. ASSUME NEW t \in [Vertex -> S], NEW v \in Vertex
        PROVE  Ahead(t, v) \in S
    <3>1. \A e \in ToSet(Leaving(v)) : e.dst \in Vertex /\ t[e.dst] \subseteq Vertex
      BY <1>3, <1>4
    <3> QED
      BY <3>1
  <2> HIDE DEF S, Ahead
  <2> QED
    BY <2>1
<1>6. OnLowerRanks(Vertex, S, rank, Phi)
  <2> SUFFICES ASSUME NEW t \in [Vertex -> S], NEW u \in [Vertex -> S], NEW v \in Vertex,
                      \A w \in Vertex : rank[w] < rank[v] => t[w] = u[w]
               PROVE  Phi[t][v] = Phi[u][v]
    BY DEF OnLowerRanks
  <2>1. \A e \in ToSet(Leaving(v)) : t[e.dst] = u[e.dst]
    BY <1>2, <1>3, <1>4
  <2>2. Ahead(t, v) = Ahead(u, v)
    BY <2>1
  <2> HIDE DEF Ahead, S
  <2> QED
    BY <2>2
<1>7. [v \in Vertex |-> {}] \in [Vertex -> S]
  OBVIOUS
<1>8. PICK t \in [Vertex -> S] : Phi[t] = t
  <2> HIDE DEF Phi, N, S
  <2>1. HasSolution(Vertex, S, Phi)
    BY <1>1, <1>5, <1>6, <1>7, RecursionOverRanks, Zenon
  <2> QED
    BY <2>1 DEF HasSolution
<1>9. t = [v \in Vertex |-> UNION {{e.dst} \union t[e.dst] : e \in ToSet(Leaving(v))}]
  BY <1>8
<1>10. Descendants = [v \in Vertex |->
         UNION {{e.dst} \union Descendants[e.dst] : e \in ToSet(Leaving(v))}]
  BY <1>9, Zenon DEF Descendants
<1> DEFINE of == Descendants
<1>11. of = [v \in Vertex |-> Ahead(of, v)]
  BY <1>10
<1>12. ASSUME NEW e \in E
       PROVE  {e.dst} \union of[e.dst] \subseteq of[e.src]
  <2>1. of[e.src] = Ahead(of, e.src)
    <3> HIDE DEF of, Ahead
    <3> QED
      BY <1>3, <1>11
  <2>2. e \in ToSet(Leaving(e.src))
    BY <1>3, <1>4
  <2> HIDE DEF of
  <2> QED
    BY <2>1, <2>2
<1> QED
  BY <1>12

LatestAhead(time, v) ==
  IF Leaving(v) = <<>> THEN ASAP_list[v]
  ELSE Max({0, time[Leaving(v)[1].dst] - Leaving(v)[1].weight})

(* The latest time of a vertex follows from that at the end of its first   *)
(* edge.                                                                   *)
LEMMA LatestFacts ==
  ASSUME edges \in TimingGraphs, ASAP_list \in [Vertex -> Nat]
  PROVE  \A v \in Vertex : LatestOnChain[v] = LatestAhead(LatestOnChain, v)
<1> DEFINE N == Cardinality(Vertex)
           Phi == [t \in [Vertex -> Nat] |-> [v \in Vertex |-> LatestAhead(t, v)]]
<1>1. N \in Nat /\ E \subseteq Edge
  BY GraphFacts
<1>2. PICK rank \in [Vertex -> 1 .. N] : \A e \in E : rank[e.dst] < rank[e.src]
  BY RanksBack
<1>3. \A e \in E : e.src \in Vertex /\ e.dst \in Vertex /\ e.weight \in Nat
  BY <1>1 DEF Edge
<1>4. \A v \in Vertex : Leaving(v) # <<>> => Leaving(v)[1] \in E /\ Leaving(v)[1].src = v
  <2> SUFFICES ASSUME NEW v \in Vertex, Leaving(v) # <<>>
               PROVE  Leaving(v)[1] \in E /\ Leaving(v)[1].src = v
    OBVIOUS
  <2>1. Leaving(v) \in Seq(Edge) /\ ToSet(Leaving(v)) = {e \in E : e.src = v}
    BY StackFacts
  <2>2. Leaving(v)[1] \in ToSet(Leaving(v))
    <3>1. /\ Len(Leaving(v)) \in Nat /\ Len(Leaving(v)) # 0
          /\ ToSet(Leaving(v)) = {Leaving(v)[i] : i \in 1 .. Len(Leaving(v))}
      BY <2>1, ToSetFacts, EmptySeq
    <3> QED
      BY <3>1
  <2> QED
    BY <2>1, <2>2
<1>5. Phi \in [[Vertex -> Nat] -> [Vertex -> Nat]]
  <2>1. ASSUME NEW t \in [Vertex -> Nat], NEW v \in Vertex
        PROVE  LatestAhead(t, v) \in Nat
    <3>1. CASE Leaving(v) = <<>>
      BY <3>1 DEF LatestAhead
    <3>2. CASE Leaving(v) # <<>>
      <4> DEFINE x == t[Leaving(v)[1].dst] - Leaving(v)[1].weight
      <4>1. x \in Int
        BY <1>3, <1>4, <3>2
      <4>2. LatestAhead(t, v) = Max({0, x})
        BY <3>2 DEF LatestAhead
      <4> HIDE DEF x
      <4>3. Max({0, x}) = IF 0 >= x THEN 0 ELSE x
        BY <4>1, MaxOfTwo
      <4> QED
        BY <4>1, <4>2, <4>3
    <3> QED
      BY <3>1, <3>2
  <2> QED
    BY <2>1
<1>6. OnLowerRanks(Vertex, Nat, rank, Phi)
  <2> SUFFICES ASSUME NEW t \in [Vertex -> Nat], NEW u \in [Vertex -> Nat], NEW v \in Vertex,
                      \A w \in Vertex : rank[w] < rank[v] => t[w] = u[w]
               PROVE  Phi[t][v] = Phi[u][v]
    BY DEF OnLowerRanks
  <2>1. Leaving(v) # <<>> => t[Leaving(v)[1].dst] = u[Leaving(v)[1].dst]
    BY <1>2, <1>3, <1>4
  <2>2. LatestAhead(t, v) = LatestAhead(u, v)
    BY <2>1 DEF LatestAhead
  <2> QED
    BY <2>2
<1>7. [v \in Vertex |-> 0] \in [Vertex -> Nat]
  OBVIOUS
<1>8. PICK t \in [Vertex -> Nat] : Phi[t] = t
  <2> HIDE DEF Phi, N
  <2>1. HasSolution(Vertex, Nat, Phi)
    BY <1>1, <1>5, <1>6, <1>7, RecursionOverRanks, Zenon
  <2> QED
    BY <2>1 DEF HasSolution
<1>9. t = [v \in Vertex |->
             IF Leaving(v) = <<>> THEN ASAP_list[v]
             ELSE Max({0, t[Leaving(v)[1].dst] - Leaving(v)[1].weight})]
  BY <1>8 DEF LatestAhead
<1>10. LatestOnChain = [v \in Vertex |->
         IF Leaving(v) = <<>> THEN ASAP_list[v]
         ELSE Max({0, LatestOnChain[Leaving(v)[1].dst] - Leaving(v)[1].weight})]
  BY <1>9, Zenon DEF LatestOnChain
<1> DEFINE time == LatestOnChain
<1>11. time = [v \in Vertex |-> LatestAhead(time, v)]
  BY <1>10 DEF LatestAhead
<1> HIDE DEF time
<1>12. \A v \in Vertex : time[v] = LatestAhead(time, v)
  BY <1>11
<1> QED
  BY <1>12 DEF time
-----------------------------------------------------------------------------
(* What the walks read of the graph changes only with it.                  *)
EarliestOf(g) ==
  LET time[v \in Vertex] ==
        Max({0} \union {time[e.src] + e.weight :
                          e \in ToSet(Kept(g, [src : Vertex, dst : {v}, weight : Nat]))})
  IN  time

AncestorsOf(g) ==
  LET of[v \in Vertex] ==
        UNION {{e.src} \union of[e.src] :
                 e \in ToSet(Kept(g, [src : Vertex, dst : {v}, weight : Nat]))}
  IN  of

(* These read nothing but the edges.                                       *)
LEMMA GraphKept ==
  ASSUME edges' = edges
  PROVE  /\ Earliest' = Earliest /\ Ancestors' = Ancestors
         /\ Sources' = Sources /\ Destinations' = Destinations /\ E' = E
         /\ \A v : Leaving(v)' = Leaving(v) /\ Entering(v)' = Entering(v)
<1>1. Earliest = EarliestOf(edges) /\ Earliest' = EarliestOf(edges')
  BY Zenon DEF Earliest, EarliestOf, Entering
<1>2. Ancestors = AncestorsOf(edges) /\ Ancestors' = AncestorsOf(edges')
  BY Zenon DEF Ancestors, AncestorsOf, Entering
<1>3. /\ Sources' = Sources /\ Destinations' = Destinations /\ E' = E
      /\ \A v : Leaving(v)' = Leaving(v) /\ Entering(v)' = Entering(v)
  BY DEF Sources, Destinations, E, Leaving, Entering
<1> QED
  BY <1>1, <1>2, <1>3

DescendantsOf(g) ==
  LET of[v \in Vertex] ==
        UNION {{e.dst} \union of[e.dst] :
                 e \in ToSet(Kept(g, [src : {v}, dst : Vertex, weight : Nat]))}
  IN  of

LatestOf(g, list) ==
  LET leaving(v) == Kept(g, [src : {v}, dst : Vertex, weight : Nat])
      time[v \in Vertex] == IF leaving(v) = <<>> THEN list[v]
                            ELSE Max({0, time[leaving(v)[1].dst] - leaving(v)[1].weight})
  IN  time

(* The same for what the chains read.                                      *)
LEMMA ChainsKept ==
  ASSUME edges' = edges
  PROVE  /\ Descendants' = Descendants
         /\ ASAP_list' = ASAP_list => LatestOnChain' = LatestOnChain
<1>1. Descendants = DescendantsOf(edges) /\ Descendants' = DescendantsOf(edges')
  BY Zenon DEF Descendants, DescendantsOf, Leaving
<1>2. /\ LatestOnChain = LatestOf(edges, ASAP_list)
      /\ LatestOnChain' = LatestOf(edges', ASAP_list')
  BY Zenon DEF LatestOnChain, LatestOf, Leaving
<1> QED
  BY <1>1, <1>2
-----------------------------------------------------------------------------
(* The list of f of the elements of s. *)
Mapped(f, s) == [k \in DOMAIN s |-> f[s[k]]]

IsMapped(t, f, s, T) == t \in Seq(T) /\ ToSet(t) = {f[x] : x \in ToSet(s)}

(* The elements of a mapped list.                                          *)
LEMMA MappedList ==
  ASSUME NEW S, NEW T, NEW s \in Seq(S), NEW f \in [S -> T]
  PROVE  IsMapped(Mapped(f, s), f, s, T)
<1> DEFINE n == Len(s)
           t == Mapped(f, s)
<1>1. n \in Nat /\ DOMAIN s = 1 .. n /\ ToSet(s) = {s[i] : i \in 1 .. n}
  BY ToSetFacts
<1>2. \A i \in 1 .. n : s[i] \in S
  BY ElementOfSeq
<1> HIDE DEF n
<1>3. t = [k \in 1 .. n |-> f[s[k]]]
  BY <1>1 DEF Mapped
<1> HIDE DEF t
<1>4. t \in [1 .. n -> T]
  BY <1>2, <1>3
<1>5. \A i \in 1 .. n : t[i] = f[s[i]]
  BY <1>3
<1>6. t \in Seq(T) /\ Len(t) = n
  BY <1>1, <1>4, FunctionIsSequence
<1>7. ToSet(t) = {t[i] : i \in 1 .. n}
  <2>1. ToSet(t) = {t[i] : i \in 1 .. Len(t)}
    BY <1>6, ToSetFacts
  <2> QED
    BY <1>6, <2>1
<1>8. ToSet(t) = {f[x] : x \in ToSet(s)}
  BY <1>1, <1>5, <1>7
<1> QED
  BY <1>6, <1>8 DEF t, IsMapped

Larger(x, y) == IF x >= y THEN x ELSE y

(* What a step of the walk to the ends does: src is taken, with the edges  *)
(* that it has left, whose ends get on the list.                           *)
AsapTook(src, rest) ==
  LET left == ToSet(nxtStack[src])
  IN  /\ src \in Vertex /\ ToSet(Begin_list) = rest \union {src}
      /\ Begin_list' \in Seq(Vertex)
      /\ ToSet(Begin_list') = rest \union ({e.dst : e \in left} \ ToSet(End_list))
      /\ nxtStack' = [nxtStack EXCEPT ![src] = <<>>]
      /\ vertexTime' \in [Vertex -> Nat]
      /\ \A e \in left :
           vertexTime'[e.dst] = Larger(vertexTime[src] + e.weight, vertexTime[e.dst])
      /\ \A v \in Vertex : (\A e \in left : e.dst # v) => vertexTime'[v] = vertexTime[v]

(* A stack is full or empty.                                               *)
Stacks(stack, full) == \A v \in Vertex : stack[v] \in {<<>>, full[v]}

AllLeaving  == [v \in Vertex |-> Leaving(v)]
AllEntering == [v \in Vertex |-> Entering(v)]

(* One vertex of the walk to the ends, in terms of sets.                   *)
LEMMA AsapStep ==
  ASSUME run_time_weighted_ASAP, edges \in TimingGraphs, Begin_list \in Seq(Vertex),
         Stacks(nxtStack, AllLeaving), vertexTime \in [Vertex -> Nat],
         ToSet(Begin_list) \intersect ToSet(End_list) = {},
         ToSet(End_list) \subseteq Vertex, End_list \in Seq(Vertex)
  PROVE  \E src, rest : AsapTook(src, rest)
<1> DEFINE src  == Last(Begin_list)
           full == Refilled(nxtStack, src, End_list, AllLeaving)
           left == Reverse(full[src])
           to   == [k \in DOMAIN left |-> left[k].dst]
           rest == ToSet(Front(Begin_list))
           edge(v) == CHOOSE e \in ToSet(left) : e.dst = v
<1>1. /\ Begin_list # <<>>
      /\ vertexTime' = [v \in Vertex |->
           IF Contains(to, v) THEN ASAP_Time(vertexTime[src], edge(v)) ELSE vertexTime[v]]
      /\ nxtStack' = [full EXCEPT ![src] = <<>>]
      /\ Begin_list' = Front(Begin_list) \o Kept(to, Vertex \ ToSet(End_list))
  BY DEF run_time_weighted_ASAP, AllLeaving
<1>2. /\ src \in Vertex /\ Front(Begin_list) \in Seq(Vertex)
      /\ ToSet(Begin_list) = rest \union {src}
  BY <1>1, LastAndFront
<1>3. src \notin ToSet(End_list)
  BY <1>2
<1>4. full = nxtStack
  <2>1. ~Contains(End_list, src)
    BY <1>3, ToSetFacts
  <2> QED
    BY <2>1 DEF Refilled
<1> HIDE DEF src, full, rest, edge
<1>5. E \subseteq Edge /\ \A e, f \in E : e.src = f.src /\ e.dst = f.dst => e = f
  BY GraphFacts
<1>6. \A e \in E : e.src \in Vertex /\ e.dst \in Vertex /\ e.weight \in Nat
  BY <1>5 DEF Edge
<1>7. Leaving(src) \in Seq(Edge) /\ ToSet(Leaving(src)) = {e \in E : e.src = src}
  BY <1>2, StackFacts
<1>8. /\ nxtStack[src] \in Seq(Edge)
      /\ \A e \in ToSet(nxtStack[src]) : e \in E /\ e.src = src
  <2>1. nxtStack[src] = <<>> \/ nxtStack[src] = Leaving(src)
    BY <1>2 DEF Stacks, AllLeaving
  <2>2. CASE nxtStack[src] = <<>>
    <3>1. <<>> \in Seq(Edge)
      OBVIOUS
    <3>2. ToSet(<<>>) = {}
      BY DEF ToSet
    <3> QED
      BY <2>2, <3>1, <3>2
  <2>3. CASE nxtStack[src] = Leaving(src)
    BY <1>7, <2>3
  <2> QED
    BY <2>1, <2>2, <2>3
<1>9. left \in Seq(Edge) /\ ToSet(left) = ToSet(nxtStack[src])
  BY <1>4, <1>8, ToSetReverse
<1> HIDE DEF left
<1>10. to \in Seq(Vertex) /\ ToSet(to) = {e.dst : e \in ToSet(left)}
  <2> DEFINE f == [e \in Edge |-> e.dst]
  <2>1. f \in [Edge -> Vertex]
    BY DEF Edge
  <2>2. \A k \in DOMAIN left : left[k] \in Edge
    BY <1>9, ToSetFacts, ElementOfSeq
  <2>3. to = Mapped(f, left)
    BY <2>2 DEF Mapped
  <2>4. \A e \in ToSet(left) : f[e] = e.dst
    BY <1>5, <1>8, <1>9
  <2> HIDE DEF f, to
  <2>0. left \in Seq(Edge)
    BY <1>9
  <2>5. to \in Seq(Vertex) /\ ToSet(to) = {f[e] : e \in ToSet(left)}
    <3>1. IsMapped(Mapped(f, left), f, left, Vertex)
      BY <2>0, <2>1, MappedList, Zenon
    <3> QED
      BY <2>3, <3>1 DEF IsMapped
  <2> QED
    BY <2>4, <2>5
<1> HIDE DEF to
<1>11. \A v : Contains(to, v) <=> \E e \in ToSet(left) : e.dst = v
  <2>1. \A v : Contains(to, v) <=> v \in ToSet(to)
    BY <1>10, ToSetFacts
  <2> QED
    BY <1>10, <2>1
<1>12. /\ Kept(to, Vertex \ ToSet(End_list)) \in Seq(Vertex)
       /\ ToSet(Kept(to, Vertex \ ToSet(End_list))) = ToSet(to) \ ToSet(End_list)
  <2> DEFINE T == Vertex \ ToSet(End_list)
  <2>0. to \in Seq(Vertex)
    BY <1>10
  <2>1. Kept(to, T) \in Seq(Vertex) /\ ToSet(Kept(to, T)) = ToSet(to) \intersect T
    <3> HIDE DEF T
    <3> QED
      BY <2>0, KeptFacts, SMT
  <2>2. ToSet(to) \subseteq Vertex
    BY <1>10, ToSetFacts
  <2> QED
    BY <2>1, <2>2
<1>13. /\ Begin_list' \in Seq(Vertex)
       /\ ToSet(Begin_list')
            = rest \union ({e.dst : e \in ToSet(nxtStack[src])} \ ToSet(End_list))
  <2> DEFINE s == Front(Begin_list)
             t == Kept(to, Vertex \ ToSet(End_list))
  <2>0. Begin_list' = s \o t /\ s \in Seq(Vertex) /\ t \in Seq(Vertex) /\ rest = ToSet(s)
    BY <1>1, <1>2, <1>12 DEF rest
  <2>1. Begin_list' \in Seq(Vertex) /\ ToSet(Begin_list') = rest \union ToSet(t)
    <3> HIDE DEF s, t
    <3> QED
      BY <2>0, ToSetConcat
  <2> QED
    BY <1>9, <1>10, <1>12, <2>1
<1>14. ASSUME NEW e \in ToSet(left)
       PROVE  e.dst \in Vertex /\ edge(e.dst) = e
  <2>1. edge(e.dst) \in ToSet(left) /\ edge(e.dst).dst = e.dst
    BY DEF edge
  <2> HIDE DEF edge
  <2> QED
    BY <1>5, <1>6, <1>8, <1>9, <2>1
<1>15. \A x, y \in Int : Max({x, y}) = Larger(x, y)
  BY MaxOfTwo DEF Larger
<1>16. ASSUME NEW e \in ToSet(left)
       PROVE  /\ ASAP_Time(vertexTime[src], e)
                   = Larger(vertexTime[src] + e.weight, vertexTime[e.dst])
              /\ ASAP_Time(vertexTime[src], e) \in Nat
  <2> DEFINE x == vertexTime[src]
             y == vertexTime[e.dst]
             w == e.weight
  <2>1. x \in Nat /\ y \in Nat /\ w \in Nat
    BY <1>2, <1>6, <1>8, <1>9
  <2>2. ASAP_Time(x, e) = Max({x + w, y})
    BY Zenon DEF ASAP_Time
  <2> HIDE DEF x, y, w
  <2>3. x + w \in Int /\ y \in Int
    BY <2>1
  <2>4. ASAP_Time(x, e) = Larger(x + w, y)
    BY <1>15, <2>2, <2>3
  <2>5. Larger(x + w, y) \in Nat
    BY <2>1 DEF Larger
  <2> QED
    BY <2>4, <2>5 DEF x, y, w
<1>17. ASSUME NEW e \in ToSet(left)
       PROVE  vertexTime'[e.dst] = Larger(vertexTime[src] + e.weight, vertexTime[e.dst])
  <2>1. Contains(to, e.dst)
    BY <1>11
  <2>2. e.dst \in Vertex /\ edge(e.dst) = e
    BY <1>14
  <2> HIDE DEF edge
  <2>3. vertexTime'[e.dst] = ASAP_Time(vertexTime[src], edge(e.dst))
    BY <1>1, <2>1, <2>2
  <2> QED
    BY <1>16, <2>2, <2>3
<1>18. \A v \in Vertex :
         (\A e \in ToSet(left) : e.dst # v) => vertexTime'[v] = vertexTime[v]
  <2> HIDE DEF edge
  <2> QED
    BY <1>1, <1>11
<1>19. vertexTime' \in [Vertex -> Nat]
  <2> DEFINE new == [v \in Vertex |->
               IF Contains(to, v) THEN ASAP_Time(vertexTime[src], edge(v))
               ELSE vertexTime[v]]
  <2>1. ASSUME NEW v \in Vertex
        PROVE  new[v] \in Nat
    <3>1. CASE Contains(to, v)
      <4>1. PICK e \in ToSet(left) : e.dst = v
        BY <1>11, <3>1
      <4>2. edge(v) = e
        BY <1>14, <4>1
      <4> HIDE DEF edge
      <4>3. new[v] = ASAP_Time(vertexTime[src], e)
        BY <3>1, <4>2
      <4> QED
        BY <1>16, <4>3
    <3>2. CASE ~Contains(to, v)
      BY <3>2
    <3> QED
      BY <3>1, <3>2
  <2>2. DOMAIN new = Vertex /\ new = [v \in Vertex |-> new[v]] /\ new = vertexTime'
    BY <1>1
  <2> HIDE DEF new
  <2>3. new \in [Vertex -> Nat]
    BY <2>1, <2>2
  <2> QED
    BY <2>2, <2>3
<1>20. AsapTook(src, rest)
  BY <1>1, <1>2, <1>4, <1>9, <1>13, <1>17, <1>18, <1>19 DEF AsapTook
<1> QED
  BY <1>20, Zenon

(* What a step of the walk back to the begins does: src is taken, with the edges  *)
(* that it has left, whose sources get on the list.                           *)
AlapTook(src, rest) ==
  LET left == ToSet(preStack[src])
  IN  /\ src \in Vertex /\ ToSet(End_list) = rest \union {src}
      /\ End_list' \in Seq(Vertex)
      /\ ToSet(End_list') = rest \union ({e.src : e \in left} \ ToSet(Begin_list))
      /\ preStack' = [preStack EXCEPT ![src] = <<>>]
      /\ vertexTime' \in [Vertex -> Nat]
      /\ \A e \in left :
           vertexTime'[e.src] = Larger(vertexTime[src] - e.weight, vertexTime[e.src])
      /\ \A v \in Vertex : (\A e \in left : e.src # v) => vertexTime'[v] = vertexTime[v]

(* One vertex of the walk back, in terms of sets.                          *)
LEMMA AlapStep ==
  ASSUME run_time_weighted_ALAP, edges \in TimingGraphs, End_list \in Seq(Vertex),
         Stacks(preStack, AllEntering), vertexTime \in [Vertex -> Nat],
         ToSet(End_list) \intersect ToSet(Begin_list) = {},
         ToSet(Begin_list) \subseteq Vertex, Begin_list \in Seq(Vertex)
  PROVE  \E src, rest : AlapTook(src, rest)
<1> DEFINE src  == Last(End_list)
           full == Refilled(preStack, src, Begin_list, AllEntering)
           left == Reverse(full[src])
           to   == [k \in DOMAIN left |-> left[k].src]
           rest == ToSet(Front(End_list))
           edge(v) == CHOOSE e \in ToSet(left) : e.src = v
<1>1. /\ End_list # <<>>
      /\ vertexTime' = [v \in Vertex |->
           IF Contains(to, v) THEN ALAP_Time(vertexTime[src], edge(v)) ELSE vertexTime[v]]
      /\ preStack' = [full EXCEPT ![src] = <<>>]
      /\ End_list' = Front(End_list) \o Kept(to, Vertex \ ToSet(Begin_list))
  BY DEF run_time_weighted_ALAP, AllEntering
<1>2. /\ src \in Vertex /\ Front(End_list) \in Seq(Vertex)
      /\ ToSet(End_list) = rest \union {src}
  BY <1>1, LastAndFront
<1>3. src \notin ToSet(Begin_list)
  BY <1>2
<1>4. full = preStack
  <2>1. ~Contains(Begin_list, src)
    BY <1>3, ToSetFacts
  <2> QED
    BY <2>1 DEF Refilled
<1> HIDE DEF src, full, rest, edge
<1>5. E \subseteq Edge /\ \A e, f \in E : e.dst = f.dst /\ e.src = f.src => e = f
  BY GraphFacts
<1>6. \A e \in E : e.dst \in Vertex /\ e.src \in Vertex /\ e.weight \in Nat
  BY <1>5 DEF Edge
<1>7. Entering(src) \in Seq(Edge) /\ ToSet(Entering(src)) = {e \in E : e.dst = src}
  BY <1>2, StackFacts
<1>8. /\ preStack[src] \in Seq(Edge)
      /\ \A e \in ToSet(preStack[src]) : e \in E /\ e.dst = src
  <2>1. preStack[src] = <<>> \/ preStack[src] = Entering(src)
    BY <1>2 DEF Stacks, AllEntering
  <2>2. CASE preStack[src] = <<>>
    <3>1. <<>> \in Seq(Edge)
      OBVIOUS
    <3>2. ToSet(<<>>) = {}
      BY DEF ToSet
    <3> QED
      BY <2>2, <3>1, <3>2
  <2>3. CASE preStack[src] = Entering(src)
    BY <1>7, <2>3
  <2> QED
    BY <2>1, <2>2, <2>3
<1>9. left \in Seq(Edge) /\ ToSet(left) = ToSet(preStack[src])
  BY <1>4, <1>8, ToSetReverse
<1> HIDE DEF left
<1>10. to \in Seq(Vertex) /\ ToSet(to) = {e.src : e \in ToSet(left)}
  <2> DEFINE f == [e \in Edge |-> e.src]
  <2>1. f \in [Edge -> Vertex]
    BY DEF Edge
  <2>2. \A k \in DOMAIN left : left[k] \in Edge
    BY <1>9, ToSetFacts, ElementOfSeq
  <2>3. to = Mapped(f, left)
    BY <2>2 DEF Mapped
  <2>4. \A e \in ToSet(left) : f[e] = e.src
    BY <1>5, <1>8, <1>9
  <2> HIDE DEF f, to
  <2>0. left \in Seq(Edge)
    BY <1>9
  <2>5. to \in Seq(Vertex) /\ ToSet(to) = {f[e] : e \in ToSet(left)}
    <3>1. IsMapped(Mapped(f, left), f, left, Vertex)
      BY <2>0, <2>1, MappedList, Zenon
    <3> QED
      BY <2>3, <3>1 DEF IsMapped
  <2> QED
    BY <2>4, <2>5
<1> HIDE DEF to
<1>11. \A v : Contains(to, v) <=> \E e \in ToSet(left) : e.src = v
  <2>1. \A v : Contains(to, v) <=> v \in ToSet(to)
    BY <1>10, ToSetFacts
  <2> QED
    BY <1>10, <2>1
<1>12. /\ Kept(to, Vertex \ ToSet(Begin_list)) \in Seq(Vertex)
       /\ ToSet(Kept(to, Vertex \ ToSet(Begin_list))) = ToSet(to) \ ToSet(Begin_list)
  <2> DEFINE T == Vertex \ ToSet(Begin_list)
  <2>0. to \in Seq(Vertex)
    BY <1>10
  <2>1. Kept(to, T) \in Seq(Vertex) /\ ToSet(Kept(to, T)) = ToSet(to) \intersect T
    <3> HIDE DEF T
    <3> QED
      BY <2>0, KeptFacts, SMT
  <2>2. ToSet(to) \subseteq Vertex
    BY <1>10, ToSetFacts
  <2> QED
    BY <2>1, <2>2
<1>13. /\ End_list' \in Seq(Vertex)
       /\ ToSet(End_list')
            = rest \union ({e.src : e \in ToSet(preStack[src])} \ ToSet(Begin_list))
  <2> DEFINE s == Front(End_list)
             t == Kept(to, Vertex \ ToSet(Begin_list))
  <2>0. End_list' = s \o t /\ s \in Seq(Vertex) /\ t \in Seq(Vertex) /\ rest = ToSet(s)
    BY <1>1, <1>2, <1>12 DEF rest
  <2>1. End_list' \in Seq(Vertex) /\ ToSet(End_list') = rest \union ToSet(t)
    <3> HIDE DEF s, t
    <3> QED
      BY <2>0, ToSetConcat
  <2> QED
    BY <1>9, <1>10, <1>12, <2>1
<1>14. ASSUME NEW e \in ToSet(left)
       PROVE  e.src \in Vertex /\ edge(e.src) = e
  <2>1. edge(e.src) \in ToSet(left) /\ edge(e.src).src = e.src
    BY DEF edge
  <2> HIDE DEF edge
  <2> QED
    BY <1>5, <1>6, <1>8, <1>9, <2>1
<1>15. \A x, y \in Int : Max({x, y}) = Larger(x, y)
  BY MaxOfTwo DEF Larger
<1>16. ASSUME NEW e \in ToSet(left)
       PROVE  /\ ALAP_Time(vertexTime[src], e)
                   = Larger(vertexTime[src] - e.weight, vertexTime[e.src])
              /\ ALAP_Time(vertexTime[src], e) \in Nat
  <2> DEFINE x == vertexTime[src]
             y == vertexTime[e.src]
             w == e.weight
  <2>1. x \in Nat /\ y \in Nat /\ w \in Nat
    BY <1>2, <1>6, <1>8, <1>9
  <2>2. ALAP_Time(x, e) = Max({x - w, y})
    BY Zenon DEF ALAP_Time
  <2> HIDE DEF x, y, w
  <2>3. x - w \in Int /\ y \in Int
    BY <2>1
  <2>4. ALAP_Time(x, e) = Larger(x - w, y)
    BY <1>15, <2>2, <2>3
  <2>5. Larger(x - w, y) \in Nat
    BY <2>1 DEF Larger
  <2> QED
    BY <2>4, <2>5 DEF x, y, w
<1>17. ASSUME NEW e \in ToSet(left)
       PROVE  vertexTime'[e.src] = Larger(vertexTime[src] - e.weight, vertexTime[e.src])
  <2>1. Contains(to, e.src)
    BY <1>11
  <2>2. e.src \in Vertex /\ edge(e.src) = e
    BY <1>14
  <2> HIDE DEF edge
  <2>3. vertexTime'[e.src] = ALAP_Time(vertexTime[src], edge(e.src))
    BY <1>1, <2>1, <2>2
  <2> QED
    BY <1>16, <2>2, <2>3
<1>18. \A v \in Vertex :
         (\A e \in ToSet(left) : e.src # v) => vertexTime'[v] = vertexTime[v]
  <2> HIDE DEF edge
  <2> QED
    BY <1>1, <1>11
<1>19. vertexTime' \in [Vertex -> Nat]
  <2> DEFINE new == [v \in Vertex |->
               IF Contains(to, v) THEN ALAP_Time(vertexTime[src], edge(v))
               ELSE vertexTime[v]]
  <2>1. ASSUME NEW v \in Vertex
        PROVE  new[v] \in Nat
    <3>1. CASE Contains(to, v)
      <4>1. PICK e \in ToSet(left) : e.src = v
        BY <1>11, <3>1
      <4>2. edge(v) = e
        BY <1>14, <4>1
      <4> HIDE DEF edge
      <4>3. new[v] = ALAP_Time(vertexTime[src], e)
        BY <3>1, <4>2
      <4> QED
        BY <1>16, <4>3
    <3>2. CASE ~Contains(to, v)
      BY <3>2
    <3> QED
      BY <3>1, <3>2
  <2>2. DOMAIN new = Vertex /\ new = [v \in Vertex |-> new[v]] /\ new = vertexTime'
    BY <1>1
  <2> HIDE DEF new
  <2>3. new \in [Vertex -> Nat]
    BY <2>1, <2>2
  <2> QED
    BY <2>2, <2>3
<1>20. AlapTook(src, rest)
  BY <1>1, <1>2, <1>4, <1>9, <1>13, <1>17, <1>18, <1>19 DEF AlapTook
<1> QED
  BY <1>20, Zenon
-----------------------------------------------------------------------------
(* The earliest time along one edge.                                       *)
LEMMA EarliestEdges ==
  ASSUME edges \in TimingGraphs
  PROVE  /\ \A v \in Vertex :
              /\ Earliest[v] \in Nat
              /\ \/ Earliest[v] = 0
                 \/ \E e \in E : e.dst = v /\ Earliest[v] = Earliest[e.src] + e.weight
         /\ \A e \in E : Earliest[e.dst] >= Earliest[e.src] + e.weight
<1> DEFINE time == Earliest
<1>1. \A v \in Vertex : time[v] = Max(TimeOver(time, v)) /\ time[v] \in Nat
  BY EarliestFacts
<1>2. \A e \in E : e.src \in Vertex /\ e.dst \in Vertex
  BY GraphFacts DEF Edge
<1> HIDE DEF time
<1>3. ASSUME NEW v \in Vertex
      PROVE  time[v] \in TimeOver(time, v) /\ \A x \in TimeOver(time, v) : time[v] >= x
  <2>1. \A e \in E : e.dst = v => time[e.src] \in Nat
    BY <1>1, <1>2
  <2>2. /\ Max(TimeOver(time, v)) \in TimeOver(time, v)
        /\ \A x \in TimeOver(time, v) : Max(TimeOver(time, v)) >= x
    BY <2>1, TimeOverFacts
  <2> QED
    BY <1>1, <2>2
<1>4. \A v \in Vertex : TimeOver(time, v)
         = {0} \union {time[e.src] + e.weight : e \in {f \in E : f.dst = v}}
  BY StackFacts DEF TimeOver
<1>5. ASSUME NEW v \in Vertex
      PROVE  \/ time[v] = 0
             \/ \E e \in E : e.dst = v /\ time[v] = time[e.src] + e.weight
  BY <1>3, <1>4
<1>6. ASSUME NEW e \in E
      PROVE  time[e.dst] >= time[e.src] + e.weight
  <2>1. time[e.src] + e.weight \in TimeOver(time, e.dst)
    BY <1>2, <1>4
  <2> QED
    BY <1>2, <1>3, <2>1
<1> QED
  BY <1>1, <1>5, <1>6 DEF time

(* One way to the vertex, and to every vertex before it.                   *)
Tree(v) == \A u \in Ancestors[v] \union {v} : Len(Entering(u)) <= 1

(* Before a tree is a tree, and a vertex of it is entered once.            *)
LEMMA TreeFacts ==
  ASSUME edges \in TimingGraphs
  PROVE  \A e \in E :
           /\ Tree(e.dst) => Tree(e.src)
           /\ Tree(e.dst) => \A f \in E : f.dst = e.dst => f = e
<1> SUFFICES ASSUME NEW e \in E, Tree(e.dst)
             PROVE  Tree(e.src) /\ \A f \in E : f.dst = e.dst => f = e
  OBVIOUS
<1>1. {e.src} \union Ancestors[e.src] \subseteq Ancestors[e.dst]
  BY AncestorsFacts
<1>2. Tree(e.src)
  BY <1>1 DEF Tree
<1>3. e.dst \in Vertex
  BY GraphFacts DEF Edge
<1>4. Len(Entering(e.dst)) <= 1
  BY DEF Tree
<1>5. /\ Entering(e.dst) \in Seq(Edge)
      /\ ToSet(Entering(e.dst)) = {f \in E : f.dst = e.dst}
  BY <1>3, StackFacts
<1>6. \A x, y \in ToSet(Entering(e.dst)) : x = y
  BY <1>4, <1>5, OneElement
<1> QED
  BY <1>2, <1>5, <1>6

(* One way from the vertex, and from every vertex behind it.               *)
Chain(v) == \A u \in Descendants[v] \union {v} : Len(Leaving(u)) <= 1

(* Behind a chain is a chain, and a vertex of it is left once.             *)
LEMMA ChainFacts ==
  ASSUME edges \in TimingGraphs
  PROVE  \A e \in E :
           /\ Chain(e.src) => Chain(e.dst)
           /\ Chain(e.src) => \A f \in E : f.src = e.src => f = e
<1> SUFFICES ASSUME NEW e \in E, Chain(e.src)
             PROVE  Chain(e.dst) /\ \A f \in E : f.src = e.src => f = e
  OBVIOUS
<1>1. {e.dst} \union Descendants[e.dst] \subseteq Descendants[e.src]
  BY DescendantsFacts
<1>2. Chain(e.dst)
  BY <1>1 DEF Chain
<1>3. e.src \in Vertex
  BY GraphFacts DEF Edge
<1>4. Len(Leaving(e.src)) <= 1
  BY DEF Chain
<1>5. /\ Leaving(e.src) \in Seq(Edge)
      /\ ToSet(Leaving(e.src)) = {f \in E : f.src = e.src}
  BY <1>3, StackFacts
<1>6. \A x, y \in ToSet(Leaving(e.src)) : x = y
  BY <1>4, <1>5, OneElement
<1> QED
  BY <1>2, <1>5, <1>6

(* The latest time along one edge.                                         *)
LEMMA LatestEdges ==
  ASSUME edges \in TimingGraphs, ASAP_list \in [Vertex -> Nat]
  PROVE  /\ \A v \in Vertex : (\A e \in E : e.src # v) => LatestOnChain[v] = ASAP_list[v]
         /\ \A e \in E : Chain(e.src) =>
              LatestOnChain[e.src] = Max({0, LatestOnChain[e.dst] - e.weight})
<1> DEFINE time == LatestOnChain
<1>1. \A v \in Vertex : time[v] = LatestAhead(time, v)
  BY LatestFacts
<1> HIDE DEF time
<1>2. \A v \in Vertex : Leaving(v) \in Seq(Edge) /\ ToSet(Leaving(v)) = {e \in E : e.src = v}
  BY StackFacts
<1>3. \A v \in Vertex : Leaving(v) = <<>> <=> ToSet(Leaving(v)) = {}
  BY <1>2, ToSetFacts
<1>4. ASSUME NEW v \in Vertex, \A e \in E : e.src # v
      PROVE  time[v] = ASAP_list[v]
  <2>1. Leaving(v) = <<>>
    BY <1>2, <1>3, <1>4
  <2> QED
    BY <1>1, <2>1 DEF LatestAhead
<1>5. ASSUME NEW e \in E, Chain(e.src)
      PROVE  time[e.src] = Max({0, time[e.dst] - e.weight})
  <2>1. e.src \in Vertex
    BY GraphFacts DEF Edge
  <2>2. Len(Leaving(e.src)) <= 1
    BY <1>5 DEF Chain
  <2>3. e \in ToSet(Leaving(e.src)) /\ Leaving(e.src) # <<>>
    BY <1>2, <1>3, <2>1
  <2>4. Leaving(e.src)[1] = e
    <3>1. Leaving(e.src)[1] \in ToSet(Leaving(e.src))
      BY <1>2, <2>1, <2>2, <2>3, OneElement
    <3>2. \A x, y \in ToSet(Leaving(e.src)) : x = y
      BY <1>2, <2>1, <2>2, OneElement
    <3> QED
      BY <2>3, <3>1, <3>2
  <2> QED
    BY <1>1, <2>1, <2>3, <2>4 DEF LatestAhead
<1> QED
  BY <1>4, <1>5 DEF time
-----------------------------------------------------------------------------
(* The walk to the ends: no time is too late, what has been taken behind a *)
(* tree counts in full, what is on the list has been reached, and what is  *)
(* not yet taken is on the list or behind something not yet taken.         *)
AsapTypes ==
  /\ Begin_list \in Seq(Vertex)
  /\ nxtStack \in [Vertex -> Seq(Edge)] /\ Stacks(nxtStack, AllLeaving)
  /\ vertexTime \in [Vertex -> Nat]
  /\ End_list \in Seq(Vertex) /\ ToSet(End_list) = Destinations \ Sources
  /\ ToSet(Begin_list) \intersect ToSet(End_list) = {}

NotLate(time) == \A v \in Vertex : time[v] <= Earliest[v]

Counted ==
  \A e \in E : nxtStack[e.src] = <<>> /\ Tree(e.src) =>
    vertexTime[e.dst] >= Earliest[e.src] + e.weight

Reached ==
  \A v \in ToSet(Begin_list) : v \in Destinations =>
    \E e \in E : e.dst = v /\ nxtStack[e.src] = <<>>

Waiting ==
  \A v \in Vertex : nxtStack[v] # <<>> =>
    \/ v \in ToSet(Begin_list)
    \/ \E e \in E : e.dst = v /\ nxtStack[e.src] # <<>>

AsapInv == AsapTypes /\ NotLate(vertexTime) /\ Counted /\ Reached /\ Waiting

(* The start of a walk. *)
AsapStart ==
  /\ Begin_list = begins /\ End_list = ends
  /\ nxtStack = AllLeaving /\ vertexTime = Unset

EndsListed ==
  /\ begins \in Seq(Vertex) /\ ToSet(begins) = Sources \ Destinations
  /\ ends \in Seq(Vertex) /\ ToSet(ends) = Destinations \ Sources

(* The vertices of an edge.                                                *)
LEMMA EdgeFacts ==
  ASSUME edges \in TimingGraphs
  PROVE  \A e \in E : /\ e.src \in Vertex /\ e.dst \in Vertex /\ e.weight \in Nat
                      /\ e.src \in Sources /\ e.dst \in Destinations
<1>1. E \subseteq Edge
  BY GraphFacts
<1> QED
  BY <1>1 DEF Edge, E, Sources, Destinations

(* The stacks that run_time_weighted_test fills.                           *)
LEMMA FullStacks ==
  ASSUME edges \in TimingGraphs
  PROVE  /\ AllLeaving \in [Vertex -> Seq(Edge)] /\ AllEntering \in [Vertex -> Seq(Edge)]
         /\ \A v \in Vertex : AllLeaving[v] # <<>> <=> \E e \in E : e.src = v
         /\ \A v \in Vertex : AllEntering[v] # <<>> <=> \E e \in E : e.dst = v
<1>1. \A v \in Vertex :
        /\ Leaving(v) \in Seq(Edge) /\ ToSet(Leaving(v)) = {e \in E : e.src = v}
        /\ Entering(v) \in Seq(Edge) /\ ToSet(Entering(v)) = {e \in E : e.dst = v}
  BY StackFacts
<1>2. \A v \in Vertex : /\ Leaving(v) = <<>> <=> ToSet(Leaving(v)) = {}
                        /\ Entering(v) = <<>> <=> ToSet(Entering(v)) = {}
  BY <1>1, ToSetFacts
<1>3. \A v \in Vertex : Leaving(v) # <<>> <=> \E e \in E : e.src = v
  BY <1>1, <1>2
<1>4. \A v \in Vertex : Entering(v) # <<>> <=> \E e \in E : e.dst = v
  BY <1>1, <1>2
<1> QED
  BY <1>1, <1>3, <1>4 DEF AllLeaving, AllEntering

(* The walk to the ends starts with its invariant ...                      *)
LEMMA AsapStarts ==
  ASSUME edges \in TimingGraphs, EndsListed, AsapStart
  PROVE  AsapInv
<1>1. /\ AllLeaving \in [Vertex -> Seq(Edge)]
      /\ \A v \in Vertex : AllLeaving[v] # <<>> <=> \E e \in E : e.src = v
  BY FullStacks
<1>2. \A v \in Vertex : Earliest[v] \in Nat
  BY EarliestEdges
<1>3. \A e \in E : /\ e.src \in Vertex /\ e.dst \in Vertex
                   /\ e.src \in Sources /\ e.dst \in Destinations
  BY EdgeFacts
<1>4. vertexTime \in [Vertex -> Nat] /\ \A v \in Vertex : vertexTime[v] = 0
  BY DEF AsapStart, Unset
<1>5. AsapTypes
  BY <1>1, <1>4 DEF AsapTypes, AsapStart, EndsListed, Stacks
<1>6. NotLate(vertexTime)
  <2>1. \A v \in Vertex : vertexTime[v] = 0 /\ Earliest[v] \in Nat
    BY <1>2, <1>4
  <2> QED
    BY <2>1 DEF NotLate
<1>7. \A e \in E : nxtStack[e.src] # <<>>
  BY <1>1, <1>3 DEF AsapStart
<1>8. Counted
  BY <1>7 DEF Counted
<1>9. Reached
  BY DEF Reached, AsapStart, EndsListed
<1>10. Waiting
  <2> SUFFICES ASSUME NEW v \in Vertex, nxtStack[v] # <<>>, v \notin ToSet(Begin_list)
               PROVE  \E e \in E : e.dst = v /\ nxtStack[e.src] # <<>>
    BY DEF Waiting
  <2>1. v \in Sources
    BY <1>1, <1>3 DEF AsapStart
  <2>2. v \in Destinations
    BY <2>1 DEF AsapStart, EndsListed
  <2>3. PICK e \in E : e.dst = v
    BY <2>2 DEF Destinations, E
  <2> QED
    BY <1>7, <2>3
<1> QED
  BY <1>5, <1>6, <1>8, <1>9, <1>10 DEF AsapInv

(* ... keeps it ...                                                        *)
LEMMA AsapKeeps ==
  ASSUME edges \in TimingGraphs, AsapInv, run_time_weighted_ASAP
  PROVE  AsapInv'
<1> USE DEF AsapInv
<1>1. PICK src, rest : AsapTook(src, rest)
  <2>1. ToSet(End_list) \subseteq Vertex
    BY ToSetFacts DEF AsapTypes
  <2> QED
    BY <2>1, AsapStep, Zenon DEF AsapTypes
<1>2. edges' = edges /\ End_list' = End_list
  BY DEF run_time_weighted_ASAP
<1>3. /\ Earliest' = Earliest /\ Ancestors' = Ancestors
      /\ Sources' = Sources /\ Destinations' = Destinations /\ E' = E
      /\ \A v : Leaving(v)' = Leaving(v) /\ Entering(v)' = Entering(v)
  BY <1>2, GraphKept
<1>4. \A v : Tree(v)' <=> Tree(v)
  BY <1>3 DEF Tree
<1>5. AllLeaving' = AllLeaving
  BY <1>3 DEF AllLeaving
<1>6. \A e \in E : /\ e.src \in Vertex /\ e.dst \in Vertex /\ e.weight \in Nat
                   /\ e.src \in Sources /\ e.dst \in Destinations
  BY EdgeFacts
<1> DEFINE left == ToSet(nxtStack[src])
<1>7. /\ src \in Vertex /\ ToSet(Begin_list) = rest \union {src}
      /\ Begin_list' \in Seq(Vertex)
      /\ ToSet(Begin_list') = rest \union ({e.dst : e \in left} \ ToSet(End_list))
      /\ nxtStack' = [nxtStack EXCEPT ![src] = <<>>]
      /\ vertexTime' \in [Vertex -> Nat]
      /\ \A e \in left :
           vertexTime'[e.dst] = Larger(vertexTime[src] + e.weight, vertexTime[e.dst])
      /\ \A v \in Vertex : (\A e \in left : e.dst # v) => vertexTime'[v] = vertexTime[v]
  BY <1>1 DEF AsapTook
<1>8. \A v \in Vertex : nxtStack'[v] = IF v = src THEN <<>> ELSE nxtStack[v]
  BY <1>7 DEF AsapTypes
<1>9. /\ nxtStack[src] # <<>> => left = {e \in E : e.src = src}
      /\ left \subseteq {e \in E : e.src = src}
  <2>1. nxtStack[src] = <<>> \/ nxtStack[src] = Leaving(src)
    BY <1>7 DEF AsapTypes, Stacks, AllLeaving
  <2>2. ToSet(Leaving(src)) = {e \in E : e.src = src}
    BY <1>7, StackFacts
  <2>3. ToSet(<<>>) = {}
    BY DEF ToSet
  <2> QED
    BY <2>1, <2>2, <2>3
<1> HIDE DEF left
<1>10. AsapTypes'
  <2>1. nxtStack' \in [Vertex -> Seq(Edge)]
    <3>1. <<>> \in Seq(Edge)
      OBVIOUS
    <3> QED
      BY <1>7, <3>1 DEF AsapTypes
  <2>2. Stacks(nxtStack, AllLeaving)'
    BY <1>5, <1>8 DEF AsapTypes, Stacks
  <2>3. ToSet(Begin_list') \intersect ToSet(End_list) = {}
    BY <1>7 DEF AsapTypes
  <2>4. End_list' \in Seq(Vertex) /\ ToSet(End_list') = (Destinations \ Sources)'
    BY <1>2, <1>3 DEF AsapTypes
  <2> QED
    BY <1>2, <1>7, <2>1, <2>2, <2>3, <2>4 DEF AsapTypes
<1>11. \A v \in Vertex : /\ vertexTime[v] \in Nat /\ vertexTime'[v] \in Nat
                         /\ vertexTime[v] <= Earliest[v] /\ Earliest[v] \in Nat
  BY <1>7, EarliestEdges DEF AsapTypes, NotLate
<1>12. ASSUME NEW v \in Vertex
       PROVE  vertexTime'[v] <= Earliest[v] /\ vertexTime'[v] >= vertexTime[v]
  <2>1. CASE \A e \in left : e.dst # v
    <3>1. vertexTime'[v] = vertexTime[v]
      BY <1>7, <2>1
    <3> QED
      BY <1>11, <3>1
  <2>2. CASE \E e \in left : e.dst = v
    <3>1. PICK e \in left : e.dst = v
      BY <2>2
    <3>2. e \in E /\ e.src = src /\ e.weight \in Nat
      BY <1>6, <1>9
    <3> DEFINE x == vertexTime[src]
               y == vertexTime[v]
               z == vertexTime'[v]
               w == e.weight
    <3>3. z = Larger(x + w, y)
      BY <1>7, <3>1
    <3>4. x \in Nat /\ y \in Nat /\ w \in Nat /\ x <= Earliest[src] /\ y <= Earliest[v]
      BY <1>7, <1>11, <3>2
    <3>5. Earliest[v] >= Earliest[src] + w /\ Earliest[v] \in Nat /\ Earliest[src] \in Nat
      BY <1>7, <1>11, <3>1, <3>2, EarliestEdges
    <3> HIDE DEF x, y, z, w
    <3>6. z <= Earliest[v] /\ z >= y
      BY <3>3, <3>4, <3>5 DEF Larger
    <3> QED
      BY <3>6 DEF y, z
  <2> QED
    BY <2>1, <2>2
<1>13. NotLate(vertexTime)'
  BY <1>3, <1>12 DEF NotLate
<1>14. ASSUME Tree(src)
       PROVE  vertexTime[src] = Earliest[src]
  <2>1. CASE Earliest[src] = 0
    BY <1>7, <1>11, <2>1
  <2>2. CASE \E e \in E : e.dst = src /\ Earliest[src] = Earliest[e.src] + e.weight
    <3>1. PICK e \in E : e.dst = src /\ Earliest[src] = Earliest[e.src] + e.weight
      BY <2>2
    <3>2. src \in Destinations /\ src \in ToSet(Begin_list)
      BY <1>6, <1>7, <3>1
    <3>3. PICK f \in E : f.dst = src /\ nxtStack[f.src] = <<>>
      BY <3>2 DEF Reached
    <3>4. Tree(e.src) /\ f = e
      BY <1>14, <3>1, <3>3, TreeFacts
    <3>5. vertexTime[src] >= Earliest[src]
      BY <3>1, <3>3, <3>4 DEF Counted
    <3> QED
      BY <1>7, <1>11, <3>5
  <2> QED
    BY <1>7, <2>1, <2>2, EarliestEdges
<1>15. Counted'
  <2> SUFFICES ASSUME NEW e \in E, nxtStack'[e.src] = <<>>, Tree(e.src)
               PROVE  vertexTime'[e.dst] >= Earliest[e.src] + e.weight
    BY <1>3, <1>4 DEF Counted
  <2> DEFINE x == Earliest[e.src] + e.weight
  <2>1. /\ x \in Nat /\ vertexTime[e.dst] \in Nat /\ vertexTime'[e.dst] \in Nat
        /\ vertexTime'[e.dst] >= vertexTime[e.dst]
    BY <1>6, <1>11, <1>12
  <2>2. CASE nxtStack[e.src] = <<>>
    <3>1. vertexTime[e.dst] >= x
      BY <2>2 DEF Counted
    <3> HIDE DEF x
    <3>2. vertexTime'[e.dst] >= x
      BY <2>1, <3>1
    <3> QED
      BY <3>2 DEF x
  <2>3. CASE nxtStack[e.src] # <<>>
    <3>1. e.src = src
      BY <1>6, <1>8, <2>3
    <3>2. e \in left
      BY <1>9, <2>3, <3>1
    <3>3. vertexTime'[e.dst] = Larger(vertexTime[src] + e.weight, vertexTime[e.dst])
      BY <1>7, <3>2
    <3>4. vertexTime[src] + e.weight = x
      BY <1>14, <3>1
    <3> HIDE DEF x
    <3>5. vertexTime'[e.dst] >= x
      BY <2>1, <3>3, <3>4 DEF Larger
    <3> QED
      BY <3>5 DEF x
  <2> QED
    BY <2>2, <2>3
<1>16. Reached'
  <2> SUFFICES ASSUME NEW v \in ToSet(Begin_list'), v \in Destinations
               PROVE  \E e \in E : e.dst = v /\ nxtStack'[e.src] = <<>>
    BY <1>3 DEF Reached
  <2>1. CASE v \in rest
    <3>1. PICK e \in E : e.dst = v /\ nxtStack[e.src] = <<>>
      BY <1>7, <2>1 DEF Reached
    <3> QED
      BY <1>6, <1>8, <3>1
  <2>2. CASE \E e \in left : e.dst = v
    BY <1>6, <1>8, <1>9, <2>2
  <2> QED
    BY <1>7, <2>1, <2>2
<1>17. Waiting'
  <2> SUFFICES ASSUME NEW v \in Vertex, nxtStack'[v] # <<>>
               PROVE  \/ v \in ToSet(Begin_list')
                      \/ \E e \in E : e.dst = v /\ nxtStack'[e.src] # <<>>
    BY <1>3 DEF Waiting
  <2>1. v # src /\ nxtStack[v] # <<>>
    BY <1>8
  <2>2. CASE v \in ToSet(Begin_list)
    BY <1>7, <2>1, <2>2
  <2>3. CASE \E e \in E : e.dst = v /\ nxtStack[e.src] # <<>>
    <3>1. PICK e \in E : e.dst = v /\ nxtStack[e.src] # <<>>
      BY <2>3
    <3>2. CASE e.src # src
      BY <1>6, <1>8, <3>1, <3>2
    <3>3. CASE e.src = src
      <4>1. e \in left
        BY <1>9, <3>1, <3>3
      <4>2. v \notin ToSet(End_list)
        <5>1. AllLeaving[v] # <<>>
          BY <2>1 DEF AsapTypes, Stacks
        <5>2. PICK f \in E : f.src = v
          BY <5>1, FullStacks
        <5> QED
          BY <1>6, <5>2 DEF AsapTypes
      <4> QED
        BY <1>7, <3>1, <4>1, <4>2
    <3> QED
      BY <3>2, <3>3
  <2> QED
    BY <2>1, <2>2, <2>3 DEF Waiting
<1> QED
  BY <1>10, <1>13, <1>15, <1>16, <1>17

(* The times that the walk should end with.                                *)
AsapRight(time) ==
  /\ time \in [Vertex -> Nat] /\ NotLate(time)
  /\ \A v \in Vertex :
       (\A u \in Ancestors[v] : Len(Entering(u)) <= 1) => time[v] = Earliest[v]

(* ... and ends with the right times.                                      *)
LEMMA AsapEnds ==
  ASSUME edges \in TimingGraphs, AsapInv, Begin_list = <<>>
  PROVE  AsapRight(vertexTime)
<1> USE DEF AsapInv
<1>1. \A e \in E : e.src \in Vertex /\ e.dst \in Vertex /\ e.weight \in Nat
  BY EdgeFacts
<1>2. PICK rank \in [Vertex -> 1 .. Cardinality(Vertex)] : Ranked(rank)
  BY GraphFacts
<1>3. ToSet(Begin_list) = {}
  BY DEF ToSet
<1>4. \A v \in Vertex : nxtStack[v] = <<>>
  <2> DEFINE T == {rank[v] : v \in {w \in Vertex : nxtStack[w] # <<>>}}
  <2> SUFFICES ASSUME T # {} PROVE FALSE
    OBVIOUS
  <2>1. T \subseteq Nat
    <3>1. Cardinality(Vertex) \in Nat
      BY GraphFacts
    <3> QED
      BY <3>1
  <2>2. PICK x \in T : \A y \in T : x <= y
    <3> HIDE DEF T
    <3> QED
      BY <2>1, LeastElement
  <2>3. PICK v \in Vertex : nxtStack[v] # <<>> /\ x = rank[v]
    BY <2>2
  <2>4. PICK e \in E : e.dst = v /\ nxtStack[e.src] # <<>>
    BY <1>3, <2>3 DEF Waiting
  <2>5. rank[e.src] \in T /\ rank[e.src] < rank[v]
    BY <1>1, <1>2, <2>4 DEF Ranked
  <2>6. rank[e.src] \in Nat /\ x \in Nat /\ x <= rank[e.src] /\ rank[e.src] < x
    BY <2>1, <2>2, <2>3, <2>5
  <2> QED
    BY <2>6
<1>5. vertexTime \in [Vertex -> Nat] /\ NotLate(vertexTime)
  BY DEF AsapTypes
<1>6. ASSUME NEW v \in Vertex, \A u \in Ancestors[v] : Len(Entering(u)) <= 1
      PROVE  vertexTime[v] = Earliest[v]
  <2>1. vertexTime[v] \in Nat /\ Earliest[v] \in Nat /\ vertexTime[v] <= Earliest[v]
    BY <1>5, EarliestEdges DEF NotLate
  <2>2. CASE Earliest[v] = 0
    BY <2>1, <2>2
  <2>3. CASE \E e \in E : e.dst = v /\ Earliest[v] = Earliest[e.src] + e.weight
    <3>1. PICK e \in E : e.dst = v /\ Earliest[v] = Earliest[e.src] + e.weight
      BY <2>3
    <3>2. Tree(e.src)
      <4>1. {e.src} \union Ancestors[e.src] \subseteq Ancestors[v]
        BY <3>1, AncestorsFacts
      <4> QED
        BY <1>6, <4>1 DEF Tree
    <3>3. vertexTime[v] >= Earliest[v]
      BY <1>1, <1>4, <3>1, <3>2 DEF Counted
    <3> QED
      BY <2>1, <3>3
  <2> QED
    BY <2>2, <2>3, EarliestEdges
<1> QED
  BY <1>5, <1>6 DEF AsapRight
-----------------------------------------------------------------------------
(* The second walk to the ends repeats the first: a walk is determined by  *)
(* the lists and by the order of the edges.                                *)
LeftOver(list, stack, out, full) ==
  Reverse(Refilled(stack, Last(list), out, full)[Last(list)])

EndsOf(left) == [k \in DOMAIN left |-> left[k].dst]

NextList(list, stack, out, full) ==
  Front(list) \o Kept(EndsOf(LeftOver(list, stack, out, full)), Vertex \ ToSet(out))

NextStack(list, stack, out, full) ==
  [Refilled(stack, Last(list), out, full) EXCEPT ![Last(list)] = <<>>]

NextTime(list, stack, time, out, full) ==
  [v \in Vertex |->
     IF Contains(EndsOf(LeftOver(list, stack, out, full)), v)
     THEN Max({time[Last(list)]
                 + (CHOOSE e \in ToSet(LeftOver(list, stack, out, full)) : e.dst = v).weight,
               time[(CHOOSE e \in ToSet(LeftOver(list, stack, out, full)) : e.dst = v).dst]})
     ELSE time[v]]

(* s is <<list, stack, time>>. *)
NextState(s, out, full) ==
  <<NextList(s[1], s[2], out, full), NextStack(s[1], s[2], out, full),
    NextTime(s[1], s[2], s[3], out, full)>>

AsapState == <<Begin_list, nxtStack, vertexTime>>

(* A step of the walk is a function of the lists, stacks and times.        *)
LEMMA AsapIsNextState ==
  ASSUME run_time_weighted_ASAP
  PROVE  AsapState' = NextState(AsapState, End_list, AllLeaving) /\ Begin_list # <<>>
<1>1. Begin_list' = NextList(Begin_list, nxtStack, End_list, AllLeaving)
  BY Zenon DEF run_time_weighted_ASAP, NextList, EndsOf, LeftOver, AllLeaving
<1>2. nxtStack' = NextStack(Begin_list, nxtStack, End_list, AllLeaving)
  BY Zenon DEF run_time_weighted_ASAP, NextStack, AllLeaving
<1>3. vertexTime' = NextTime(Begin_list, nxtStack, vertexTime, End_list, AllLeaving)
  BY Zenon DEF run_time_weighted_ASAP, NextTime, EndsOf, LeftOver, AllLeaving, ASAP_Time
<1>4. Begin_list # <<>>
  BY DEF run_time_weighted_ASAP
<1>5. AsapState[1] = Begin_list /\ AsapState[2] = nxtStack /\ AsapState[3] = vertexTime
  BY DEF AsapState
<1>6. AsapState' = <<Begin_list', nxtStack', vertexTime'>>
  BY DEF AsapState
<1> HIDE DEF AsapState
<1> QED
  BY <1>1, <1>2, <1>3, <1>4, <1>5, <1>6 DEF NextState

IsRun(r, n, first, out, full) ==
  /\ n \in Nat \ {0} /\ r[1] = first
  /\ \A k \in 1 .. n - 1 : r[k][1] # <<>> /\ r[k + 1] = NextState(r[k], out, full)

Ran(s, first, out, full) == \E r, n : IsRun(r, n, first, out, full) /\ r[n] = s

(* The run through s ends in last, which has nothing on its list.          *)
RunsTo(s, last, first, out, full) ==
  \E r, n : /\ IsRun(r, n, first, out, full) /\ r[n] = last /\ last[1] = <<>>
            /\ \E k \in 1 .. n : r[k] = s

(* A run of no steps.                                                      *)
LEMMA RunStarts ==
  ASSUME NEW first, NEW out, NEW full
  PROVE  Ran(first, first, out, full)
<1> DEFINE r == [k \in {1} |-> first]
<1>1. r[1] = first
  OBVIOUS
<1>2. 1 \in Nat \ {0} /\ \A k \in 1 .. 1 - 1 : FALSE
  OBVIOUS
<1> HIDE DEF r
<1>3. IsRun(r, 1, first, out, full)
  BY <1>1, <1>2 DEF IsRun
<1> QED
  BY <1>1, <1>3, Zenon DEF Ran

(* A step makes a run longer.                                              *)
LEMMA RunGoesOn ==
  ASSUME NEW first, NEW out, NEW full, NEW s, s[1] # <<>>, Ran(s, first, out, full)
  PROVE  Ran(NextState(s, out, full), first, out, full)
<1>1. PICK r, n : IsRun(r, n, first, out, full) /\ r[n] = s
  BY Zenon DEF Ran
<1> DEFINE new == NextState(s, out, full)
           r2 == [k \in 1 .. n + 1 |-> IF k <= n THEN r[k] ELSE new]
<1>2. n \in Nat \ {0}
  BY <1>1 DEF IsRun
<1>3. /\ 1 \in 1 .. n + 1 /\ 1 <= n /\ n + 1 \in 1 .. n + 1 /\ ~(n + 1 <= n)
      /\ \A k \in 1 .. n : k \in 1 .. n + 1 /\ k <= n
      /\ n + 1 \in Nat \ {0} /\ n + 1 - 1 = n
  BY <1>2
<1> HIDE DEF new
<1>4. r2[n + 1] = new /\ \A k \in 1 .. n : r2[k] = r[k]
  BY <1>3
<1> HIDE DEF r2
<1>5. r2[1] = first
  BY <1>1, <1>2, <1>4 DEF IsRun
<1>6. ASSUME NEW k \in 1 .. n
      PROVE  r2[k][1] # <<>> /\ r2[k + 1] = NextState(r2[k], out, full)
  <2>1. CASE k = n
    BY <1>1, <1>4, <2>1 DEF new
  <2>2. CASE k # n
    <3>1. k \in 1 .. n - 1 /\ k + 1 \in 1 .. n
      BY <1>2, <2>2
    <3>2. r[k][1] # <<>> /\ r[k + 1] = NextState(r[k], out, full)
      BY <1>1, <3>1 DEF IsRun
    <3> QED
      BY <1>4, <3>1, <3>2
  <2> QED
    BY <2>1, <2>2
<1>7. IsRun(r2, n + 1, first, out, full)
  <2> DEFINE m == n + 1
  <2>1. m \in Nat \ {0} /\ \A k \in 1 .. m - 1 : k \in 1 .. n
    BY <1>2
  <2> HIDE DEF m
  <2>2. \A k \in 1 .. m - 1 : r2[k][1] # <<>> /\ r2[k + 1] = NextState(r2[k], out, full)
    BY <1>6, <2>1, Zenon
  <2>3. IsRun(r2, m, first, out, full)
    BY <1>5, <2>1, <2>2, Zenon DEF IsRun
  <2> QED
    BY <2>3 DEF m
<1> QED
  BY <1>4, <1>7, Zenon DEF Ran, new

(* A second run from the same start passes through the same states.        *)
LEMMA RunRepeats ==
  ASSUME NEW first, NEW last, NEW out, NEW full, Ran(last, first, out, full), last[1] = <<>>
  PROVE  /\ RunsTo(first, last, first, out, full)
         /\ \A s : RunsTo(s, last, first, out, full) =>
              /\ s[1] # <<>> => RunsTo(NextState(s, out, full), last, first, out, full)
              /\ s[1] = <<>> => s = last
<1>1. RunsTo(first, last, first, out, full)
  <2>1. PICK r, n : IsRun(r, n, first, out, full) /\ r[n] = last
    BY Zenon DEF Ran
  <2>2. n \in Nat \ {0} /\ r[1] = first
    BY <2>1 DEF IsRun
  <2>3. 1 \in 1 .. n
    BY <2>2
  <2> QED
    BY <2>1, <2>2, <2>3, Zenon DEF RunsTo
<1>2. ASSUME NEW s, RunsTo(s, last, first, out, full)
      PROVE  /\ s[1] # <<>> => RunsTo(NextState(s, out, full), last, first, out, full)
             /\ s[1] = <<>> => s = last
  <2>1. PICK r, n : /\ IsRun(r, n, first, out, full) /\ r[n] = last
                    /\ \E k \in 1 .. n : r[k] = s
    BY <1>2, Zenon DEF RunsTo
  <2>2. PICK k \in 1 .. n : r[k] = s
    BY <2>1
  <2>3. n \in Nat \ {0}
    BY <2>1 DEF IsRun
  <2>4. CASE k = n
    BY <2>1, <2>2, <2>4
  <2>5. CASE k # n
    <3>1. k \in 1 .. n - 1 /\ k + 1 \in 1 .. n
      BY <2>3, <2>5
    <3>2. s[1] # <<>> /\ r[k + 1] = NextState(s, out, full)
      BY <2>1, <2>2, <3>1 DEF IsRun
    <3> QED
      BY <2>1, <3>1, <3>2, Zenon DEF RunsTo
  <2> QED
    BY <2>4, <2>5
<1> QED
  BY <1>1, <1>2
-----------------------------------------------------------------------------
(* The walk back: what has been taken before a chain counts in full, and   *)
(* nothing else has changed a time before a chain.                         *)
AlapTypes ==
  /\ End_list \in Seq(Vertex)
  /\ preStack \in [Vertex -> Seq(Edge)] /\ Stacks(preStack, AllEntering)
  /\ vertexTime \in [Vertex -> Nat]
  /\ Begin_list \in Seq(Vertex) /\ ToSet(Begin_list) = Sources \ Destinations
  /\ ToSet(End_list) \intersect ToSet(Begin_list) = {}

LastTimes == \A v \in Vertex \ Sources : vertexTime[v] = ASAP_list[v]

CountedBack ==
  \A e \in E : Chain(e.src) =>
    vertexTime[e.src] = IF preStack[e.dst] = <<>> THEN LatestOnChain[e.src] ELSE 0

ReachedBack ==
  \A v \in ToSet(End_list) : v \in Sources =>
    \E e \in E : e.src = v /\ preStack[e.dst] = <<>>

WaitingBack ==
  \A v \in Vertex : preStack[v] # <<>> =>
    \/ v \in ToSet(End_list)
    \/ \E e \in E : e.src = v /\ preStack[e.dst] # <<>>

AlapInv == AlapTypes /\ LastTimes /\ CountedBack /\ ReachedBack /\ WaitingBack

AlapStart ==
  /\ Begin_list = begins /\ End_list = ends
  /\ preStack = AllEntering
  /\ vertexTime = [v \in Vertex |-> IF v \in ToSet(ends) THEN ASAP_list[v] ELSE 0]

(* The walk back starts with its invariant ...                             *)
LEMMA AlapStarts ==
  ASSUME edges \in TimingGraphs, EndsListed, AlapStart, AsapRight(ASAP_list)
  PROVE  AlapInv
<1>1. /\ AllEntering \in [Vertex -> Seq(Edge)]
      /\ \A v \in Vertex : AllEntering[v] # <<>> <=> \E e \in E : e.dst = v
  BY FullStacks
<1>2. ASAP_list \in [Vertex -> Nat] /\ \A v \in Vertex : ASAP_list[v] <= Earliest[v]
  BY DEF AsapRight, NotLate
<1>3. \A e \in E : /\ e.src \in Vertex /\ e.dst \in Vertex
                   /\ e.src \in Sources /\ e.dst \in Destinations
  BY EdgeFacts
<1>4. /\ vertexTime \in [Vertex -> Nat]
      /\ \A v \in Vertex : vertexTime[v] = IF v \in ToSet(ends) THEN ASAP_list[v] ELSE 0
  BY <1>2 DEF AlapStart
<1>5. AlapTypes
  BY <1>1, <1>4 DEF AlapTypes, AlapStart, EndsListed, Stacks
<1>6. LastTimes
  <2> SUFFICES ASSUME NEW v \in Vertex, v \notin Sources
               PROVE  vertexTime[v] = ASAP_list[v]
    BY DEF LastTimes
  <2>1. CASE v \in Destinations
    BY <1>4, <2>1 DEF EndsListed
  <2>2. CASE v \notin Destinations
    <3>1. vertexTime[v] = 0
      BY <1>4, <2>2 DEF EndsListed
    <3>2. Earliest[v] = 0
      BY <1>3, <2>2, EarliestEdges
    <3>3. ASAP_list[v] \in Nat /\ ASAP_list[v] <= 0
      BY <1>2, <3>2
    <3> QED
      BY <3>1, <3>3
  <2> QED
    BY <2>1, <2>2
<1>7. \A e \in E : preStack[e.dst] # <<>>
  BY <1>1, <1>3 DEF AlapStart
<1>8. CountedBack
  <2> SUFFICES ASSUME NEW e \in E
               PROVE  vertexTime[e.src] = 0
    BY <1>7 DEF CountedBack
  <2>1. e.src \in Vertex /\ e.src \notin ToSet(ends)
    BY <1>3 DEF EndsListed
  <2> QED
    BY <1>4, <2>1
<1>9. ReachedBack
  BY DEF ReachedBack, AlapStart, EndsListed
<1>10. WaitingBack
  <2> SUFFICES ASSUME NEW v \in Vertex, preStack[v] # <<>>, v \notin ToSet(End_list)
               PROVE  \E e \in E : e.src = v /\ preStack[e.dst] # <<>>
    BY DEF WaitingBack
  <2>1. v \in Destinations
    BY <1>1, <1>3 DEF AlapStart
  <2>2. v \in Sources
    BY <2>1 DEF AlapStart, EndsListed
  <2>3. PICK e \in E : e.src = v
    BY <2>2 DEF Sources, E
  <2> QED
    BY <1>7, <2>3
<1> QED
  BY <1>5, <1>6, <1>8, <1>9, <1>10 DEF AlapInv

(* ... keeps it ...                                                        *)
LEMMA AlapKeeps ==
  ASSUME edges \in TimingGraphs, ASAP_list \in [Vertex -> Nat],
         AlapInv, run_time_weighted_ALAP
  PROVE  AlapInv'
<1> USE DEF AlapInv
<1>1. PICK src, rest : AlapTook(src, rest)
  <2>1. ToSet(Begin_list) \subseteq Vertex
    BY ToSetFacts DEF AlapTypes
  <2> QED
    BY <2>1, AlapStep, Zenon DEF AlapTypes
<1>2. edges' = edges /\ Begin_list' = Begin_list /\ ASAP_list' = ASAP_list
  BY DEF run_time_weighted_ALAP
<1>3. /\ Sources' = Sources /\ Destinations' = Destinations /\ E' = E
      /\ \A v : Leaving(v)' = Leaving(v) /\ Entering(v)' = Entering(v)
  BY <1>2, GraphKept
<1>4. (\A v : Chain(v)' <=> Chain(v)) /\ LatestOnChain' = LatestOnChain
  BY <1>2, <1>3, ChainsKept DEF Chain
<1>5. AllEntering' = AllEntering
  BY <1>3 DEF AllEntering
<1>6. \A e \in E : /\ e.src \in Vertex /\ e.dst \in Vertex /\ e.weight \in Nat
                   /\ e.src \in Sources /\ e.dst \in Destinations
  BY EdgeFacts
<1> DEFINE left == ToSet(preStack[src])
<1>7. /\ src \in Vertex /\ ToSet(End_list) = rest \union {src}
      /\ End_list' \in Seq(Vertex)
      /\ ToSet(End_list') = rest \union ({e.src : e \in left} \ ToSet(Begin_list))
      /\ preStack' = [preStack EXCEPT ![src] = <<>>]
      /\ vertexTime' \in [Vertex -> Nat]
      /\ \A e \in left :
           vertexTime'[e.src] = Larger(vertexTime[src] - e.weight, vertexTime[e.src])
      /\ \A v \in Vertex : (\A e \in left : e.src # v) => vertexTime'[v] = vertexTime[v]
  BY <1>1 DEF AlapTook
<1>8. \A v \in Vertex : preStack'[v] = IF v = src THEN <<>> ELSE preStack[v]
  BY <1>7 DEF AlapTypes
<1>9. /\ preStack[src] # <<>> => left = {e \in E : e.dst = src}
      /\ preStack[src] = <<>> => left = {}
      /\ left \subseteq {e \in E : e.dst = src}
  <2>1. preStack[src] = <<>> \/ preStack[src] = Entering(src)
    BY <1>7 DEF AlapTypes, Stacks, AllEntering
  <2>2. ToSet(Entering(src)) = {e \in E : e.dst = src}
    BY <1>7, StackFacts
  <2>3. ToSet(<<>>) = {}
    BY DEF ToSet
  <2> QED
    BY <2>1, <2>2, <2>3
<1> HIDE DEF left
<1>10. AlapTypes'
  <2>1. preStack' \in [Vertex -> Seq(Edge)]
    <3>1. <<>> \in Seq(Edge)
      OBVIOUS
    <3> QED
      BY <1>7, <3>1 DEF AlapTypes
  <2>2. Stacks(preStack, AllEntering)'
    BY <1>5, <1>8 DEF AlapTypes, Stacks
  <2>3. ToSet(End_list') \intersect ToSet(Begin_list) = {}
    BY <1>7 DEF AlapTypes
  <2>4. Begin_list' \in Seq(Vertex) /\ ToSet(Begin_list') = (Sources \ Destinations)'
    BY <1>2, <1>3 DEF AlapTypes
  <2> QED
    BY <1>2, <1>7, <2>1, <2>2, <2>3, <2>4 DEF AlapTypes
<1>11. \A v \in Vertex : vertexTime[v] \in Nat /\ vertexTime'[v] \in Nat
  BY <1>7 DEF AlapTypes
<1>12. LastTimes'
  <2> SUFFICES ASSUME NEW v \in Vertex, v \notin Sources
               PROVE  vertexTime'[v] = ASAP_list[v]
    BY <1>2, <1>3 DEF LastTimes
  <2>1. \A e \in left : e.src # v
    BY <1>6, <1>9
  <2> QED
    BY <1>7, <2>1 DEF LastTimes
<1>13. ASSUME Chain(src)
       PROVE  vertexTime[src] = LatestOnChain[src]
  <2>1. CASE src \notin Sources
    <3>1. LatestOnChain[src] = ASAP_list[src]
      BY <1>6, <1>7, <2>1, LatestEdges
    <3> QED
      BY <1>7, <2>1, <3>1 DEF LastTimes
  <2>2. CASE src \in Sources
    <3>1. PICK f \in E : f.src = src /\ preStack[f.dst] = <<>>
      BY <1>7, <2>2 DEF ReachedBack
    <3> QED
      BY <1>13, <3>1 DEF CountedBack
  <2> QED
    BY <2>1, <2>2
<1>14. CountedBack'
  <2> SUFFICES ASSUME NEW e \in E, Chain(e.src)
               PROVE  vertexTime'[e.src]
                        = IF preStack'[e.dst] = <<>> THEN LatestOnChain[e.src] ELSE 0
    BY <1>3, <1>4 DEF CountedBack
  <2>1. /\ Chain(e.dst) /\ \A f \in E : f.src = e.src => f = e
        /\ e.src \in Vertex /\ e.dst \in Vertex /\ e.weight \in Nat
    BY <1>6, ChainFacts
  <2>2. CASE e \in left
    <3>1. e.dst = src /\ preStack[src] # <<>>
      BY <1>9, <2>2
    <3>2. vertexTime[e.src] = 0 /\ preStack'[e.dst] = <<>>
      BY <1>7, <1>8, <3>1 DEF CountedBack
    <3> DEFINE x == vertexTime[src] - e.weight
    <3>3. x \in Int
      BY <1>7, <1>11, <2>1
    <3>4. vertexTime'[e.src] = Larger(x, 0)
      BY <1>7, <2>2, <3>2
    <3>5. LatestOnChain[e.src] = Max({0, x})
      <4>1. LatestOnChain[e.dst] = vertexTime[src]
        BY <1>13, <2>1, <3>1
      <4>2. LatestOnChain[e.src] = Max({0, LatestOnChain[e.dst] - e.weight})
        BY LatestEdges
      <4> QED
        BY <4>1, <4>2
    <3> HIDE DEF x
    <3>6. Max({0, x}) = IF 0 >= x THEN 0 ELSE x
      BY <3>3, MaxOfTwo
    <3>7. Larger(x, 0) = Max({0, x})
      BY <3>3, <3>6 DEF Larger
    <3> QED
      BY <3>2, <3>4, <3>5, <3>7
  <2>3. CASE e \notin left
    <3>1. \A f \in left : f.src # e.src
      BY <1>9, <2>1, <2>3
    <3>2. vertexTime'[e.src] = vertexTime[e.src]
      BY <1>7, <2>1, <3>1
    <3>3. preStack'[e.dst] = preStack[e.dst]
      BY <1>8, <1>9, <2>1, <2>3
    <3> QED
      BY <3>2, <3>3 DEF CountedBack
  <2> QED
    BY <2>2, <2>3
<1>15. ReachedBack'
  <2> SUFFICES ASSUME NEW v \in ToSet(End_list'), v \in Sources
               PROVE  \E e \in E : e.src = v /\ preStack'[e.dst] = <<>>
    BY <1>3 DEF ReachedBack
  <2>1. CASE v \in rest
    <3>1. PICK e \in E : e.src = v /\ preStack[e.dst] = <<>>
      BY <1>7, <2>1 DEF ReachedBack
    <3> QED
      BY <1>6, <1>8, <3>1
  <2>2. CASE \E e \in left : e.src = v
    BY <1>6, <1>8, <1>9, <2>2
  <2> QED
    BY <1>7, <2>1, <2>2
<1>16. WaitingBack'
  <2> SUFFICES ASSUME NEW v \in Vertex, preStack'[v] # <<>>
               PROVE  \/ v \in ToSet(End_list')
                      \/ \E e \in E : e.src = v /\ preStack'[e.dst] # <<>>
    BY <1>3 DEF WaitingBack
  <2>1. v # src /\ preStack[v] # <<>>
    BY <1>8
  <2>2. CASE v \in ToSet(End_list)
    BY <1>7, <2>1, <2>2
  <2>3. CASE \E e \in E : e.src = v /\ preStack[e.dst] # <<>>
    <3>1. PICK e \in E : e.src = v /\ preStack[e.dst] # <<>>
      BY <2>3
    <3>2. CASE e.dst # src
      BY <1>6, <1>8, <3>1, <3>2
    <3>3. CASE e.dst = src
      <4>1. e \in left
        BY <1>9, <3>1, <3>3
      <4>2. v \notin ToSet(Begin_list)
        <5>1. AllEntering[v] # <<>>
          BY <2>1 DEF AlapTypes, Stacks
        <5>2. PICK f \in E : f.dst = v
          BY <5>1, FullStacks
        <5> QED
          BY <1>6, <5>2 DEF AlapTypes
      <4> QED
        BY <1>7, <3>1, <4>1, <4>2
    <3> QED
      BY <3>2, <3>3
  <2> QED
    BY <2>1, <2>2, <2>3 DEF WaitingBack
<1> QED
  BY <1>10, <1>12, <1>14, <1>15, <1>16

AlapRight(time) == \A v \in Vertex : Chain(v) => time[v] = LatestOnChain[v]

(* ... and ends with the right times before the chains.                    *)
LEMMA AlapEnds ==
  ASSUME edges \in TimingGraphs, ASAP_list \in [Vertex -> Nat], AlapInv, End_list = <<>>
  PROVE  AlapRight(vertexTime)
<1> USE DEF AlapInv
<1>1. \A e \in E : e.src \in Vertex /\ e.dst \in Vertex
  BY EdgeFacts
<1>2. PICK rank \in [Vertex -> 1 .. Cardinality(Vertex)] :
        \A e \in E : rank[e.dst] < rank[e.src]
  BY RanksBack
<1>3. ToSet(End_list) = {}
  BY DEF ToSet
<1>4. \A v \in Vertex : preStack[v] = <<>>
  <2> DEFINE T == {rank[v] : v \in {w \in Vertex : preStack[w] # <<>>}}
  <2> SUFFICES ASSUME T # {} PROVE FALSE
    OBVIOUS
  <2>1. T \subseteq Nat
    <3>1. Cardinality(Vertex) \in Nat
      BY GraphFacts
    <3> QED
      BY <3>1
  <2>2. PICK x \in T : \A y \in T : x <= y
    <3> HIDE DEF T
    <3> QED
      BY <2>1, LeastElement
  <2>3. PICK v \in Vertex : preStack[v] # <<>> /\ x = rank[v]
    BY <2>2
  <2>4. PICK e \in E : e.src = v /\ preStack[e.dst] # <<>>
    BY <1>3, <2>3 DEF WaitingBack
  <2>5. rank[e.dst] \in T /\ rank[e.dst] < rank[v]
    BY <1>1, <1>2, <2>4
  <2>6. rank[e.dst] \in Nat /\ x \in Nat /\ x <= rank[e.dst] /\ rank[e.dst] < x
    BY <2>1, <2>2, <2>3, <2>5
  <2> QED
    BY <2>6
<1>5. ASSUME NEW v \in Vertex, Chain(v)
      PROVE  vertexTime[v] = LatestOnChain[v]
  <2>1. CASE \A e \in E : e.src # v
    <3>1. v \notin Sources
      BY <2>1 DEF Sources, E
    <3>2. LatestOnChain[v] = ASAP_list[v]
      BY <2>1, LatestEdges
    <3> QED
      BY <3>1, <3>2 DEF LastTimes
  <2>2. CASE \E e \in E : e.src = v
    BY <1>1, <1>4, <1>5, <2>2 DEF CountedBack
  <2> QED
    BY <2>1, <2>2
<1> QED
  BY <1>5 DEF AlapRight
-----------------------------------------------------------------------------
First == <<begins, AllLeaving, Unset>>

(* What main.pl knows at each point of its flow.                           *)
TimingInv ==
  /\ edges \in TimingGraphs
  /\ flow # "ini" => EndsListed
  /\ flow = "ASAP" =>
       AsapInv /\ End_list = ends /\ Ran(AsapState, First, ends, AllLeaving)
  /\ flow = "max_path" =>
       /\ End_list = ends
       /\ \E last : /\ last[1] = <<>> /\ last[3] = ASAP_list
                    /\ Ran(last, First, ends, AllLeaving)
                    /\ RunsTo(AsapState, last, First, ends, AllLeaving)
  /\ flow \in {"max_path", "ALAP", "report"} => AsapRight(ASAP_list)
  /\ flow = "ALAP" => AlapInv
  /\ flow = "report" => AlapRight(ALAP_list)

(* The invariant holds at first ...                                        *)
LEMMA TimingInitInv == TimingInit => TimingInv
<1> SUFFICES ASSUME TimingInit PROVE TimingInv
  OBVIOUS
<1>1. flow = "ini" /\ edges \in TimingGraphs
  BY DEF TimingInit
<1> QED
  BY <1>1 DEF TimingInv

(* What the rest of the invariant says of the graph is kept with it.       *)
LEMMA ClaimsKept ==
  ASSUME UNCHANGED <<edges, begins, ends>>
  PROVE  /\ EndsListed' <=> EndsListed
         /\ First' = First /\ AllLeaving' = AllLeaving /\ AllEntering' = AllEntering
         /\ AsapRight(ASAP_list') => AsapRight(ASAP_list)'
         /\ AsapRight(vertexTime) /\ ASAP_list' = vertexTime => AsapRight(ASAP_list)'
         /\ AsapRight(ASAP_list) /\ ASAP_list' = ASAP_list => AsapRight(ASAP_list)'
         /\ ASAP_list' = ASAP_list =>
              /\ AlapRight(vertexTime) /\ ALAP_list' = vertexTime => AlapRight(ALAP_list)'
              /\ AlapRight(ALAP_list) /\ ALAP_list' = ALAP_list => AlapRight(ALAP_list)'
<1>1. /\ Earliest' = Earliest /\ Ancestors' = Ancestors
      /\ Sources' = Sources /\ Destinations' = Destinations
      /\ \A v : Leaving(v)' = Leaving(v) /\ Entering(v)' = Entering(v)
  BY GraphKept
<1>2. EndsListed' <=> EndsListed
  BY <1>1 DEF EndsListed
<1>3. AllLeaving' = AllLeaving /\ AllEntering' = AllEntering
  BY <1>1 DEF AllLeaving, AllEntering
<1>4. First' = First
  BY <1>3 DEF First, Unset
<1>5. AsapRight(ASAP_list') => AsapRight(ASAP_list)'
  BY <1>1 DEF AsapRight, NotLate
<1>6. ASSUME ASAP_list' = ASAP_list
      PROVE  AlapRight(ALAP_list') => AlapRight(ALAP_list)'
  <2>1. (\A v : Chain(v)' <=> Chain(v)) /\ LatestOnChain' = LatestOnChain
    BY <1>1, <1>6, ChainsKept DEF Chain
  <2> QED
    BY <2>1 DEF AlapRight
<1> QED
  BY <1>2, <1>3, <1>4, <1>5, <1>6

(* AsapStarts after a step ...                                             *)
LEMMA AsapStartsNext ==
  (edges \in TimingGraphs /\ EndsListed /\ AsapStart => AsapInv)'
<1>1. edges \in TimingGraphs /\ EndsListed /\ AsapStart => AsapInv
  BY AsapStarts
<1> QED
  BY <1>1, PTL

(* ... and AlapStarts.                                                     *)
LEMMA AlapStartsNext ==
  (edges \in TimingGraphs /\ EndsListed /\ AlapStart /\ AsapRight(ASAP_list) => AlapInv)'
<1>1. edges \in TimingGraphs /\ EndsListed /\ AlapStart /\ AsapRight(ASAP_list) => AlapInv
  BY AlapStarts
<1> QED
  BY <1>1, PTL

(* A step that changes nothing keeps the invariants of the walks.          *)
LEMMA WalksKept ==
  ASSUME UNCHANGED timingVars
  PROVE  (AsapInv => AsapInv') /\ (AlapInv => AlapInv') /\ AsapState' = AsapState
<1>0. UNCHANGED <<edges, begins, ends, Begin_list, End_list, nxtStack, preStack,
                  vertexTime, ASAP_list, ALAP_list, flow>>
  BY DEF timingVars
<1>1. /\ Earliest' = Earliest /\ Ancestors' = Ancestors
      /\ Sources' = Sources /\ Destinations' = Destinations /\ E' = E
      /\ \A v : Leaving(v)' = Leaving(v) /\ Entering(v)' = Entering(v)
  BY <1>0, GraphKept
<1>2. AllLeaving' = AllLeaving /\ AllEntering' = AllEntering
  BY <1>1 DEF AllLeaving, AllEntering
<1>3. \A v : Tree(v)' <=> Tree(v)
  BY <1>1 DEF Tree
<1>4. (\A v : Chain(v)' <=> Chain(v)) /\ LatestOnChain' = LatestOnChain
  BY <1>0, <1>1, ChainsKept DEF Chain
<1>5. AsapInv => AsapInv'
  <2>1. AsapTypes => AsapTypes'
    BY <1>0, <1>1, <1>2 DEF AsapTypes, Stacks
  <2>2. NotLate(vertexTime) => NotLate(vertexTime)'
    BY <1>0, <1>1 DEF NotLate
  <2>3. (Counted => Counted') /\ (Reached => Reached') /\ (Waiting => Waiting')
    BY <1>0, <1>1, <1>3 DEF Counted, Reached, Waiting
  <2> QED
    BY <2>1, <2>2, <2>3 DEF AsapInv
<1>6. AlapInv => AlapInv'
  <2>1. AlapTypes => AlapTypes'
    BY <1>0, <1>1, <1>2 DEF AlapTypes, Stacks
  <2>2. /\ LastTimes => LastTimes'
        /\ CountedBack => CountedBack'
        /\ (ReachedBack => ReachedBack') /\ (WaitingBack => WaitingBack')
    BY <1>0, <1>1, <1>4 DEF LastTimes, CountedBack, ReachedBack, WaitingBack
  <2> QED
    BY <2>1, <2>2 DEF AlapInv
<1> QED
  BY <1>0, <1>5, <1>6 DEF AsapState

(* ... is kept by every step of main.pl ...                                *)
LEMMA TimingNextInv == TimingInv /\ [TimingNext]_timingVars => TimingInv'
<1> SUFFICES ASSUME TimingInv, [TimingNext]_timingVars PROVE TimingInv'
  OBVIOUS
<1> USE DEF TimingInv
<1>1. CASE run_time_weighted_ini
  <2>1. /\ flow' = "begin" /\ edges' = edges
        /\ begins' \in SetToSeqs(Sources \ Destinations)
        /\ ends' \in SetToSeqs(Destinations \ Sources)
    BY <1>1 DEF run_time_weighted_ini
  <2>2. Sources' = Sources /\ Destinations' = Destinations
    BY <2>1, GraphKept
  <2>3. /\ Sources \ Destinations \subseteq Vertex /\ Destinations \ Sources \subseteq Vertex
        /\ IsFiniteSet(Vertex)
    BY GraphFacts
  <2>4. ASSUME NEW T, T \subseteq Vertex, NEW s \in SetToSeqs(T)
        PROVE  s \in Seq(Vertex) /\ ToSet(s) = T
    <3>1. IsFiniteSet(T)
      BY <2>3, <2>4, FS_Subset
    <3>2. s \in Seq(T) /\ ToSet(s) = T
      BY <3>1, SetToSeqsFacts
    <3>3. Seq(T) \subseteq Seq(Vertex)
      BY <2>4
    <3> QED
      BY <3>2, <3>3
  <2>5. EndsListed'
    BY <2>1, <2>2, <2>3, <2>4 DEF EndsListed
  <2> QED
    BY <2>1, <2>5
<1>2. CASE Begin_ASAP
  <2>1. /\ flow = "begin" /\ flow' = "ASAP" /\ UNCHANGED <<edges, begins, ends>>
        /\ Begin_list' = begins /\ End_list' = ends /\ nxtStack' = AllLeaving
        /\ vertexTime' = Unset
    BY <1>2, Zenon DEF Begin_ASAP, run_time_weighted_test, AllLeaving
  <2>2. EndsListed' /\ First' = First /\ AllLeaving' = AllLeaving
    BY <2>1, ClaimsKept
  <2>3. AsapStart'
    BY <2>1, <2>2 DEF AsapStart, Unset
  <2>4. AsapInv'
    BY <2>1, <2>2, <2>3, AsapStartsNext
  <2>5. AsapState' = First
    BY <2>1 DEF AsapState, First
  <2>6. Ran(AsapState', First', ends', AllLeaving')
    BY <2>2, <2>5, RunStarts
  <2> QED
    BY <2>1, <2>2, <2>4, <2>6
<1>3. CASE run_time_weighted_ASAP
  <2>1. /\ flow' = flow /\ UNCHANGED <<edges, begins, ends, ASAP_list>>
        /\ End_list' = End_list /\ flow \in {"ASAP", "max_path"}
    BY <1>3 DEF run_time_weighted_ASAP
  <2>2. EndsListed' /\ First' = First /\ AllLeaving' = AllLeaving
    BY <2>1, ClaimsKept
  <2>3. AsapState' = NextState(AsapState, ends, AllLeaving) /\ AsapState[1] # <<>>
    BY <1>3, <2>1, AsapIsNextState DEF AsapState
  <2>4. CASE flow = "ASAP"
    <3>1. AsapInv'
      BY <1>3, <2>4, AsapKeeps
    <3>2. Ran(AsapState', First', ends', AllLeaving')
      BY <2>1, <2>2, <2>3, <2>4, RunGoesOn
    <3> QED
      BY <2>1, <2>2, <2>4, <3>1, <3>2
  <2>5. CASE flow = "max_path"
    <3>1. PICK last : /\ last[1] = <<>> /\ last[3] = ASAP_list
                      /\ Ran(last, First, ends, AllLeaving)
                      /\ RunsTo(AsapState, last, First, ends, AllLeaving)
      BY <2>5
    <3>2. RunsTo(AsapState', last, First, ends, AllLeaving)
      BY <2>3, <3>1, RunRepeats
    <3>3. AsapRight(ASAP_list)'
      BY <2>1, <2>5, ClaimsKept
    <3> QED
      BY <2>1, <2>2, <2>5, <3>1, <3>2, <3>3
  <2> QED
    BY <2>1, <2>4, <2>5
<1>4. CASE rst_time_weighted_ASAP
  <2>1. /\ flow = "ASAP" /\ Begin_list = <<>>
        /\ flow' = "max_path" /\ UNCHANGED <<edges, begins, ends>>
        /\ Begin_list' = begins /\ End_list' = ends /\ nxtStack' = AllLeaving
        /\ vertexTime' = Unset /\ ASAP_list' = vertexTime
    BY <1>4, Zenon DEF rst_time_weighted_ASAP, run_time_weighted_test, AllLeaving
  <2>2. EndsListed' /\ First' = First /\ AllLeaving' = AllLeaving
    BY <2>1, ClaimsKept
  <2>3. AsapRight(vertexTime)
    BY <2>1, AsapEnds
  <2>4. AsapRight(ASAP_list)'
    BY <2>1, <2>3, ClaimsKept
  <2>5. AsapState' = First /\ AsapState[1] = <<>> /\ AsapState[3] = vertexTime
    BY <2>1 DEF AsapState, First
  <2>6. Ran(AsapState, First, ends, AllLeaving)
    BY <2>1
  <2>7. RunsTo(First, AsapState, First, ends, AllLeaving)
    BY <2>5, <2>6, RunRepeats
  <2>8. \E last : /\ last[1] = <<>> /\ last[3] = ASAP_list'
                  /\ Ran(last, First', ends', AllLeaving')
                  /\ RunsTo(AsapState', last, First', ends', AllLeaving')
    BY <2>1, <2>2, <2>5, <2>6, <2>7, Zenon
  <2> QED
    BY <2>1, <2>2, <2>4, <2>8
<1>5. CASE run_time_weighted_max_path
  <2>1. /\ flow = "max_path" /\ Begin_list = <<>>
        /\ flow' = "ALAP" /\ UNCHANGED <<edges, begins, ends, ASAP_list>>
        /\ Begin_list' = begins /\ End_list' = ends /\ preStack' = AllEntering
        /\ vertexTime' = [v \in Vertex |->
                            IF Contains(End_list, v) THEN vertexTime[v] ELSE 0]
    BY <1>5, Zenon DEF run_time_weighted_max_path, run_time_weighted_test, AllEntering
  <2>2. EndsListed' /\ AllEntering' = AllEntering /\ AsapRight(ASAP_list)'
    BY <2>1, ClaimsKept
  <2>3. PICK last : /\ last[1] = <<>> /\ last[3] = ASAP_list
                    /\ Ran(last, First, ends, AllLeaving)
                    /\ RunsTo(AsapState, last, First, ends, AllLeaving)
    BY <2>1
  <2>4. AsapState = last
    <3>1. AsapState[1] = <<>>
      BY <2>1 DEF AsapState
    <3> QED
      BY <2>3, <3>1, RunRepeats
  <2>5. vertexTime = ASAP_list
    BY <2>3, <2>4 DEF AsapState
  <2>6. \A v : Contains(End_list, v) <=> v \in ToSet(ends)
    BY <2>1, ToSetFacts DEF EndsListed
  <2>7. AlapStart'
    <3>1. vertexTime' = [v \in Vertex |-> IF v \in ToSet(ends) THEN ASAP_list[v] ELSE 0]
      BY <2>1, <2>5, <2>6
    <3> QED
      BY <2>1, <2>2, <3>1 DEF AlapStart
  <2>8. AlapInv'
    BY <2>1, <2>2, <2>7, AlapStartsNext
  <2> QED
    BY <2>1, <2>2, <2>8
<1>6. CASE run_time_weighted_ALAP
  <2>1. /\ flow = "ALAP" /\ flow' = "ALAP" /\ UNCHANGED <<edges, begins, ends, ASAP_list>>
    BY <1>6 DEF run_time_weighted_ALAP
  <2>2. EndsListed' /\ AsapRight(ASAP_list)'
    BY <2>1, ClaimsKept
  <2>3. AlapInv'
    BY <1>6, <2>1, AlapKeeps DEF AsapRight
  <2> QED
    BY <2>1, <2>2, <2>3
<1>7. CASE rst_time_weighted_ALAP
  <2>1. /\ flow = "ALAP" /\ End_list = <<>> /\ ALAP_list' = vertexTime
        /\ flow' = "report" /\ UNCHANGED <<edges, begins, ends, ASAP_list>>
    BY <1>7 DEF rst_time_weighted_ALAP
  <2>2. EndsListed' /\ AsapRight(ASAP_list)'
    BY <2>1, ClaimsKept
  <2>3. AlapRight(vertexTime)
    BY <2>1, AlapEnds DEF AsapRight
  <2>4. AlapRight(ALAP_list)'
    BY <2>1, <2>3, ClaimsKept
  <2> QED
    BY <2>1, <2>2, <2>4
<1>8. CASE UNCHANGED timingVars
  <2>1. /\ UNCHANGED <<edges, begins, ends, ASAP_list, ALAP_list>>
        /\ flow' = flow /\ End_list' = End_list
    BY <1>8 DEF timingVars
  <2>2. /\ EndsListed' <=> EndsListed
        /\ First' = First /\ AllLeaving' = AllLeaving
        /\ AsapRight(ASAP_list) => AsapRight(ASAP_list)'
        /\ AlapRight(ALAP_list) => AlapRight(ALAP_list)'
    BY <2>1, ClaimsKept
  <2>3. (AsapInv => AsapInv') /\ (AlapInv => AlapInv') /\ AsapState' = AsapState
    BY <1>8, WalksKept
  <2> QED
    BY <2>1, <2>2, <2>3
<1> QED
  BY <1>1, <1>2, <1>3, <1>4, <1>5, <1>6, <1>7, <1>8 DEF TimingNext

(* ... and says, in the report, that the times are exact.                  *)
LEMMA TimingInvExact == TimingInv => ExactOnTrees
<1> SUFFICES ASSUME TimingInv, flow = "report", NEW v \in Vertex
             PROVE  /\ ASAP_list[v] <= Earliest[v]
                    /\ (\A u \in Ancestors[v] : Len(Entering(u)) <= 1) =>
                         ASAP_list[v] = Earliest[v]
                    /\ (\A u \in Descendants[v] \union {v} : Len(Leaving(u)) <= 1) =>
                         ALAP_list[v] = LatestOnChain[v]
  BY DEF ExactOnTrees
<1>1. AsapRight(ASAP_list) /\ AlapRight(ALAP_list)
  BY DEF TimingInv
<1> QED
  BY <1>1 DEF AsapRight, AlapRight, NotLate, Chain

(* The reported times are exact where they can be, for every acyclic graph *)
(* and every order of its edges and of the lists.                          *)
THEOREM ReportIsExactOnTrees == TimingSpec => []ExactOnTrees
<1> QED
  BY TimingInitInv, TimingNextInv, TimingInvExact, PTL DEF TimingSpec
-----------------------------------------------------------------------------
(* dvfs.cpp: what the recursion writes is computed from its definition;    *)
(* the invariant says which lines have been read, what the lists hold for  *)
(* them, and what the totals are inside a line; the two loops over the     *)
(* lists are lists of pairs that grow by an induction over the entries.    *)

(* What is in the file. *)
SevenLines == <<<<3>>, <<2>>, <<1>>, <<3, 2>>, <<3, 1>>, <<2, 1>>, <<3, 2, 1>>>>

(* What combination writes where it ends. *)
LEMMA DownwardsIs ==
  /\ Downwards(0) = <<>> /\ Downwards(1) = <<1>>
  /\ Downwards(2) = <<2, 1>> /\ Downwards(3) = <<3, 2, 1>>
<1>1. Downwards(0) = <<>>
  BY DEF Downwards
<1>2. Downwards(1) = <<1>>
  BY DEF Downwards
<1>3. Downwards(2) = <<2, 1>>
  BY DEF Downwards
<1>4. Downwards(3) = <<3, 2, 1>>
  BY DEF Downwards
<1> QED
  BY <1>1, <1>2, <1>3, <1>4

(* Short lists, one behind the other. *)
LEMMA ShortConcat ==
  ASSUME NEW x, NEW y, NEW z
  PROVE  /\ <<x>> \o <<>> = <<x>>
         /\ <<x>> \o <<y>> = <<x, y>>
         /\ <<x>> \o <<y, z>> = <<x, y, z>>
         /\ <<x, y>> \o <<z>> = <<x, y, z>>
<1> DEFINE S == {x, y, z}
<1>1. /\ <<x>> \in Seq(S) /\ <<x, y>> \in Seq(S) /\ <<y, z>> \in Seq(S) /\ <<y>> \in Seq(S)
      /\ <<z>> \in Seq(S) /\ <<x, y, z>> \in Seq(S)
  OBVIOUS
<1>2. <<x>> \o <<>> = <<x>>
  BY <1>1, ConcatEmptySeq
<1>3. <<x>> \o <<y>> = <<x, y>>
  <2>1. /\ <<x>> \o <<y>> \in Seq(S) /\ Len(<<x>> \o <<y>>) = 2
        /\ \A k \in 1 .. 2 : (<<x>> \o <<y>>)[k] = <<x, y>>[k]
    BY <1>1, ConcatProperties
  <2> QED
    BY <1>1, <2>1, SeqEqual
<1>4. <<x>> \o <<y, z>> = <<x, y, z>>
  <2>1. /\ <<x>> \o <<y, z>> \in Seq(S) /\ Len(<<x>> \o <<y, z>>) = 3
        /\ \A k \in 1 .. 3 : (<<x>> \o <<y, z>>)[k] = <<x, y, z>>[k]
    BY <1>1, ConcatProperties
  <2> QED
    BY <1>1, <2>1, SeqEqual
<1>5. <<x, y>> \o <<z>> = <<x, y, z>>
  <2>1. /\ <<x, y>> \o <<z>> \in Seq(S) /\ Len(<<x, y>> \o <<z>>) = 3
        /\ \A k \in 1 .. 3 : (<<x, y>> \o <<z>>)[k] = <<x, y, z>>[k]
    BY <1>1, ConcatProperties
  <2> QED
    BY <1>1, <2>1, SeqEqual
<1> QED
  BY <1>2, <1>3, <1>4, <1>5

(* The lists with a mode in front of every line. *)
LEMMA PrefixedIs ==
  /\ Prefixed(2, <<<<>>>>) = <<<<2>>>>
  /\ Prefixed(3, <<<<>>>>) = <<<<3>>>>
  /\ Prefixed(3, <<<<2>>, <<1>>>>) = <<<<3, 2>>, <<3, 1>>>>
<1>1. /\ <<2>> \o <<>> = <<2>> /\ <<3>> \o <<>> = <<3>>
      /\ <<3>> \o <<2>> = <<3, 2>> /\ <<3>> \o <<1>> = <<3, 1>>
  BY ShortConcat, Zenon
<1>2. ASSUME NEW m, NEW x
      PROVE  Prefixed(m, <<x>>) = <<<<m>> \o x>>
  <2> DEFINE y == <<m>> \o x
  <2>1. Prefixed(m, <<x>>) = [k \in DOMAIN <<x>> |-> <<m>> \o <<x>>[k]]
    BY Zenon DEF Prefixed
  <2>2. DOMAIN <<x>> = 1 .. 1 /\ <<x>>[1] = x
    OBVIOUS
  <2>3. \A k \in 1 .. 1 : k = 1
    OBVIOUS
  <2>4. [k \in 1 .. 1 |-> <<m>> \o <<x>>[k]] = [k \in 1 .. 1 |-> y]
    BY <2>2, <2>3
  <2> HIDE DEF y
  <2>5. [k \in 1 .. 1 |-> y] = <<y>>
    OBVIOUS
  <2> QED
    BY <2>1, <2>2, <2>4, <2>5, Zenon DEF y
<1>3. ASSUME NEW m, NEW x, NEW y
      PROVE  Prefixed(m, <<x, y>>) = <<<<m>> \o x, <<m>> \o y>>
  BY DEF Prefixed
<1>4. Prefixed(2, <<<<>>>>) = <<<<2>> \o <<>>>>
  BY <1>2, Zenon
<1>5. Prefixed(3, <<<<>>>>) = <<<<3>> \o <<>>>>
  BY <1>2, Zenon
<1>6. Prefixed(3, <<<<2>>, <<1>>>>) = <<<<3>> \o <<2>>, <<3>> \o <<1>>>>
  BY <1>3, Zenon
<1> QED
  BY <1>1, <1>4, <1>5, <1>6, Zenon

(* The recursion has a solution, and its values are these.                 *)
LEMMA CombinationsAre ==
  /\ combination(3, 1) = <<<<3>>, <<2>>, <<1>>>>
  /\ combination(3, 2) = <<<<3, 2>>, <<3, 1>>, <<2, 1>>>>
  /\ combination(3, 3) = <<<<3, 2, 1>>>>
<1> DEFINE Row(m, above) ==
             [k \in 0 .. m |->
                IF k = m \/ k = 0 THEN <<Downwards(k)>>
                ELSE Prefixed(m, above[k - 1]) \o above[k]]
           r0 == Row(0, <<>>)
           r1 == Row(1, r0)
           r2 == Row(2, r1)
           r3 == Row(3, r2)
           table == [m \in 0 .. 3 |-> IF m = 0 THEN r0 ELSE IF m = 1 THEN r1
                                      ELSE IF m = 2 THEN r2 ELSE r3]
           of == CHOOSE g : g = [m \in 0 .. 3 |-> Row(m, g[m - 1])]
<1>1. table = [m \in 0 .. 3 |-> Row(m, table[m - 1])]
  <2>1. Row(0, table[0 - 1]) = r0
    <3>1. ASSUME NEW g
          PROVE  Row(0, g) = [k \in 0 .. 0 |-> <<Downwards(k)>>]
      OBVIOUS
    <3> HIDE DEF Row
    <3> QED
      BY <3>1, Zenon
  <2> HIDE DEF Row, r0, r1, r2, r3
  <2>2. table[0] = r0 /\ table[1] = r1 /\ table[2] = r2 /\ table[3] = r3
    OBVIOUS
  <2>3. Row(1, r0) = r1 /\ Row(2, r1) = r2 /\ Row(3, r2) = r3
    BY DEF r1, r2, r3
  <2> HIDE DEF table
  <2>4. \A m \in 0 .. 3 : m = 0 \/ m = 1 \/ m = 2 \/ m = 3
    OBVIOUS
  <2>5. 1 - 1 = 0 /\ 2 - 1 = 1 /\ 3 - 1 = 2
    OBVIOUS
  <2>6. \A m \in 0 .. 3 : table[m] = Row(m, table[m - 1])
    <3>1. Row(1, table[1 - 1]) = r1 /\ Row(2, table[2 - 1]) = r2 /\ Row(3, table[3 - 1]) = r3
      BY <2>2, <2>3, <2>5
    <3> QED
      BY <2>1, <2>2, <2>4, <3>1
  <2>7. table = [m \in 0 .. 3 |-> table[m]]
    BY DEF table
  <2> QED
    BY <2>6, <2>7
<1>2. of = [m \in 0 .. 3 |-> Row(m, of[m - 1])]
  <2> HIDE DEF Row, table
  <2> QED
    BY <1>1, Zenon
<1> HIDE DEF of, table
<1>3. /\ of[1] = Row(1, of[0]) /\ of[0] = Row(0, of[0 - 1])
      /\ of[2] = Row(2, of[1]) /\ of[3] = Row(3, of[2])
  <2>1. 1 - 1 = 0 /\ 2 - 1 = 1 /\ 3 - 1 = 2
    OBVIOUS
  <2>2. 0 \in 0 .. 3 /\ 1 \in 0 .. 3 /\ 2 \in 0 .. 3 /\ 3 \in 0 .. 3
    OBVIOUS
  <2> HIDE DEF Row
  <2>3. \A m \in 0 .. 3 : of[m] = Row(m, of[m - 1])
    BY <1>2
  <2> QED
    BY <2>1, <2>2, <2>3
<1>4. of[1][0] = <<<<>>>> /\ of[1][1] = <<<<1>>>>
  BY <1>3, DownwardsIs
<1>5. /\ \A g : Row(2, g)[1] = Prefixed(2, g[0]) \o g[1]
      /\ \A g : Row(3, g)[1] = Prefixed(3, g[0]) \o g[1]
      /\ \A g : Row(3, g)[2] = Prefixed(3, g[1]) \o g[2]
  <2>1. /\ 1 \in 0 .. 2 /\ 1 \in 0 .. 3 /\ 2 \in 0 .. 3 /\ 1 - 1 = 0 /\ 2 - 1 = 1
        /\ 1 # 2 /\ 1 # 3 /\ 2 # 3 /\ 1 # 0 /\ 2 # 0
    OBVIOUS
  <2> QED
    BY <2>1, Zenon
<1>6. of[2][1] = <<<<2>>, <<1>>>> /\ of[2][2] = <<<<2, 1>>>>
  <2>1. <<<<2>>>> \o <<<<1>>>> = <<<<2>>, <<1>>>>
    BY ShortConcat, Zenon
  <2>2. of[2][1] = Prefixed(2, of[1][0]) \o of[1][1]
    BY <1>3, <1>5, Zenon
  <2>3. of[2][2] = <<Downwards(2)>>
    BY <1>3
  <2> QED
    BY <1>4, <2>1, <2>2, <2>3, PrefixedIs, DownwardsIs
<1>7. of[2][0] = <<<<>>>>
  BY <1>3, DownwardsIs
<1>8. of[3][1] = <<<<3>>, <<2>>, <<1>>>>
  <2>1. <<<<3>>>> \o <<<<2>>, <<1>>>> = <<<<3>>, <<2>>, <<1>>>>
    <3> DEFINE x == <<3>>
               y == <<2>>
               z == <<1>>
    <3> HIDE DEF x, y, z
    <3>1. <<x>> \o <<y, z>> = <<x, y, z>>
      BY ShortConcat, Zenon
    <3> QED
      BY <3>1, Zenon DEF x, y, z
  <2>2. of[3][1] = Prefixed(3, of[2][0]) \o of[2][1]
    BY <1>3, <1>5, Zenon
  <2>3. of[3][1] = <<<<3>>>> \o <<<<2>>, <<1>>>>
    BY <1>6, <1>7, <2>2, PrefixedIs
  <2> QED
    BY <2>1, <2>3, Zenon
<1>9. of[3][2] = <<<<3, 2>>, <<3, 1>>, <<2, 1>>>>
  <2>1. <<<<3, 2>>, <<3, 1>>>> \o <<<<2, 1>>>> = <<<<3, 2>>, <<3, 1>>, <<2, 1>>>>
    <3> DEFINE x == <<3, 2>>
               y == <<3, 1>>
               z == <<2, 1>>
    <3> HIDE DEF x, y, z
    <3>1. <<x, y>> \o <<z>> = <<x, y, z>>
      BY ShortConcat, Zenon
    <3> QED
      BY <3>1, Zenon DEF x, y, z
  <2>2. of[3][2] = Prefixed(3, of[2][1]) \o of[2][2]
    BY <1>3, <1>5, Zenon
  <2> QED
    BY <1>6, <2>1, <2>2, PrefixedIs
<1>10. of[3][3] = <<<<3, 2, 1>>>>
  BY <1>3, DownwardsIs
<1>11. combination(3, 1) = of[3][1] /\ combination(3, 2) = of[3][2] /\ combination(3, 3) = of[3][3]
  BY Zenon DEF combination, of
<1> QED
  BY <1>8, <1>9, <1>10, <1>11

(* The file holds seven lines. *)
LEMMA LinesAre == Lines = SevenLines
<1> DEFINE L == {<<3>>, <<2>>, <<1>>, <<3, 2>>, <<3, 1>>, <<2, 1>>, <<3, 2, 1>>}
           t == <<<<3>>, <<2>>, <<1>>>>
           u == <<<<3, 2>>, <<3, 1>>, <<2, 1>>>>
           v == <<<<3, 2, 1>>>>
           tu == t \o u
           tuv == tu \o v
<1>1. t \in Seq(L) /\ u \in Seq(L) /\ v \in Seq(L) /\ Len(t) = 3 /\ Len(u) = 3 /\ Len(v) = 1
  OBVIOUS
<1>2. SevenLines \in Seq(L) /\ Len(SevenLines) = 7
  BY DEF SevenLines
<1>3. Lines = tuv
  BY CombinationsAre DEF Lines
<1>4. \A k \in 1 .. 7 : SevenLines[k] = IF k <= 3 THEN t[k] ELSE IF k <= 6 THEN u[k - 3] ELSE v[k - 6]
  BY DEF SevenLines
<1> HIDE DEF L, t, u, v, tu, tuv
<1>5. 3 + 3 = 6 /\ 6 + 1 = 7
  OBVIOUS
<1>6. /\ tu \in Seq(L) /\ Len(tu) = Len(t) + Len(u)
      /\ \A k \in 1 .. Len(t) + Len(u) : tu[k] = IF k <= Len(t) THEN t[k] ELSE u[k - Len(t)]
  BY <1>1, ConcatProperties, Zenon DEF tu
<1>7. tu \in Seq(L) /\ Len(tu) = 6 /\ \A k \in 1 .. 6 : tu[k] = IF k <= 3 THEN t[k] ELSE u[k - 3]
  BY <1>1, <1>5, <1>6, Zenon
<1>8. /\ tuv \in Seq(L) /\ Len(tuv) = Len(tu) + Len(v)
      /\ \A k \in 1 .. Len(tu) + Len(v) : tuv[k] = IF k <= Len(tu) THEN tu[k] ELSE v[k - Len(tu)]
  BY <1>1, <1>7, ConcatProperties, Zenon DEF tuv
<1>9. tuv \in Seq(L) /\ Len(tuv) = 7 /\ \A k \in 1 .. 7 : tuv[k] = IF k <= 6 THEN tu[k] ELSE v[k - 6]
  BY <1>1, <1>5, <1>7, <1>8, Zenon
<1>10. \A k \in 1 .. 7 : tuv[k] = SevenLines[k]
  BY <1>4, <1>7, <1>9
<1> QED
  BY <1>2, <1>3, <1>9, <1>10, SeqEqual

Chosen(k) == ToSet(Lines[k])

ModeChoices == (SUBSET Modes) \ {{}}

(* A list without repetitions, of the elements of T.                       *)
Lists(s, T) ==
  /\ s \in Seq(T) /\ ToSet(s) = T
  /\ \A i, j \in 1 .. Len(s) : s[i] = s[j] => i = j

(* A line is a list of modes without repetitions. *)
LEMMA LinesTyped ==
  /\ Lines \in Seq(Seq(Modes)) /\ Len(Lines) = 7
  /\ \A k \in 1 .. 7 : /\ Lines[k] \in Seq(Modes)
                       /\ \A i, j \in 1 .. Len(Lines[k]) : Lines[k][i] = Lines[k][j] => i = j
<1> USE DEF Modes
<1>1. Lines = SevenLines
  BY LinesAre
<1>2. SevenLines \in Seq(Seq(Modes)) /\ Len(SevenLines) = 7
  BY DEF SevenLines
<1>3. /\ SevenLines[1] = <<3>> /\ SevenLines[2] = <<2>> /\ SevenLines[3] = <<1>>
      /\ SevenLines[4] = <<3, 2>> /\ SevenLines[5] = <<3, 1>>
      /\ SevenLines[6] = <<2, 1>> /\ SevenLines[7] = <<3, 2, 1>>
  BY DEF SevenLines
<1>4. \A k \in 1 .. 7 : k = 1 \/ k = 2 \/ k = 3 \/ k = 4 \/ k = 5 \/ k = 6 \/ k = 7
  OBVIOUS
<1> DEFINE Once(s) == s \in Seq(Modes) /\ \A i, j \in 1 .. Len(s) : s[i] = s[j] => i = j
<1>5. Once(<<3>>) /\ Once(<<2>>) /\ Once(<<1>>)
  OBVIOUS
<1>6. Once(<<3, 2>>) /\ Once(<<3, 1>>) /\ Once(<<2, 1>>) 
  OBVIOUS
<1>7. Once(<<3, 2, 1>>)
  OBVIOUS
<1>8. \A k \in 1 .. 7 : Once(SevenLines[k])
  <2> HIDE DEF Once
  <2> QED
    BY <1>3, <1>4, <1>5, <1>6, <1>7
<1> QED
  BY <1>1, <1>2, <1>8

(* The lines are all choices of modes, each once.                          *)
LEMMA ChosenFacts ==
  /\ \A k \in 1 .. 7 : Chosen(k) \in ModeChoices
  /\ \A i, j \in 1 .. 7 : Chosen(i) = Chosen(j) => i = j
  /\ \A A \in ModeChoices : \E k \in 1 .. 7 : Chosen(k) = A
<1>1. /\ Lines[1] = <<3>> /\ Lines[2] = <<2>> /\ Lines[3] = <<1>>
      /\ Lines[4] = <<3, 2>> /\ Lines[5] = <<3, 1>>
      /\ Lines[6] = <<2, 1>> /\ Lines[7] = <<3, 2, 1>>
  BY LinesAre DEF SevenLines
<1>2. ASSUME NEW x
      PROVE  ToSet(<<x>>) = {x}
  BY DEF ToSet
<1>3. ASSUME NEW x, NEW y
      PROVE  ToSet(<<x, y>>) = {x, y}
  BY DEF ToSet
<1>4. ASSUME NEW x, NEW y, NEW z
      PROVE  ToSet(<<x, y, z>>) = {x, y, z}
  BY DEF ToSet
<1>5. /\ Chosen(1) = {3} /\ Chosen(2) = {2} /\ Chosen(3) = {1}
      /\ Chosen(4) = {3, 2} /\ Chosen(5) = {3, 1}
      /\ Chosen(6) = {2, 1} /\ Chosen(7) = {3, 2, 1}
  BY <1>1, <1>2, <1>3, <1>4 DEF Chosen
<1>6. \A k \in 1 .. 7 : k = 1 \/ k = 2 \/ k = 3 \/ k = 4 \/ k = 5 \/ k = 6 \/ k = 7
  OBVIOUS
<1>7. \A k \in 1 .. 7 : Chosen(k) \in ModeChoices
  <2>1. \A A : A # {} /\ A \subseteq {1, 2, 3} => A \in ModeChoices
    <3>1. 1 .. 3 = {1, 2, 3}
      OBVIOUS
    <3> QED
      BY <3>1 DEF ModeChoices, Modes
  <2>2. \A k \in 1 .. 7 : Chosen(k) # {} /\ Chosen(k) \subseteq {1, 2, 3}
    BY <1>5, <1>6
  <2> QED
    BY <2>1, <2>2
<1>8. /\ \A k \in 1 .. 7 : 1 \in Chosen(k) <=> k \in {3, 5, 6, 7}
      /\ \A k \in 1 .. 7 : 2 \in Chosen(k) <=> k \in {2, 4, 6, 7}
      /\ \A k \in 1 .. 7 : 3 \in Chosen(k) <=> k \in {1, 4, 5, 7}
  BY <1>5, <1>6
<1>9. ASSUME NEW i \in 1 .. 7, NEW j \in 1 .. 7, Chosen(i) = Chosen(j)
      PROVE  i = j
  <2>1. /\ i \in {3, 5, 6, 7} <=> j \in {3, 5, 6, 7}
        /\ i \in {2, 4, 6, 7} <=> j \in {2, 4, 6, 7}
        /\ i \in {1, 4, 5, 7} <=> j \in {1, 4, 5, 7}
    BY <1>8, <1>9
  <2> QED
    BY <2>1
<1>10. ASSUME NEW A \in ModeChoices
       PROVE  \E k \in 1 .. 7 : Chosen(k) = A
  <2>1. A \subseteq {1, 2, 3} /\ A # {}
    <3>1. 1 .. 3 = {1, 2, 3}
      OBVIOUS
    <3> QED
      BY <3>1 DEF ModeChoices, Modes
  <2>2. \/ A = {1} \/ A = {2} \/ A = {3} \/ A = {3, 2} \/ A = {3, 1} \/ A = {2, 1}
        \/ A = {3, 2, 1}
    BY <2>1
  <2> QED
    BY <1>5, <2>2
<1> QED
  BY <1>7, <1>9, <1>10

(* The time of a choice of modes grows by that of a mode that is new.      *)
LEMMA TimeOfFacts ==
  ASSUME NEW u \in Units
  PROVE  /\ TimeOf(u, {}) = 0
         /\ \A A \in SUBSET Modes : TimeOf(u, A) \in Nat
         /\ \A A \in SUBSET Modes : \A m \in Modes \ A :
              TimeOf(u, A \union {m}) = TimeOf(u, A) + Work[u][m].time
<1> DEFINE w1 == Work[u][1].time
           w2 == Work[u][2].time
           w3 == Work[u][3].time
<1>1. w1 \in Nat /\ w2 \in Nat /\ w3 \in Nat
  BY DvfsAssumption DEF Modes
<1>2. \A A : TimeOf(u, A) = (IF 1 \in A THEN w1 ELSE 0) + (IF 2 \in A THEN w2 ELSE 0)
                            + (IF 3 \in A THEN w3 ELSE 0)
  BY Zenon DEF TimeOf
<1>3. ASSUME NEW A \in SUBSET Modes, NEW m \in Modes \ A
      PROVE  TimeOf(u, A \union {m}) = TimeOf(u, A) + Work[u][m].time
  <2> DEFINE M == A \union {m}
  <2>1. m = 1 \/ m = 2 \/ m = 3
    BY DEF Modes
  <2>2. \A x : x \in M <=> (x \in A \/ x = m)
    OBVIOUS
  <2>3. m \notin A
    OBVIOUS
  <2> DEFINE wm == Work[u][m].time
  <2>4. /\ m = 1 => wm = w1
        /\ m = 2 => wm = w2
        /\ m = 3 => wm = w3
    OBVIOUS
  <2>5. /\ TimeOf(u, A) = (IF 1 \in A THEN w1 ELSE 0) + (IF 2 \in A THEN w2 ELSE 0)
                            + (IF 3 \in A THEN w3 ELSE 0)
        /\ TimeOf(u, M) = (IF 1 \in M THEN w1 ELSE 0) + (IF 2 \in M THEN w2 ELSE 0)
                            + (IF 3 \in M THEN w3 ELSE 0)
    BY <1>2
  <2> HIDE DEF w1, w2, w3, wm, M
  <2>6. ASSUME m = 1
        PROVE  TimeOf(u, M) = TimeOf(u, A) + wm
    BY <1>1, <2>2, <2>3, <2>4, <2>5, <2>6
  <2>7. ASSUME m = 2
        PROVE  TimeOf(u, M) = TimeOf(u, A) + wm
    BY <1>1, <2>2, <2>3, <2>4, <2>5, <2>7
  <2>8. ASSUME m = 3
        PROVE  TimeOf(u, M) = TimeOf(u, A) + wm
    BY <1>1, <2>2, <2>3, <2>4, <2>5, <2>8
  <2>9. TimeOf(u, M) = TimeOf(u, A) + wm
    BY <2>1, <2>6, <2>7, <2>8
  <2> QED
    BY <2>9 DEF M, wm
<1> HIDE DEF w1, w2, w3
<1> QED
  BY <1>1, <1>2, <1>3

(* A list gets longer by a new element, or by a list of other elements.    *)
LEMMA ListsAppend ==
  ASSUME NEW T, NEW s, Lists(s, T), NEW e, e \notin T
  PROVE  Lists(Append(s, e), T \union {e})
<1> DEFINE U == T \union {e}
           t == Append(s, e)
<1>1. s \in Seq(U) /\ e \in U
  <2>1. s \in Seq(T) /\ T \subseteq U
    BY DEF Lists
  <2> HIDE DEF U
  <2>2. s \in Seq(U)
    BY <2>1, SeqMonotonic
  <2> QED
    BY <2>2 DEF U
<1>2. t \in Seq(U) /\ ToSet(t) = ToSet(s) \union {e}
  <2> HIDE DEF U
  <2> QED
    BY <1>1, ToSetAppend
<1>3. /\ Len(t) = Len(s) + 1 /\ \A i \in 1 .. Len(s) : t[i] = s[i]
      /\ t[Len(s) + 1] = e /\ Len(s) \in Nat
  <2> HIDE DEF U
  <2> QED
    BY <1>1, AppendProperties, LenProperties
<1>4. ASSUME NEW i \in 1 .. Len(t), NEW j \in 1 .. Len(t), t[i] = t[j]
      PROVE  i = j
  <2> DEFINE n == Len(s)
  <2>1. \A l \in 1 .. n : s[l] \in T /\ s[l] # e
    <3>1. s \in Seq(T)
      BY DEF Lists
    <3> QED
      BY <3>1, ElementOfSeq
  <2>2. n \in Nat /\ \A l \in 1 .. Len(t) : l \in 1 .. n \/ l = n + 1
    <3>1. n \in Nat /\ Len(t) = n + 1
      BY <1>3
    <3> HIDE DEF n, t
    <3> QED
      BY <3>1
  <2>3. \A x, y \in 1 .. n : s[x] = s[y] => x = y
    BY DEF Lists
  <2>4. t[n + 1] = e /\ \A l \in 1 .. n : t[l] = s[l]
    BY <1>3
  <2> HIDE DEF n, t
  <2> QED
    BY <1>4, <2>1, <2>2, <2>3, <2>4
<1>5. ToSet(s) = T
  BY DEF Lists
<1> HIDE DEF t
<1> QED
  BY <1>2, <1>4, <1>5 DEF Lists, t, U

(* Lists of different elements, one behind the other. *)
LEMMA ListsConcat ==
  ASSUME NEW T, NEW U, NEW s, NEW t, Lists(s, T), Lists(t, U),
         \A x \in T : x \notin U
  PROVE  Lists(s \o t, T \union U)
<1> DEFINE V == T \union U
           st == s \o t
           m == Len(s)
           n == Len(t)
<1>1. s \in Seq(T) /\ t \in Seq(U) /\ ToSet(s) = T /\ ToSet(t) = U
  BY DEF Lists
<1>2. s \in Seq(V) /\ t \in Seq(V)
  <2>1. T \subseteq V /\ U \subseteq V
    OBVIOUS
  <2> HIDE DEF V
  <2> QED
    BY <1>1, <2>1, SeqMonotonic
<1>3. st \in Seq(V) /\ ToSet(st) = ToSet(s) \union ToSet(t)
  <2> HIDE DEF V
  <2> QED
    BY <1>2, ToSetConcat
<1>4. m \in Nat /\ n \in Nat
  BY <1>1, LenProperties
<1>5. /\ Len(st) = m + n
      /\ \A i \in 1 .. m + n : st[i] = IF i <= m THEN s[i] ELSE t[i - m]
  <2> HIDE DEF V
  <2> QED
    BY <1>2, ConcatProperties
<1>6. /\ \A i, j \in 1 .. m : s[i] = s[j] => i = j
      /\ \A i, j \in 1 .. n : t[i] = t[j] => i = j
  BY DEF Lists
<1>7. (\A i \in 1 .. m : s[i] \in T) /\ (\A i \in 1 .. n : t[i] \in U)
  BY <1>1, ElementOfSeq
<1>8. ASSUME NEW i \in 1 .. Len(st), NEW j \in 1 .. Len(st), st[i] = st[j]
      PROVE  i = j
  <2> HIDE DEF m, n, st, V
  <2>1. i \in 1 .. m + n /\ j \in 1 .. m + n
    BY <1>5
  <2>2. \A l \in 1 .. m + n : l <= m => l \in 1 .. m /\ st[l] = s[l] /\ st[l] \in T
    BY <1>4, <1>5, <1>7
  <2>3. \A l \in 1 .. m + n : ~(l <= m) => l - m \in 1 .. n /\ st[l] = t[l - m] /\ st[l] \in U
    <3>1. \A l \in 1 .. m + n : ~(l <= m) => l - m \in 1 .. n
      BY <1>4
    <3> QED
      BY <1>5, <1>7, <3>1
  <2>4. CASE i <= m /\ j <= m
    BY <1>6, <1>8, <2>1, <2>2, <2>4
  <2>5. CASE ~(i <= m) /\ ~(j <= m)
    <3>1. i - m = j - m
      BY <1>6, <1>8, <2>1, <2>3, <2>5
    <3> QED
      BY <1>4, <3>1
  <2>6. CASE i <= m /\ ~(j <= m)
    BY <1>8, <2>1, <2>2, <2>3, <2>6
  <2>7. CASE ~(i <= m) /\ j <= m
    BY <1>8, <2>1, <2>2, <2>3, <2>7
  <2> QED
    BY <2>4, <2>5, <2>6, <2>7
<1> HIDE DEF st, m, n
<1> QED
  BY <1>1, <1>3, <1>8 DEF Lists, st, V

(* The empty list. *)
LEMMA ListsNothing == Lists(<<>>, {})
  BY DEF Lists, ToSet

(* A list has as many elements as it is long.                              *)
LEMMA ListsLength ==
  ASSUME NEW T, NEW s, Lists(s, T)
  PROVE  Cardinality(T) = Len(s)
<1>1. s \in Seq(T) /\ ToSet(s) = T /\ \A i, j \in 1 .. Len(s) : s[i] = s[j] => i = j
  BY DEF Lists
<1>2. Len(s) \in Nat /\ s \in [1 .. Len(s) -> T]
  BY <1>1, LenProperties
<1>3. T = {s[i] : i \in 1 .. Len(s)}
  BY <1>1, ToSetFacts
<1>4. s \in Bijection(1 .. Len(s), T)
  <2>1. s \in Surjection(1 .. Len(s), T)
    BY <1>2, <1>3 DEF Surjection
  <2>2. s \in Injection(1 .. Len(s), T)
    BY <1>1, <1>2 DEF Injection, IsInjective
  <2> QED
    BY <2>1, <2>2 DEF Bijection
<1>5. ExistsBijection(1 .. Len(s), T)
  BY <1>4 DEF ExistsBijection
<1> QED
  BY <1>2, <1>5, FS_CountingElements

(* The pairs of entries that fit, of the entries K of the CPU and the      *)
(* first m of the other unit.                                              *)
FitTogether(cpu, other, K, m) ==
  {p \in K \X (1 .. m) : cpu[p[1]].time + other[p[2]].time <= TimeConstrain}

(* A list of such pairs holds pairs of numbers. *)
LEMMA FitsTyped ==
  ASSUME NEW cpu, NEW other, NEW K, K \subseteq Nat, NEW m \in Nat, NEW s,
         Lists(s, FitTogether(cpu, other, K, m))
  PROVE  s \in Seq(Nat \X Nat)
<1>1. FitTogether(cpu, other, K, m) \subseteq Nat \X Nat
  <2>1. K \X (1 .. m) \subseteq Nat \X Nat
    <3>1. 1 .. m \subseteq Nat
      OBVIOUS
    <3> DEFINE M == 1 .. m
    <3> HIDE DEF M
    <3>2. K \X M \subseteq Nat \X Nat
      BY <3>1 DEF M
    <3> QED
      BY <3>2 DEF M
  <2>2. FitTogether(cpu, other, K, m) \subseteq K \X (1 .. m)
    BY Zenon DEF FitTogether
  <2> QED
    BY <2>1, <2>2, Zenon
<1>2. s \in Seq(FitTogether(cpu, other, K, m))
  BY DEF Lists
<1> QED
  BY <1>1, <1>2, SeqMonotonic

(* The inner loop lists them for one entry of the CPU.                     *)
LEMMA FittingRowFacts ==
  ASSUME NEW cpu, NEW other, Len(other) \in Nat, NEW k \in Nat
  PROVE  Lists(FittingRow(cpu, other, k), FitTogether(cpu, other, {k}, Len(other)))
<1> DEFINE n == Len(other)
           S == Seq(Nat \X Nat)
           Step(j, row) == IF cpu[k].time + other[j].time <= TimeConstrain
                           THEN Append(row, <<k, j>>) ELSE row
           F == [x \in (1 .. n) \X S |-> Step(x[1], x[2])]
           of == CHOOSE g : g = [j \in 0 .. n |->
                   IF j = 0 THEN <<>>
                   ELSE IF cpu[k].time + other[j].time <= TimeConstrain
                        THEN Append(g[j - 1], <<k, j>>) ELSE g[j - 1]]
<1>1. n \in Nat /\ <<>> \in S
  OBVIOUS
<1>2. F \in [(1 .. n) \X S -> S]
  <2>1. ASSUME NEW j \in 1 .. n, NEW row \in S
        PROVE  Step(j, row) \in S
    <3>1. <<k, j>> \in Nat \X Nat
      BY <1>1
    <3>2. Append(row, <<k, j>>) \in S
      BY <3>1, AppendProperties
    <3> QED
      BY <3>2
  <2> HIDE DEF Step, n, S
  <2> QED
    BY <2>1
<1>3. PICK g \in [0 .. n -> S] : IsRecursion(g, n, <<>>, F)
  <2> HIDE DEF F, n, S
  <2> QED
    BY <1>1, <1>2, RecursionExists, Zenon
<1>4. g = [j \in 0 .. n |->
             IF j = 0 THEN <<>>
             ELSE IF cpu[k].time + other[j].time <= TimeConstrain
                  THEN Append(g[j - 1], <<k, j>>) ELSE g[j - 1]]
  <2>1. ASSUME NEW j \in 0 .. n, j # 0
        PROVE  F[<<j, g[j - 1]>>] = Step(j, g[j - 1])
    <3>1. j \in 1 .. n /\ j - 1 \in 0 .. n
      BY <1>1, <2>1
    <3>2. g[j - 1] \in S
      BY <3>1
    <3> HIDE DEF Step, n, S
    <3> QED
      BY <3>1, <3>2
  <2> HIDE DEF F, n, S
  <2> QED
    BY <1>3, <2>1 DEF IsRecursion
<1>5. of = [j \in 0 .. n |->
             IF j = 0 THEN <<>>
             ELSE IF cpu[k].time + other[j].time <= TimeConstrain
                  THEN Append(of[j - 1], <<k, j>>) ELSE of[j - 1]]
  BY <1>4, Zenon
<1> DEFINE X(j) == FitTogether(cpu, other, {k}, j)
           G == {j \in Nat : j <= n => Lists(of[j], X(j))}
<1> HIDE DEF of, F, S, n
<1>6. 0 \in G
  <2>1. of[0] = <<>> /\ X(0) = {}
    BY <1>1, <1>5 DEF FitTogether
  <2> QED
    BY <2>1, ListsNothing
<1>7. ASSUME NEW j \in 1 .. n, j - 1 \in G
      PROVE  j \in G
  <2>1. j \in 0 .. n /\ j # 0 /\ j \in Nat /\ j - 1 \in Nat /\ j - 1 <= n
    BY <1>1
  <2>2. Lists(of[j - 1], X(j - 1))
    BY <1>7, <2>1
  <2>3. \A l \in 1 .. j : l \in 1 .. j - 1 \/ l = j
    BY <2>1
  <2>4. \A l \in 1 .. j - 1 : l \in 1 .. j /\ l # j
    BY <2>1
  <2>5. j \in 1 .. j
    BY <2>1
  <2>6. CASE cpu[k].time + other[j].time <= TimeConstrain
    <3>1. of[j] = Append(of[j - 1], <<k, j>>)
      BY <1>5, <2>1, <2>6
    <3>2. <<k, j>> \notin X(j - 1)
      BY <2>4 DEF FitTogether
    <3>3. X(j) = X(j - 1) \union {<<k, j>>}
      <4>1. \A p \in X(j) : p \in X(j - 1) \/ p = <<k, j>>
        BY <2>3 DEF FitTogether
      <4>2. \A p \in X(j - 1) : p \in X(j)
        BY <2>4 DEF FitTogether
      <4>3. <<k, j>> \in X(j)
        BY <2>5, <2>6 DEF FitTogether
      <4> HIDE DEF X
      <4> QED
        BY <4>1, <4>2, <4>3
    <3>4. Lists(of[j], X(j - 1) \union {<<k, j>>})
      <4> DEFINE row == of[j - 1]
                 fit == X(j - 1)
                 e == <<k, j>>
      <4>1. Lists(row, fit) /\ e \notin fit
        BY <2>2, <3>2
      <4> HIDE DEF row, fit, e
      <4>2. Lists(Append(row, e), fit \union {e})
        BY <4>1, ListsAppend
      <4> QED
        BY <3>1, <4>2, Zenon DEF row, fit, e
    <3> HIDE DEF X
    <3> QED
      BY <2>1, <3>3, <3>4
  <2>7. CASE ~(cpu[k].time + other[j].time <= TimeConstrain)
    <3>1. of[j] = of[j - 1]
      BY <1>5, <2>1, <2>7
    <3>2. X(j) = X(j - 1)
      <4>1. \A p \in X(j) : p \in X(j - 1)
        BY <2>3, <2>7 DEF FitTogether
      <4>2. \A p \in X(j - 1) : p \in X(j)
        BY <2>4 DEF FitTogether
      <4> HIDE DEF X
      <4> QED
        BY <4>1, <4>2
    <3> HIDE DEF X
    <3> QED
      BY <2>1, <2>2, <3>1, <3>2
  <2> QED
    BY <2>6, <2>7
<1>8. n \in G
  <2> HIDE DEF G
  <2>1. 0 .. n \subseteq G
    BY <1>1, <1>6, <1>7, UpTo
  <2> QED
    BY <1>1, <2>1
<1>9. FittingRow(cpu, other, k) = of[n]
  BY Zenon DEF FittingRow, of, n
<1> QED
  BY <1>1, <1>8, <1>9 DEF n

(* The two loops list all of them.                                         *)
LEMMA FittingFacts ==
  ASSUME NEW cpu, NEW other, Len(cpu) \in Nat, Len(other) \in Nat
  PROVE  Lists(Fitting(cpu, other), FitTogether(cpu, other, 1 .. Len(cpu), Len(other)))
<1> DEFINE m == Len(cpu)
           n == Len(other)
           S == Seq(Nat \X Nat)
           R(k) == FittingRow(cpu, other, k)
           F == [x \in (1 .. m) \X S |-> x[2] \o R(x[1])]
           of == CHOOSE g : g = [k \in 0 .. m |->
                   IF k = 0 THEN <<>> ELSE g[k - 1] \o FittingRow(cpu, other, k)]
           X(k) == FitTogether(cpu, other, 1 .. k, n)
           Y(k) == FitTogether(cpu, other, {k}, n)
<1>1. m \in Nat /\ n \in Nat /\ <<>> \in S
  OBVIOUS
<1>2. ASSUME NEW k \in 1 .. m
      PROVE  Lists(R(k), Y(k)) /\ R(k) \in S
  <2>1. k \in Nat /\ {k} \subseteq Nat
    BY <1>1
  <2>2. Lists(R(k), Y(k))
    BY <2>1, FittingRowFacts
  <2> QED
    BY <1>1, <2>1, <2>2, FitsTyped
<1> HIDE DEF m, n, R
<1>3. F \in [(1 .. m) \X S -> S]
  <2>1. ASSUME NEW k \in 1 .. m, NEW s \in S
        PROVE  s \o R(k) \in S
    BY <1>2, ConcatProperties
  <2> HIDE DEF S
  <2> QED
    BY <2>1
<1>4. PICK g \in [0 .. m -> S] : IsRecursion(g, m, <<>>, F)
  <2> HIDE DEF F, S
  <2> QED
    BY <1>1, <1>3, RecursionExists, Zenon
<1>5. g = [k \in 0 .. m |-> IF k = 0 THEN <<>> ELSE g[k - 1] \o R(k)]
  <2>1. ASSUME NEW k \in 0 .. m, k # 0
        PROVE  F[<<k, g[k - 1]>>] = g[k - 1] \o R(k)
    <3>1. k \in 1 .. m /\ k - 1 \in 0 .. m
      BY <1>1, <2>1
    <3>2. g[k - 1] \in S
      BY <3>1
    <3> HIDE DEF S
    <3> QED
      BY <3>1, <3>2
  <2> HIDE DEF F, S
  <2> QED
    BY <1>4, <2>1 DEF IsRecursion
<1>6. of = [k \in 0 .. m |-> IF k = 0 THEN <<>> ELSE of[k - 1] \o R(k)]
  <2>1. g = [k \in 0 .. m |->
               IF k = 0 THEN <<>> ELSE g[k - 1] \o FittingRow(cpu, other, k)]
    BY <1>5, Zenon DEF R
  <2> QED
    BY <2>1, Zenon DEF R
<1> DEFINE G == {k \in Nat : k <= m => Lists(of[k], X(k))}
<1> HIDE DEF of, F, S
<1>7. 0 \in G
  <2>1. of[0] = <<>> /\ X(0) = {}
    BY <1>1, <1>6 DEF FitTogether
  <2> QED
    BY <2>1, ListsNothing
<1>8. ASSUME NEW k \in 1 .. m, k - 1 \in G
      PROVE  k \in G
  <2>1. k \in 0 .. m /\ k # 0 /\ k \in Nat /\ k - 1 \in Nat /\ k - 1 <= m
    BY <1>1
  <2>2. Lists(of[k - 1], X(k - 1))
    BY <1>8, <2>1
  <2>3. \A l \in 1 .. k : l \in 1 .. k - 1 \/ l = k
    BY <2>1
  <2>4. \A l \in 1 .. k - 1 : l \in 1 .. k /\ l # k
    BY <2>1
  <2>5. k \in 1 .. k
    BY <2>1
  <2>6. of[k] = of[k - 1] \o R(k)
    BY <1>6, <2>1
  <2>7. \A p \in X(k - 1) : p \notin Y(k)
    BY <2>4 DEF FitTogether
  <2>8. X(k) = X(k - 1) \union Y(k)
    <3>1. \A p \in X(k) : p \in X(k - 1) \/ p \in Y(k)
      BY <2>3 DEF FitTogether
    <3>2. \A p \in X(k - 1) : p \in X(k)
      BY <2>4 DEF FitTogether
    <3>3. \A p \in Y(k) : p \in X(k)
      BY <2>5 DEF FitTogether
    <3> HIDE DEF X, Y
    <3> QED
      BY <3>1, <3>2, <3>3
  <2> HIDE DEF X, Y
  <2>9. Lists(of[k], X(k - 1) \union Y(k))
    <3> DEFINE rows == of[k - 1]
               row == R(k)
               fit == X(k - 1)
               more == Y(k)
    <3>1. Lists(rows, fit) /\ Lists(row, more) /\ \A p \in fit : p \notin more
      BY <1>2, <2>2, <2>7
    <3> HIDE DEF rows, row, fit, more
    <3>2. Lists(rows \o row, fit \union more)
      BY <3>1, ListsConcat
    <3> QED
      BY <2>6, <3>2, Zenon DEF rows, row, fit, more
  <2> QED
    BY <2>1, <2>8, <2>9
<1>9. m \in G
  <2> HIDE DEF G
  <2>1. 0 .. m \subseteq G
    BY <1>1, <1>7, <1>8, UpTo
  <2> QED
    BY <1>1, <2>1
<1>10. Fitting(cpu, other) = of[m]
  BY Zenon DEF Fitting, of, m
<1> QED
  BY <1>1, <1>9, <1>10 DEF n, m

Entry == [time : Nat, power : Nat]

(* The first n modes of line i. *)
Taken(i, n) == {Lines[i][j] : j \in 1 .. n}

(* The lists hold an entry for each of the first i lines, with its time.   *)
ListedUpTo(i) ==
  \A u \in Units : /\ Len(cSOLSPClist[u]) = i
                   /\ \A k \in 1 .. i : cSOLSPClist[u][k].time = TimeOf(u, Chosen(k))

(* What is left of the file, and the totals of the line that is read.      *)
ReadUpTo(i) ==
  /\ ListedUpTo(i)
  /\ file \in Seq(Seq(Modes)) /\ Len(file) = 7 - i
  /\ \A k \in 1 .. 7 - i : file[k] = Lines[i + k]
  /\ i < 7 => /\ word \in 0 .. Len(Lines[i + 1])
              /\ \A u \in Units : total[u].time = TimeOf(u, Taken(i + 1, word))

DvfsIInv ==
  /\ file \in {<<>>, Lines} \/ phase \notin {"write", "open"}
  /\ "iFilePtr" \in openErrors => phase \in {"answer", "done"}
  /\ total \in [Units -> Entry] /\ cSOLSPClist \in [Units -> Seq(Entry)]
  /\ DOMAIN answers = Units \ {"CPU"}
  /\ phase \in {"write", "open"} => word = 0 /\ total = Zero /\ ListedUpTo(0)
  /\ phase = "read" => \E i \in 0 .. 7 : ReadUpTo(i)
  /\ phase \in {"answer", "done"} =>
       ListedUpTo(IF "iFilePtr" \in openErrors THEN 0 ELSE 7)
  /\ phase = "done" =>
       answers = [u \in Units \ {"CPU"} |->
                    Fitting(cSOLSPClist["CPU"], cSOLSPClist[u])]

(* It holds at the start, *)
LEMMA InitDvfsIInv == DvfsInit => DvfsIInv
<1> SUFFICES ASSUME DvfsInit PROVE DvfsIInv
  OBVIOUS
<1>1. Zero \in [Units -> Entry]
  BY DEF Zero, Entry
<1>2. ListedUpTo(0) /\ cSOLSPClist \in [Units -> Seq(Entry)]
  BY DEF ListedUpTo, DvfsInit
<1> QED
  BY <1>1, <1>2 DEF DvfsInit, DvfsIInv

(* The modes of a line are taken one by one, each is new. *)
LEMMA TakenFacts ==
  ASSUME NEW i \in 1 .. 7
  PROVE  /\ Taken(i, 0) = {} /\ Len(Lines[i]) \in Nat
         /\ Taken(i, Len(Lines[i])) = Chosen(i)
         /\ \A n \in 0 .. Len(Lines[i]) - 1 :
              /\ Lines[i][n + 1] \in Modes
              /\ Taken(i, n) \in SUBSET Modes /\ Lines[i][n + 1] \notin Taken(i, n)
              /\ Taken(i, n + 1) = Taken(i, n) \union {Lines[i][n + 1]}
<1> DEFINE s == Lines[i]
           L == Len(s)
<1>1. s \in Seq(Modes) /\ \A k, l \in 1 .. L : s[k] = s[l] => k = l
  BY LinesTyped
<1>2. L \in Nat /\ \A k \in 1 .. L : s[k] \in Modes
  BY <1>1, ElementOfSeq, LenProperties
<1>3. Taken(i, 0) = {}
  BY DEF Taken
<1>4. Taken(i, L) = Chosen(i)
  BY <1>1, ToSetFacts DEF Taken, Chosen
<1>5. \A n : Taken(i, n) = {s[k] : k \in 1 .. n}
  BY DEF Taken
<1> HIDE DEF s, L
<1>6. ASSUME NEW n \in 0 .. L - 1
      PROVE  /\ s[n + 1] \in Modes
             /\ Taken(i, n) \in SUBSET Modes /\ s[n + 1] \notin Taken(i, n)
             /\ Taken(i, n + 1) = Taken(i, n) \union {s[n + 1]}
  <2>1. n + 1 \in 1 .. L /\ \A k \in 1 .. n : k \in 1 .. L /\ k # n + 1
    BY <1>2
  <2>2. \A k : k \in 1 .. n + 1 <=> k \in 1 .. n \/ k = n + 1
    BY <1>2
  <2> DEFINE m == n + 1
  <2> HIDE DEF m
  <2>3. m \in 1 .. L /\ \A k \in 1 .. n : k \in 1 .. L /\ k # m
    BY <2>1 DEF m
  <2>4. \A k : k \in 1 .. m <=> k \in 1 .. n \/ k = m
    BY <2>2 DEF m
  <2>5. s[m] \in Modes /\ Taken(i, n) \in SUBSET Modes /\ s[m] \notin Taken(i, n)
    <3>1. Taken(i, n) = {s[k] : k \in 1 .. n}
      BY <1>5
    <3> DEFINE K == 1 .. n
               N == 1 .. L
    <3> HIDE DEF K, N
    <3>2. m \in N /\ \A k \in K : k \in N /\ k # m
      BY <2>3 DEF K, N
    <3>3. Taken(i, n) = {s[k] : k \in K}
      BY <3>1 DEF K
    <3>4. \A k \in N : s[k] \in Modes
      BY <1>2 DEF N
    <3>5. \A k, l \in N : s[k] = s[l] => k = l
      BY <1>1 DEF N
    <3>6. \A x \in Taken(i, n) : x \in Modes /\ x # s[m]
      BY <3>2, <3>3, <3>4, <3>5
    <3> QED
      BY <3>2, <3>4, <3>6
  <2>6. Taken(i, m) = Taken(i, n) \union {s[m]}
    BY <1>5, <2>4
  <2> QED
    BY <2>5, <2>6 DEF m
<1> QED
  BY <1>2, <1>3, <1>4, <1>6 DEF s, L

(* and every step keeps it: the lines are written, or not,                 *)
LEMMA WriteKeeps == DvfsIInv /\ (SetModel_WorkSolSpaceWt \/ Wt_CannotOpen) => DvfsIInv'
<1> SUFFICES ASSUME DvfsIInv, SetModel_WorkSolSpaceWt \/ Wt_CannotOpen PROVE DvfsIInv'
  OBVIOUS
<1>1. /\ file' \in {file, Lines} /\ phase = "write" /\ phase' = "open"
      /\ "iFilePtr" \in openErrors' <=> "iFilePtr" \in openErrors
      /\ UNCHANGED <<word, total, cSOLSPClist, answers>>
  BY DEF SetModel_WorkSolSpaceWt, Wt_CannotOpen
<1>2. /\ word = 0 /\ total = Zero /\ ListedUpTo(0) /\ file \in {<<>>, Lines}
      /\ "iFilePtr" \notin openErrors
  BY <1>1 DEF DvfsIInv
<1>3. ListedUpTo(0)'
  BY <1>1, <1>2 DEF ListedUpTo
<1> QED
  BY <1>1, <1>2, <1>3 DEF DvfsIInv

(* the file is opened,                                                     *)
LEMMA OpenKeeps == DvfsIInv /\ Rd_Open => DvfsIInv'
<1> SUFFICES ASSUME DvfsIInv, Rd_Open PROVE DvfsIInv'
  OBVIOUS
<1>1. /\ file # <<>> /\ phase = "open" /\ phase' = "read"
      /\ UNCHANGED <<file, openErrors, word, total, cSOLSPClist, answers>>
  BY DEF Rd_Open
<1>2. word = 0 /\ total = Zero /\ ListedUpTo(0) /\ file = Lines
  BY <1>1 DEF DvfsIInv
<1>3. ListedUpTo(0)'
  BY <1>1, <1>2 DEF ListedUpTo
<1>4. /\ file' \in Seq(Seq(Modes)) /\ Len(file') = 7 - 0
      /\ \A k \in 1 .. 7 - 0 : file'[k] = Lines[0 + k]
  BY <1>1, <1>2, LinesTyped
<1>5. /\ word' \in 0 .. Len(Lines[1])
      /\ \A u \in Units : total'[u].time = TimeOf(u, Taken(1, word'))
  <2>1. Taken(1, 0) = {} /\ Len(Lines[1]) \in Nat
    BY TakenFacts
  <2>2. \A u \in Units : Zero[u].time = 0 /\ TimeOf(u, {}) = 0
    BY TimeOfFacts DEF Zero
  <2>3. word' = 0 /\ total' = Zero
    BY <1>1, <1>2
  <2>4. \A n \in Nat : 0 \in 0 .. n
    OBVIOUS
  <2> QED
    BY <2>1, <2>2, <2>3, <2>4, Zenon
<1>6. ReadUpTo(0)'
  <2>1. 0 + 1 = 1
    OBVIOUS
  <2> QED
    BY <1>3, <1>4, <1>5, <2>1, Zenon DEF ReadUpTo
<1> QED
  BY <1>1, <1>6 DEF DvfsIInv

(* or cannot be, and the lists stay empty,                                 *)
LEMMA CannotOpenKeeps == DvfsIInv /\ Rd_CannotOpen => DvfsIInv'
<1> SUFFICES ASSUME DvfsIInv, Rd_CannotOpen PROVE DvfsIInv'
  OBVIOUS
<1>1. /\ phase = "open" /\ phase' = "answer" /\ "iFilePtr" \in openErrors'
      /\ UNCHANGED <<file, word, total, cSOLSPClist, answers>>
  BY DEF Rd_CannotOpen
<1>2. ListedUpTo(0)'
  BY <1>1 DEF DvfsIInv, ListedUpTo
<1> QED
  BY <1>1, <1>2 DEF DvfsIInv

(* the program ends at the stray pointer, *)
LEMMA StrayKeeps == DvfsIInv /\ Rd_Stray => DvfsIInv'
  BY DEF DvfsIInv, Rd_Stray

(* The line that is read. *)
LEMMA HeadIsLine ==
  ASSUME NEW i \in 0 .. 7, ReadUpTo(i), file # <<>>
  PROVE  /\ i \in 0 .. 6 /\ i + 1 \in 1 .. 7 /\ Head(file) = Lines[i + 1]
         /\ Tail(file) \in Seq(Seq(Modes)) /\ Len(Tail(file)) = 7 - (i + 1)
         /\ \A k \in 1 .. 7 - (i + 1) : Tail(file)[k] = Lines[(i + 1) + k]
<1>1. /\ file \in Seq(Seq(Modes)) /\ Len(file) = 7 - i
      /\ \A k \in 1 .. 7 - i : file[k] = Lines[i + k]
  BY DEF ReadUpTo
<1>2. Len(file) # 0
  BY <1>1, EmptySeq
<1>3. i \in 0 .. 6 /\ i + 1 \in 1 .. 7
  BY <1>1, <1>2
<1>4. /\ Head(file) = file[1] /\ Tail(file) \in Seq(Seq(Modes))
      /\ Len(Tail(file)) = Len(file) - 1
      /\ \A k \in 1 .. Len(Tail(file)) : Tail(file)[k] = file[k + 1]
  BY <1>1, HeadTailProperties
<1>5. file[1] = Lines[i + 1]
  BY <1>1, <1>3
<1>6. Len(Tail(file)) = 7 - (i + 1)
  BY <1>1, <1>3, <1>4
<1>7. ASSUME NEW k \in 1 .. 7 - (i + 1)
      PROVE  Tail(file)[k] = Lines[(i + 1) + k]
  <2>1. k + 1 \in 1 .. 7 - i /\ i + (k + 1) = (i + 1) + k
    BY <1>3
  <2>2. Tail(file)[k] = file[k + 1]
    BY <1>4, <1>6
  <2> QED
    BY <1>1, <2>1, <2>2
<1> QED
  BY <1>3, <1>4, <1>5, <1>6, <1>7

(* a word adds its times to the totals, *)
LEMMA WordKeeps == DvfsIInv /\ Rd_Word => DvfsIInv'
<1> SUFFICES ASSUME DvfsIInv, Rd_Word PROVE DvfsIInv'
  OBVIOUS
<1> DEFINE n == word
           mode == Head(file)[n + 1]
<1>1. /\ phase = "read" /\ file # <<>> /\ n < Len(Head(file)) /\ word' = n + 1
      /\ total' = [u \in Units |->
                     [time  |-> total[u].time + Work[u][mode].time,
                      power |-> total[u].power + Work[u][mode].power]]
      /\ UNCHANGED <<file, openErrors, cSOLSPClist, answers, phase>>
  BY DEF Rd_Word
<1>2. PICK i \in 0 .. 7 : ReadUpTo(i)
  BY <1>1 DEF DvfsIInv
<1>3. i \in 0 .. 6 /\ i + 1 \in 1 .. 7 /\ Head(file) = Lines[i + 1]
  BY <1>1, <1>2, HeadIsLine
<1> DEFINE j == i + 1
           L == Len(Lines[j])
<1>4. /\ n \in 0 .. L /\ L \in Nat
      /\ \A u \in Units : total[u].time = TimeOf(u, Taken(j, n))
  <2>1. j < 7 + 1 /\ i < 7
    BY <1>3
  <2>2. n \in 0 .. L /\ \A u \in Units : total[u].time = TimeOf(u, Taken(j, n))
    BY <1>2, <2>1 DEF ReadUpTo
  <2> HIDE DEF j
  <2>3. Len(Lines[j]) \in Nat
    BY <1>3, TakenFacts DEF j
  <2> QED
    BY <2>2, <2>3
<1>5. n \in 0 .. L - 1 /\ n + 1 \in 0 .. L /\ mode = Lines[j][n + 1]
  <2>1. n < L
    BY <1>1, <1>3
  <2> QED
    BY <1>3, <1>4, <2>1
<1>6. /\ mode \in Modes /\ Taken(j, n) \in SUBSET Modes /\ mode \notin Taken(j, n)
      /\ Taken(j, n + 1) = Taken(j, n) \union {mode}
  <2> HIDE DEF j
  <2>1. j \in 1 .. 7
    BY <1>3 DEF j
  <2> QED
    BY <1>5, <2>1, TakenFacts
<1> HIDE DEF mode
<1>7. ASSUME NEW u \in Units
      PROVE  /\ total'[u] \in Entry
             /\ total'[u].time = TimeOf(u, Taken(j, n + 1))
  <2>1. total[u] \in Entry /\ Work[u][mode] \in Entry
    BY <1>6, DvfsAssumption DEF DvfsIInv, Entry
  <2>2. /\ total'[u].time = total[u].time + Work[u][mode].time
        /\ total'[u] = [time  |-> total[u].time + Work[u][mode].time,
                        power |-> total[u].power + Work[u][mode].power]
    BY <1>1
  <2>3. total'[u] \in Entry
    BY <2>1, <2>2 DEF Entry
  <2>4. TimeOf(u, Taken(j, n) \union {mode}) = TimeOf(u, Taken(j, n)) + Work[u][mode].time
    BY <1>6, TimeOfFacts
  <2> QED
    BY <1>4, <1>6, <2>2, <2>3, <2>4
<1>8. total' \in [Units -> Entry]
  BY <1>1, <1>7
<1>9. ReadUpTo(i)'
  <2>1. ListedUpTo(i)'
    BY <1>1, <1>2 DEF ReadUpTo, ListedUpTo
  <2>2. /\ file' \in Seq(Seq(Modes)) /\ Len(file') = 7 - i
        /\ \A k \in 1 .. 7 - i : file'[k] = Lines[i + k]
    BY <1>1, <1>2 DEF ReadUpTo
  <2>3. /\ word' \in 0 .. Len(Lines[i + 1])
        /\ \A u \in Units : total'[u].time = TimeOf(u, Taken(i + 1, word'))
    BY <1>1, <1>5, <1>7
  <2> QED
    BY <2>1, <2>2, <2>3, Zenon DEF ReadUpTo
<1> QED
  BY <1>1, <1>8, <1>9 DEF DvfsIInv

(* the end of a line moves them to the lists, *)
LEMMA LineKeeps == DvfsIInv /\ Rd_EndOfLine => DvfsIInv'
<1> SUFFICES ASSUME DvfsIInv, Rd_EndOfLine PROVE DvfsIInv'
  OBVIOUS
<1>1. /\ phase = "read" /\ file # <<>> /\ word = Len(Head(file))
      /\ cSOLSPClist' = [u \in Units |-> Append(cSOLSPClist[u], total[u])]
      /\ total' = Zero /\ word' = 0 /\ file' = Tail(file)
      /\ UNCHANGED <<openErrors, answers, phase>>
  BY DEF Rd_EndOfLine
<1>2. PICK i \in 0 .. 7 : ReadUpTo(i)
  BY <1>1 DEF DvfsIInv
<1> DEFINE j == i + 1
<1>3. /\ i \in 0 .. 6 /\ j \in 1 .. 7 /\ Head(file) = Lines[j]
      /\ Tail(file) \in Seq(Seq(Modes)) /\ Len(Tail(file)) = 7 - j
      /\ \A k \in 1 .. 7 - j : Tail(file)[k] = Lines[j + k]
  BY <1>1, <1>2, HeadIsLine
<1>4. \A u \in Units : total[u].time = TimeOf(u, Chosen(j))
  <2>1. \A u \in Units : total[u].time = TimeOf(u, Taken(j, word))
    BY <1>2, <1>3 DEF ReadUpTo
  <2> HIDE DEF j
  <2>2. Taken(j, word) = Chosen(j)
    BY <1>1, <1>3, TakenFacts
  <2> QED
    BY <2>1, <2>2
<1>5. ASSUME NEW u \in Units
      PROVE  /\ cSOLSPClist'[u] \in Seq(Entry) /\ Len(cSOLSPClist'[u]) = j
             /\ \A k \in 1 .. j : cSOLSPClist'[u][k].time = TimeOf(u, Chosen(k))
  <2> DEFINE s == cSOLSPClist[u]
             e == total[u]
             t == Append(s, e)
  <2>1. cSOLSPClist'[u] = t
    BY <1>1
  <2>2. s \in Seq(Entry) /\ e \in Entry
    BY DEF DvfsIInv
  <2>3. Len(s) = i /\ \A k \in 1 .. i : s[k].time = TimeOf(u, Chosen(k))
    BY <1>2 DEF ReadUpTo, ListedUpTo
  <2>4. e.time = TimeOf(u, Chosen(j))
    BY <1>4
  <2> HIDE DEF s, e
  <2>5. /\ t \in Seq(Entry) /\ Len(t) = Len(s) + 1
        /\ \A k \in 1 .. Len(s) : t[k] = s[k]
        /\ t[Len(s) + 1] = e
    BY <2>2, AppendProperties
  <2>6. \A k \in 1 .. j : k \in 1 .. i \/ k = j
    BY <1>3
  <2> HIDE DEF t
  <2>7. t \in Seq(Entry) /\ Len(t) = j /\ t[j] = e /\ \A k \in 1 .. i : t[k] = s[k]
    BY <2>3, <2>5
  <2> HIDE DEF j
  <2> QED
    BY <2>1, <2>3, <2>4, <2>6, <2>7
<1>6. cSOLSPClist' \in [Units -> Seq(Entry)]
  BY <1>1, <1>5
<1>7. ListedUpTo(j)'
  <2> HIDE DEF j
  <2> QED
    BY <1>5 DEF ListedUpTo
<1>8. ASSUME j < 7
      PROVE  /\ word' \in 0 .. Len(Lines[j + 1])
             /\ \A u \in Units : total'[u].time = TimeOf(u, Taken(j + 1, word'))
  <2> DEFINE l == j + 1
  <2>0. l \in 1 .. 7
    BY <1>3, <1>8
  <2> HIDE DEF l
  <2>1. Taken(l, 0) = {} /\ Len(Lines[l]) \in Nat
    BY <2>0, TakenFacts
  <2>2. \A u \in Units : Zero[u].time = 0 /\ TimeOf(u, {}) = 0
    BY TimeOfFacts DEF Zero
  <2>3. \A m \in Nat : 0 \in 0 .. m
    OBVIOUS
  <2>4. /\ word' \in 0 .. Len(Lines[l])
        /\ \A u \in Units : total'[u].time = TimeOf(u, Taken(l, word'))
    BY <1>1, <2>1, <2>2, <2>3
  <2> QED
    BY <2>4 DEF l
<1>9. ReadUpTo(j)'
  <2>1. /\ file' \in Seq(Seq(Modes)) /\ Len(file') = 7 - j
        /\ \A k \in 1 .. 7 - j : file'[k] = Lines[j + k]
    BY <1>1, <1>3
  <2> HIDE DEF j
  <2> QED
    BY <1>7, <1>8, <2>1, Zenon DEF ReadUpTo
<1>10. Zero \in [Units -> Entry]
  BY DEF Zero, Entry
<1>11. j \in 0 .. 7
  BY <1>3
<1> HIDE DEF j
<1> QED
  BY <1>1, <1>6, <1>9, <1>10, <1>11 DEF DvfsIInv

(* the file ends, *)
LEMMA FileKeeps == DvfsIInv /\ Rd_EndOfFile => DvfsIInv'
<1> SUFFICES ASSUME DvfsIInv, Rd_EndOfFile PROVE DvfsIInv'
  OBVIOUS
<1>1. /\ phase = "read" /\ file = <<>> /\ phase' = "answer"
      /\ UNCHANGED <<file, openErrors, word, total, cSOLSPClist, answers>>
  BY DEF Rd_EndOfFile
<1>2. PICK i \in 0 .. 7 : ReadUpTo(i)
  BY <1>1 DEF DvfsIInv
<1>3. Len(file) = 7 - i /\ Len(file) = 0
  BY <1>1, <1>2 DEF ReadUpTo
<1>4. i = 7
  BY <1>3
<1>5. ListedUpTo(7)' /\ "iFilePtr" \notin openErrors'
  BY <1>1, <1>2, <1>4 DEF ReadUpTo, ListedUpTo, DvfsIInv
<1> QED
  BY <1>1, <1>5 DEF DvfsIInv

(* the answers are printed. *)
LEMMA AnswerKeeps == DvfsIInv /\ SetModel_SolSpaceAns => DvfsIInv'
<1> SUFFICES ASSUME DvfsIInv, SetModel_SolSpaceAns PROVE DvfsIInv'
  OBVIOUS
<1>1. /\ phase = "answer" /\ phase' = "done"
      /\ answers' = [u \in DOMAIN answers |->
                       Fitting(cSOLSPClist["CPU"], cSOLSPClist[u])]
      /\ UNCHANGED <<file, openErrors, word, total, cSOLSPClist>>
  BY DEF SetModel_SolSpaceAns
<1> DEFINE n == IF "iFilePtr" \in openErrors THEN 0 ELSE 7
<1>2. DOMAIN answers = Units \ {"CPU"} /\ ListedUpTo(n)
  BY <1>1 DEF DvfsIInv
<1>3. ListedUpTo(n)'
  BY <1>1, <1>2 DEF ListedUpTo
<1> QED
  BY <1>1, <1>2, <1>3 DEF DvfsIInv

(* So all steps keep it. *)
LEMMA NextDvfsIInv == DvfsIInv /\ [DvfsNext]_dvfsVars => DvfsIInv'
<1>1. DvfsIInv /\ UNCHANGED dvfsVars => DvfsIInv'
  <2> SUFFICES ASSUME DvfsIInv, UNCHANGED dvfsVars PROVE DvfsIInv'
    OBVIOUS
  <2>1. /\ file' = file /\ word' = word /\ total' = total /\ phase' = phase
        /\ cSOLSPClist' = cSOLSPClist /\ answers' = answers
        /\ openErrors' = openErrors
    BY DEF dvfsVars
  <2>2. \A i : ListedUpTo(i) => ListedUpTo(i)'
    BY <2>1 DEF ListedUpTo
  <2>3. \A i : ReadUpTo(i) => ReadUpTo(i)'
    BY <2>1, <2>2 DEF ReadUpTo
  <2> QED
    BY <2>1, <2>2, <2>3 DEF DvfsIInv
<1> QED
  BY <1>1, WriteKeeps, OpenKeeps, CannotOpenKeeps, StrayKeeps, WordKeeps,
     LineKeeps, FileKeeps, AnswerKeeps
     DEF DvfsNext

(* What is printed, read as choices of modes, and what should be.          *)
Printed(s) == {<<Chosen(s[n][1]), Chosen(s[n][2])>> : n \in DOMAIN s}

FittingChoices(u) ==
  {p \in ModeChoices \X ModeChoices : TimeOf("CPU", p[1]) + TimeOf(u, p[2]) <= TimeConstrain}

(* Every fitting choice is printed, each once. *)
LEMMA PrintedFacts ==
  ASSUME NEW u \in Units, ListedUpTo(7), NEW s,
         s = Fitting(cSOLSPClist["CPU"], cSOLSPClist[u])
  PROVE  Cardinality(Printed(s)) = Len(s) /\ Printed(s) = FittingChoices(u)
<1> DEFINE cpu == cSOLSPClist["CPU"]
           other == cSOLSPClist[u]
           T == FitTogether(cpu, other, 1 .. 7, 7)
           pick(q) == <<Chosen(q[1]), Chosen(q[2])>>
           N == 1 .. Len(s)
           t == [n \in N |-> pick(s[n])]
<1>1. /\ Len(cpu) = 7 /\ \A k \in 1 .. 7 : cpu[k].time = TimeOf("CPU", Chosen(k))
      /\ Len(other) = 7 /\ \A k \in 1 .. 7 : other[k].time = TimeOf(u, Chosen(k))
  BY DEF ListedUpTo, Units
<1>2. Lists(s, T)
  <2>0. s = Fitting(cpu, other)
    OBVIOUS
  <2> HIDE DEF cpu, other
  <2>1. Len(cpu) \in Nat /\ Len(other) \in Nat
    BY <1>1
  <2>2. Lists(Fitting(cpu, other), FitTogether(cpu, other, 1 .. Len(cpu), Len(other)))
    BY <2>1, FittingFacts, Zenon
  <2> QED
    BY <1>1, <2>0, <2>2, Zenon
<1> HIDE DEF T
<1>3. /\ s \in Seq(T) /\ Len(s) \in Nat /\ DOMAIN s = N
      /\ T = {s[n] : n \in N}
      /\ \A x, y \in N : s[x] = s[y] => x = y
  <2>1. s \in Seq(T) /\ ToSet(s) = T /\ \A x, y \in N : s[x] = s[y] => x = y
    BY <1>2, Zenon DEF Lists
  <2>2. Len(s) \in Nat /\ DOMAIN s = N
    BY <2>1, LenProperties
  <2>3. ToSet(s) = {s[n] : n \in N}
    BY <2>2, Zenon DEF ToSet
  <2> QED
    BY <2>1, <2>2, <2>3, Zenon
<1>4. \A q \in T : /\ q \in (1 .. 7) \X (1 .. 7) /\ q[1] \in 1 .. 7 /\ q[2] \in 1 .. 7
                   /\ q = <<q[1], q[2]>>
                   /\ TimeOf("CPU", Chosen(q[1])) + TimeOf(u, Chosen(q[2])) <= TimeConstrain
  <2>1. \A q \in T : /\ q \in (1 .. 7) \X (1 .. 7)
                     /\ cpu[q[1]].time + other[q[2]].time <= TimeConstrain
    BY Zenon DEF FitTogether, T
  <2>2. \A q \in (1 .. 7) \X (1 .. 7) : /\ q[1] \in 1 .. 7 /\ q[2] \in 1 .. 7
                                         /\ q = <<q[1], q[2]>>
    OBVIOUS
  <2> HIDE DEF cpu, other
  <2> QED
    BY <1>1, <2>1, <2>2
<1>5. ASSUME NEW i \in 1 .. 7, NEW j \in 1 .. 7,
             TimeOf("CPU", Chosen(i)) + TimeOf(u, Chosen(j)) <= TimeConstrain
      PROVE  <<i, j>> \in T
  <2> HIDE DEF cpu, other
  <2>1. cpu[i].time + other[j].time <= TimeConstrain
    BY <1>1, <1>5
  <2> QED
    BY <2>1 DEF FitTogether, T
<1> HIDE DEF N
<1>6. /\ \A n \in N : s[n] \in T
      /\ \A q \in T : \E n \in N : q = s[n]
  BY <1>3
<1>7. \A p : p \in Printed(s) <=> \E n \in N : p = pick(s[n])
  BY <1>3 DEF Printed
<1>8. \A p : p \in Printed(s) <=> \E q \in T : p = pick(q)
  <2> HIDE DEF pick
  <2> QED
    BY <1>6, <1>7
<1>9. Printed(s) = FittingChoices(u)
  <2>1. ASSUME NEW q \in T
        PROVE  pick(q) \in FittingChoices(u)
    <3>1. Chosen(q[1]) \in ModeChoices /\ Chosen(q[2]) \in ModeChoices
      BY <1>4, ChosenFacts
    <3> DEFINE p == pick(q)
    <3>2. p[1] = Chosen(q[1]) /\ p[2] = Chosen(q[2]) /\ p \in ModeChoices \X ModeChoices
      BY <3>1
    <3> HIDE DEF p
    <3>3. TimeOf("CPU", p[1]) + TimeOf(u, p[2]) <= TimeConstrain
      BY <1>4, <3>2
    <3>4. p \in FittingChoices(u)
      BY <3>2, <3>3 DEF FittingChoices
    <3> QED
      BY <3>4 DEF p
  <2>2. ASSUME NEW p \in FittingChoices(u)
        PROVE  \E q \in T : p = pick(q)
    <3>1. /\ p \in ModeChoices \X ModeChoices
          /\ TimeOf("CPU", p[1]) + TimeOf(u, p[2]) <= TimeConstrain
      BY Zenon DEF FittingChoices
    <3>2. p[1] \in ModeChoices /\ p[2] \in ModeChoices /\ p = <<p[1], p[2]>>
      BY <3>1
    <3>3. PICK i \in 1 .. 7 : Chosen(i) = p[1]
      BY <3>2, ChosenFacts
    <3>4. PICK j \in 1 .. 7 : Chosen(j) = p[2]
      BY <3>2, ChosenFacts
    <3>5. <<i, j>> \in T
      BY <1>5, <3>1, <3>3, <3>4
    <3>6. pick(<<i, j>>) = <<Chosen(i), Chosen(j)>>
      OBVIOUS
    <3> HIDE DEF pick
    <3> QED
      BY <3>2, <3>3, <3>4, <3>5, <3>6
  <2> HIDE DEF pick
  <2> QED
    BY <1>8, <2>1, <2>2
<1>10. ASSUME NEW q \in T, NEW r \in T, pick(q) = pick(r)
       PROVE  q = r
  <2>1. Chosen(q[1]) = Chosen(r[1]) /\ Chosen(q[2]) = Chosen(r[2])
    BY <1>10
  <2>2. q[1] = r[1] /\ q[2] = r[2]
    BY <1>4, <2>1, ChosenFacts
  <2> QED
    BY <1>4, <2>2
<1>11. Lists(t, Printed(s)) /\ Len(t) = Len(s)
  <2> HIDE DEF pick
  <2>1. \A n \in N : s[n] \in T /\ t[n] = pick(s[n])
    BY <1>6
  <2>2. t \in [N -> Printed(s)]
    BY <1>7
  <2> HIDE DEF t
  <2>3. t \in Seq(Printed(s)) /\ Len(t) = Len(s)
    BY <1>3, <2>2, FunctionIsSequence DEF N
  <2>4. ToSet(t) = {t[n] : n \in N}
    <3>1. ToSet(t) = {t[n] : n \in 1 .. Len(t)}
      BY <2>3, ToSetFacts, Zenon
    <3> QED
      BY <2>3, <3>1, Zenon DEF N
  <2>5. ToSet(t) = Printed(s)
    BY <1>7, <2>1, <2>4
  <2>6. ASSUME NEW x \in N, NEW y \in N, t[x] = t[y]
        PROVE  x = y
    <3>1. s[x] \in T /\ s[y] \in T /\ pick(s[x]) = pick(s[y])
      BY <2>1, <2>6, Zenon
    <3>2. s[x] = s[y]
      BY <1>10, <3>1, Zenon
    <3> QED
      BY <1>3, <3>2, Zenon
  <2>7. \A x, y \in 1 .. Len(t) : t[x] = t[y] => x = y
    BY <2>3, <2>6, Zenon DEF N
  <2> QED
    BY <2>3, <2>5, <2>7 DEF Lists
<1> HIDE DEF t
<1>12. Cardinality(Printed(s)) = Len(t)
  BY <1>11, ListsLength, Zenon
<1> QED
  BY <1>9, <1>11, <1>12

(* Of empty lists nothing is printed. *)
LEMMA NothingPrinted ==
  ASSUME NEW u \in Units, ListedUpTo(0), NEW s,
         s = Fitting(cSOLSPClist["CPU"], cSOLSPClist[u])
  PROVE  Cardinality(Printed(s)) = Len(s) /\ Printed(s) = {}
<1> DEFINE cpu == cSOLSPClist["CPU"]
           other == cSOLSPClist[u]
<1>1. Len(cpu) = 0 /\ Len(other) = 0
  BY DEF ListedUpTo, Units
<1>2. s = Fitting(cpu, other)
  OBVIOUS
<1> HIDE DEF cpu, other
<1>3. Lists(s, FitTogether(cpu, other, 1 .. 0, 0))
  <2>1. Len(cpu) \in Nat /\ Len(other) \in Nat
    BY <1>1
  <2>2. Lists(Fitting(cpu, other), FitTogether(cpu, other, 1 .. Len(cpu), Len(other)))
    BY <2>1, FittingFacts, Zenon
  <2> QED
    BY <1>1, <1>2, <2>2, Zenon
<1>4. FitTogether(cpu, other, 1 .. 0, 0) = {}
  BY DEF FitTogether
<1>5. s \in Seq({})
  BY <1>3, <1>4, Zenon DEF Lists
<1>6. Len(s) = 0 /\ DOMAIN s = {}
  <2>1. Len(s) \in Nat /\ DOMAIN s = 1 .. Len(s)
    BY <1>5, LenProperties
  <2>2. \A k \in 1 .. Len(s) : s[k] \in {}
    BY <1>5, <2>1, ElementOfSeq
  <2> QED
    BY <2>1, <2>2
<1>7. Printed(s) = {}
  BY <1>6 DEF Printed
<1> QED
  BY <1>6, <1>7, FS_EmptySet

(* What the invariant says at the end. *)
LEMMA DvfsIInvAnswers == DvfsIInv => AnswersAreTheFittingChoices
<1> SUFFICES ASSUME DvfsIInv, phase = "done"
             PROVE  AnswersAreTheFittingChoices
  BY Zenon DEF AnswersAreTheFittingChoices
<1>1. /\ ListedUpTo(IF "iFilePtr" \in openErrors THEN 0 ELSE 7)
      /\ answers = [u \in Units \ {"CPU"} |->
                      Fitting(cSOLSPClist["CPU"], cSOLSPClist[u])]
  BY DEF DvfsIInv
<1> DEFINE Expected(u) == IF "iFilePtr" \in openErrors THEN {} ELSE FittingChoices(u)
<1>2. ASSUME NEW u \in DOMAIN answers
      PROVE  /\ Cardinality(Printed(answers[u])) = Len(answers[u])
             /\ Printed(answers[u]) = Expected(u)
  <2>1. u \in Units /\ answers[u] = Fitting(cSOLSPClist["CPU"], cSOLSPClist[u])
    BY <1>1
  <2>2. CASE "iFilePtr" \in openErrors
    BY <1>1, <2>1, <2>2, NothingPrinted, Zenon
  <2>3. CASE "iFilePtr" \notin openErrors
    BY <1>1, <2>1, <2>3, PrintedFacts, Zenon
  <2> QED
    BY <2>2, <2>3
<1> QED
  BY <1>2, Zenon DEF AnswersAreTheFittingChoices, Printed, FittingChoices, ModeChoices, Chosen

(* Whatever the work modes take and whatever the constraint is: the        *)
(* program prints all choices of work modes that fit, each once, or, when  *)
(* it cannot open the file for reading, nothing.                           *)
THEOREM AnswersFit == DvfsSpec => []AnswersAreTheFittingChoices
  BY InitDvfsIInv, NextDvfsIInv, DvfsIInvAnswers, PTL DEF DvfsSpec
=============================================================================
