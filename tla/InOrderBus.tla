----------------------------- MODULE InOrderBus -----------------------------
(***************************************************************************)
(* The single bus of out_of_order/in_order.c: the Transmitter puts an      *)
(* address on it and sets Busy, the addressed slave puts data on it and    *)
(* sets Lock, the Receiver takes the data and clears both.  Busy, Lock and *)
(* the addresses are read without the lock; what happens with count_mutex  *)
(* held is one step.  An address is represented by its page as in          *)
(* OutOfOrderBus: slave n owns page n, the master page 3, and page 0 is    *)
(* the initial word of the bus.                                            *)
(***************************************************************************)
EXTENDS Integers

CONSTANTS
  MAX_TEST_COT,    (* transfers after which the threads stop               *)
  MaxWait,         (* polls before a thread gives up (cot)                 *)
  ReadsOnce        (* the build loads the address once for a range test    *)

ASSUME BusAssumption ==
  /\ MAX_TEST_COT \in Nat
  /\ MaxWait \in Nat \ {0}
  /\ ReadsOnce \in BOOLEAN

Slaves == {1, 2}
Master == 3
Transmitter == 0
Receiver    == Master
Masters == {Transmitter, Receiver}
Threads == Masters \union Slaves

VARIABLES
  Bus,         \* [FmAddr, ToAddr, Data, Busy, Lock]; Data: who wrote it last
  TEST_COT,
  busPc,          \* of every thread
  busCot          \* of the two masters; the slaves poll without a limit

busVars == <<Bus, TEST_COT, busPc, busCot>>

BusInit ==
  /\ Bus = [FmAddr |-> 0, ToAddr |-> 0, Data |-> 0, Busy |-> FALSE, Lock |-> FALSE]
  /\ TEST_COT = 0
  /\ busPc  = [t \in Threads |-> "top"]
  /\ busCot = [t \in Masters |-> MaxWait]
-----------------------------------------------------------------------------
BusGoto(t, label) == busPc' = [busPc EXCEPT ![t] = label]

Top_OneMore(t) ==
  /\ busPc[t] = "top"
  /\ BusGoto(t, IF TEST_COT <= MAX_TEST_COT THEN "poll" ELSE "exited")
  /\ UNCHANGED <<Bus, TEST_COT>>

Top(t) ==
  /\ busPc[t] = "top"
  /\ BusGoto(t, IF TEST_COT < MAX_TEST_COT THEN "poll" ELSE "exited")
  /\ UNCHANGED <<Bus, TEST_COT>>

(* The body of a master's polling loop: sleep, break at cot==0, cot--.     *)
Wait(t) ==
  IF busCot[t] = 0
  THEN BusGoto(t, "top") /\ UNCHANGED busCot
  ELSE BusGoto(t, "poll") /\ busCot' = [busCot EXCEPT ![t] = @ - 1]

Leave(t, label) ==
  /\ BusGoto(t, IF busCot[t] > 0 THEN label ELSE "top")
  /\ UNCHANGED busCot

(* ST <= word && word <= ED, with the loads of the word one or two steps.  *)
TestRange(t, n, word) ==
  /\ \/ /\ busPc[t] = "lower"
        /\ IF ReadsOnce THEN BusGoto(t, IF word = n THEN "act" ELSE "top")
           ELSE BusGoto(t, IF n <= word THEN "upper" ELSE "top")
     \/ /\ busPc[t] = "upper"
        /\ BusGoto(t, IF word <= n THEN "act" ELSE "top")
  /\ UNCHANGED <<Bus, TEST_COT, busCot>>
-----------------------------------------------------------------------------
TransmitterTop ==
  /\ Top(Transmitter)
  /\ busCot' = [busCot EXCEPT ![Transmitter] = MaxWait]

TransmitterPoll_Blind ==
  /\ busPc[Transmitter] = "poll"
  /\ IF Bus.Busy /\ ~Bus.Lock
     THEN Wait(Transmitter) ELSE Leave(Transmitter, "act")
  /\ UNCHANGED <<Bus, TEST_COT>>

TransmitterPoll ==
  /\ busPc[Transmitter] = "poll"
  /\ IF Bus.Busy THEN Wait(Transmitter) ELSE Leave(Transmitter, "act")
  /\ UNCHANGED <<Bus, TEST_COT>>

TransmitterAct ==
  /\ busPc[Transmitter] = "act"
  /\ Bus' = [Bus EXCEPT !.FmAddr = Master,
                        !.ToAddr = IF TEST_COT % 2 = 0 THEN 1 ELSE 2,
                        !.Busy = TRUE]
  /\ BusGoto(Transmitter, "top")
  /\ UNCHANGED <<TEST_COT, busCot>>

(* cot is declared outside the loop: nothing sets it again.                *)
ReceiverTop == Top(Receiver) /\ UNCHANGED busCot

ReceiverPoll_GivesUp ==
  /\ \/ /\ busPc[Receiver] = "poll"
        /\ IF Bus.Busy
           THEN BusGoto(Receiver, "poll2") /\ UNCHANGED busCot
           ELSE Leave(Receiver, "top")
     \/ /\ busPc[Receiver] = "poll2"
        /\ IF Bus.Lock THEN Leave(Receiver, "top") ELSE Wait(Receiver)
  /\ UNCHANGED <<Bus, TEST_COT>>

(* The two operands of the && are loaded one after the other.              *)
ReceiverPoll ==
  /\ \/ /\ busPc[Receiver] = "poll"
        /\ IF Bus.Busy
           THEN BusGoto(Receiver, "poll2") /\ UNCHANGED busCot
           ELSE Leave(Receiver, "lower")
     \/ /\ busPc[Receiver] = "poll2"
        /\ IF Bus.Lock THEN Leave(Receiver, "lower") ELSE Wait(Receiver)
  /\ UNCHANGED <<Bus, TEST_COT>>

ReceiverTest == TestRange(Receiver, Master, Bus.FmAddr)

ReceiverAct ==
  /\ busPc[Receiver] = "act"
  /\ Bus' = [Bus EXCEPT !.Busy = FALSE, !.Lock = FALSE]
  /\ TEST_COT' = TEST_COT + 1
  /\ BusGoto(Receiver, "top")
  /\ UNCHANGED busCot

SlaveTop(n) == Top(n) /\ UNCHANGED busCot

SlavePoll(n) ==
  /\ busPc[n] = "poll" /\ Bus.Busy
  /\ BusGoto(n, "lower")
  /\ UNCHANGED <<Bus, TEST_COT, busCot>>

SlaveTest(n) == TestRange(n, n, Bus.ToAddr)

SlaveAct(n) ==
  /\ busPc[n] = "act"
  /\ Bus' = [Bus EXCEPT !.Lock = TRUE, !.Data = n]
  /\ BusGoto(n, "top")
  /\ UNCHANGED <<TEST_COT, busCot>>
-----------------------------------------------------------------------------
MASTER_1_Transmitter == TransmitterTop \/ TransmitterPoll \/ TransmitterAct
MASTER_1_Receiver == ReceiverTop \/ ReceiverPoll \/ ReceiverTest \/ ReceiverAct
SLAVE_DO(n) == SlaveTop(n) \/ SlavePoll(n) \/ SlaveTest(n) \/ SlaveAct(n)

AllExited == \A t \in Threads : busPc[t] = "exited"

(* main has joined every thread. *)
Joined == AllExited /\ UNCHANGED busVars

BusNext ==
  \/ MASTER_1_Transmitter
  \/ MASTER_1_Receiver
  \/ \E n \in Slaves : SLAVE_DO(n)
  \/ Joined

BusSpec == BusInit /\ [][BusNext]_busVars
-----------------------------------------------------------------------------
(* Types: the Receiver's counter never runs below zero although it is      *)
(* never set again, and TEST_COT never passes its limit (in_order.c:95-117). *)
BusTypeOK ==
  /\ Bus \in [FmAddr : {0, Master}, ToAddr : {0} \union Slaves,
              Data : {0} \union Slaves, Busy : BOOLEAN, Lock : BOOLEAN]
  /\ TEST_COT \in 0 .. MAX_TEST_COT
  /\ busPc \in [Threads -> {"top", "poll", "poll2", "lower", "upper", "act", "exited"}]
  /\ busCot \in [Masters -> 0 .. MaxWait]

(* A transfer that has not been received is never replaced by the next     *)
(* one: the bus the Transmitter found free without the lock is still free  *)
(* when it drives it (in_order.c:70-82).                                   *)
RequestNotOverwritten == busPc[Transmitter] = "act" => ~Bus.Busy

MastersExited == \A t \in Masters : busPc[t] = "exited"

SlavesDone == \A n \in Slaves : busPc[n] \in {"exited", "poll"}

(* The run comes to rest, unless the Receiver has used up its counter:     *)
(* both masters return, and a slave has returned or waits for ever for     *)
(* Busy in a loop that does not look at TEST_COT (in_order.c:70, 99, 135). *)
ComesToRest == <>[](busCot[Receiver] = 0 \/ (MastersExited /\ SlavesDone))

(* "M1 Receive Fm %d,%d,%d", printed with ToAddr and Data: the data come   *)
(* from the slave the transfer addresses (in_order.c:112).                 *)
DataFromAddressedSlave == busPc[Receiver] = "act" => Bus.Data = Bus.ToAddr
=============================================================================
