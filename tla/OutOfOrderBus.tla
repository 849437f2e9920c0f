--------------------------- MODULE OutOfOrderBus ---------------------------
(***************************************************************************)
(* The read channel of out_of_order/out_of_order.c: a master that sends    *)
(* requests into an address buffer (MASTER_1_Transmitter), two slaves that *)
(* turn the oldest request into an entry of a read-data buffer             *)
(* (SLAVE_<n>_DO), and the master's MASTER_1_Receiver, which takes the     *)
(* entries.  Flags and addresses are read without the lock and acted on    *)
(* with count_mutex held; what happens under the mutex is one step.        *)
(*                                                                         *)
(* An address is represented by its page, the address divided by 0x100:    *)
(* slave n owns page n, the master owns page 3, and every other word the   *)
(* code can find where it expects an address (0, an INX, a data word) is   *)
(* in page 0.  MAX_BURST is taken to be equal to MAX_BUFF_DEEP, as it is   *)
(* in the source: one Data entry past the end of the read-data buffer is   *)
(* then exactly its FmAddr array.                                          *)
(***************************************************************************)
EXTENDS Integers, Sequences

CONSTANTS
  MAX_BUFF_DEEP,   (* slots of each buffer                                 *)
  MAX_TEST_COT,    (* transfers after which the threads stop               *)
  MaxWait,         (* polls of a flag before a thread gives up (cot)       *)
  ReadsOnce        (* the build loads the address once for a range test    *)

ASSUME BusAssumption ==
  /\ MAX_BUFF_DEEP \in Nat /\ MAX_BUFF_DEEP >= 2
  /\ MAX_TEST_COT \in Nat
  /\ MaxWait \in Nat \ {0}
  /\ ReadsOnce \in BOOLEAN

Slaves  == {1, 2}
Master  == 3
Page    == {0} \union Slaves \union {Master}
Transmitter == 0
Receiver    == Master
Threads == {Transmitter, Receiver} \union Slaves
Slots   == 0 .. MAX_BUFF_DEEP - 1
-----------------------------------------------------------------------------
VARIABLES
  AddrBusBuf,     \* [FmAddr, ToAddr, INX, FULL, EMPTY]
  RdDataBusBuf,   \* [Data, FmAddr, INX, FULL, EMPTY]
  TEST_COT,
  pc, cot         \* of every thread

vars == <<AddrBusBuf, RdDataBusBuf, TEST_COT, pc, cot>>

(* A Data entry is represented by the slave that wrote it (0: none did).   *)
(* Slot MAX_BUFF_DEEP of Data is the storage of FmAddr.                    *)
Init ==
  /\ AddrBusBuf   = [FmAddr |-> [i \in Slots |-> 0],
                     ToAddr |-> [i \in Slots |-> 0],
                     INX |-> 0, FULL |-> FALSE, EMPTY |-> TRUE]
  /\ RdDataBusBuf = [Data   |-> [i \in 0 .. MAX_BUFF_DEEP |-> 0],
                     FmAddr |-> [i \in Slots |-> 0],
                     INX |-> 0, FULL |-> FALSE, EMPTY |-> TRUE]
  /\ TEST_COT = 0
  /\ pc  = [t \in Threads |-> "top"]
  /\ cot = [t \in Threads |-> MaxWait]
-----------------------------------------------------------------------------
CheckBufStatus_FullLate(buf) ==
  [buf EXCEPT !.FULL  = (buf.INX > MAX_BUFF_DEEP),
              !.EMPTY = (buf.INX = 0)]

CheckBufStatus(buf) ==
  [buf EXCEPT !.FULL  = (buf.INX = MAX_BUFF_DEEP),
              !.EMPTY = (buf.INX = 0)]

(* for( i=0; i<inx; i++ ) f[i] = f[i+1]: the last step of a full buffer    *)
(* reads the word behind the array.                                        *)
Shift(f, inx, behind) ==
  [i \in DOMAIN f |-> IF i < inx
                      THEN IF i + 1 \in DOMAIN f THEN f[i + 1] ELSE behind
                      ELSE f[i]]

SetAddrBusBufStatus(buf, fm, to) ==
  [buf EXCEPT !.FmAddr[buf.INX] = fm, !.ToAddr[buf.INX] = to, !.INX = @ + 1]

GetAddrBusBufStatus_KeepLast(buf) ==
  [buf EXCEPT !.FmAddr = Shift(@, buf.INX - 1, 0),
              !.ToAddr = Shift(@, buf.INX - 1, 0),
              !.INX = @ - 1]

(* Behind FmAddr lies ToAddr, whose first word has already moved; behind   *)
(* ToAddr lies INX, which is in page 0.                                    *)
GetAddrBusBufStatus(buf) ==
  [buf EXCEPT !.FmAddr = Shift(@, buf.INX, buf.ToAddr[1]),
              !.ToAddr = Shift(@, buf.INX, 0),
              !.INX = @ - 1]

SetRdDataBusBufStatus_NoSlave(buf, fm, n) ==
  [buf EXCEPT !.Data[buf.INX] = 1,
              !.FmAddr = IF buf.INX \in Slots
                         THEN [@ EXCEPT ![buf.INX] = fm]
                         ELSE [i \in Slots |-> 0],
              !.INX = @ + 1]

(* Past the end, the data words land on FmAddr and FmAddr[inx] on INX,     *)
(* which is assigned after it.                                             *)
SetRdDataBusBufStatus(buf, fm, n) ==
  [buf EXCEPT !.Data[buf.INX] = n,
              !.FmAddr = IF buf.INX \in Slots
                         THEN [@ EXCEPT ![buf.INX] = fm]
                         ELSE [i \in Slots |-> 0],
              !.INX = @ + 1]

(* Behind Data[inx-1] lie the words of FmAddr, behind FmAddr lies INX.     *)
GetRdDataBusBufStatus(buf) ==
  [buf EXCEPT !.Data   = [i \in DOMAIN @ |->
                            IF i = MAX_BUFF_DEEP THEN 0
                            ELSE Shift(@, buf.INX, 0)[i]],
              !.FmAddr = Shift(@, buf.INX, 0),
              !.INX = @ - 1]
-----------------------------------------------------------------------------
Goto(t, label) == pc' = [pc EXCEPT ![t] = label]

Top_KeepsCot(t) ==
  /\ pc[t] = "top"
  /\ Goto(t, IF TEST_COT < MAX_TEST_COT THEN "poll" ELSE "exited")
  /\ UNCHANGED <<AddrBusBuf, RdDataBusBuf, TEST_COT, cot>>

(* while( TEST_COT<MAX_TEST_COT ){ int cot =10; ...                        *)
Top(t) ==
  /\ pc[t] = "top"
  /\ Goto(t, IF TEST_COT < MAX_TEST_COT THEN "poll" ELSE "exited")
  /\ cot' = [cot EXCEPT ![t] = MaxWait]
  /\ UNCHANGED <<AddrBusBuf, RdDataBusBuf, TEST_COT>>

(* The body of a polling loop: sleep, break at cot==0, cot--.  After the   *)
(* break cot>0 fails and the turn is over.                                 *)
Wait(t) ==
  IF cot[t] = 0
  THEN Goto(t, "top") /\ UNCHANGED cot
  ELSE Goto(t, "poll") /\ cot' = [cot EXCEPT ![t] = @ - 1]

(* A polling loop is left because its condition fails: cot>0 is tested.    *)
Leave(t, label) ==
  /\ Goto(t, IF cot[t] > 0 THEN label ELSE "top")
  /\ UNCHANGED cot

(* ST <= word && word <= ED, with the loads of the word one or two steps.  *)
TestRange(t, n, word) ==
  /\ pc[t] \in {"lower", "upper"}
  /\ Goto(t, CASE pc[t] = "upper" -> IF word <= n THEN "act" ELSE "top"
               [] ReadsOnce       -> IF word = n  THEN "act" ELSE "top"
               [] OTHER           -> IF n <= word THEN "upper" ELSE "top")
  /\ UNCHANGED <<AddrBusBuf, RdDataBusBuf, TEST_COT, cot>>
-----------------------------------------------------------------------------
TransmitterPoll_OneSpare ==
  /\ pc[Transmitter] = "poll"
  /\ IF AddrBusBuf.INX > MAX_BUFF_DEEP
     THEN Wait(Transmitter)
     ELSE Leave(Transmitter, "act")
  /\ UNCHANGED <<AddrBusBuf, RdDataBusBuf, TEST_COT>>

TransmitterPoll ==
  /\ pc[Transmitter] = "poll"
  /\ IF AddrBusBuf.FULL THEN Wait(Transmitter) ELSE Leave(Transmitter, "act")
  /\ UNCHANGED <<AddrBusBuf, RdDataBusBuf, TEST_COT>>

TransmitterAct ==
  LET to == IF TEST_COT % 2 = 0 THEN 1 ELSE 2
  IN  /\ pc[Transmitter] = "act"
      /\ AddrBusBuf.INX >= 0
      /\ AddrBusBuf' = CheckBufStatus(SetAddrBusBufStatus(AddrBusBuf, Master, to))
      /\ Goto(Transmitter, "top")
      /\ UNCHANGED <<RdDataBusBuf, TEST_COT, cot>>

ReceiverPoll ==
  /\ pc[Receiver] = "poll"
  /\ IF RdDataBusBuf.EMPTY THEN Wait(Receiver) ELSE Leave(Receiver, "lower")
  /\ UNCHANGED <<AddrBusBuf, RdDataBusBuf, TEST_COT>>

ReceiverTest == TestRange(Receiver, Master, RdDataBusBuf.FmAddr[0])

ReceiverAct ==
  /\ pc[Receiver] = "act"
  /\ RdDataBusBuf.INX \in 0 .. MAX_BUFF_DEEP
  /\ RdDataBusBuf' = CheckBufStatus(GetRdDataBusBufStatus(RdDataBusBuf))
  /\ TEST_COT' = TEST_COT + 1
  /\ Goto(Receiver, "top")
  /\ UNCHANGED <<AddrBusBuf, cot>>

(* The two operands of the slave's && are loaded one after the other.      *)
SlavePoll(n) ==
  /\ \/ /\ pc[n] = "poll"
        /\ IF RdDataBusBuf.FULL
           THEN Goto(n, "poll2") /\ UNCHANGED cot
           ELSE Leave(n, "lower")
     \/ /\ pc[n] = "poll2"
        /\ IF AddrBusBuf.EMPTY THEN Wait(n) ELSE Leave(n, "lower")
  /\ UNCHANGED <<AddrBusBuf, RdDataBusBuf, TEST_COT>>

SlaveTest(n) == TestRange(n, n, AddrBusBuf.ToAddr[0])

(* A second entry past the end of the read-data buffer, and an index below *)
(* zero, leave the object; there the model stops.                          *)
SlaveAct(n) ==
  /\ pc[n] = "act"
  /\ AddrBusBuf.INX \in 0 .. MAX_BUFF_DEEP
  /\ RdDataBusBuf.INX \in 0 .. MAX_BUFF_DEEP
  /\ RdDataBusBuf' =
       CheckBufStatus(SetRdDataBusBufStatus(RdDataBusBuf, AddrBusBuf.FmAddr[0], n))
  /\ AddrBusBuf' = CheckBufStatus(GetAddrBusBufStatus(AddrBusBuf))
  /\ Goto(n, "top")
  /\ UNCHANGED <<TEST_COT, cot>>
-----------------------------------------------------------------------------
MASTER_1_Transmitter == Top(Transmitter) \/ TransmitterPoll \/ TransmitterAct
MASTER_1_Receiver ==
  Top(Receiver) \/ ReceiverPoll \/ ReceiverTest \/ ReceiverAct
SLAVE_DO(n) == Top(n) \/ SlavePoll(n) \/ SlaveTest(n) \/ SlaveAct(n)

AllExited == \A t \in Threads : pc[t] = "exited"

(* main has joined every thread. *)
Joined == AllExited /\ UNCHANGED vars

Next ==
  \/ MASTER_1_Transmitter
  \/ MASTER_1_Receiver
  \/ \E n \in Slaves : SLAVE_DO(n)
  \/ Joined

Spec == Init /\ [][Next]_vars

(* Every thread sleeps a bounded time between its steps and gives back the *)
(* mutex in the step that takes it.                                        *)
FairSpec ==
  /\ Spec
  /\ WF_vars(MASTER_1_Transmitter)
  /\ WF_vars(MASTER_1_Receiver)
  /\ \A n \in Slaves : WF_vars(SLAVE_DO(n))
-----------------------------------------------------------------------------
(* Types: the indices stay inside the arrays, except that the read-data    *)
(* buffer can be overrun by one entry (out_of_order.c:48-67).              *)
TypeOK ==
  /\ AddrBusBuf \in [FmAddr : [Slots -> Page], ToAddr : [Slots -> Page],
                     INX : 0 .. MAX_BUFF_DEEP, FULL : BOOLEAN, EMPTY : BOOLEAN]
  /\ RdDataBusBuf \in [Data : [0 .. MAX_BUFF_DEEP -> {0} \union Slaves],
                       FmAddr : [Slots -> Page],
                       INX : 0 .. MAX_BUFF_DEEP + 1,
                       FULL : BOOLEAN, EMPTY : BOOLEAN]
  /\ TEST_COT \in 0 .. MAX_TEST_COT
  /\ pc \in [Threads -> {"top", "poll", "poll2", "lower", "upper", "act", "exited"}]
  /\ cot \in [Threads -> 0 .. MaxWait]

(* A slave that is about to serve a request finds one in the buffer, and   *)
(* it is addressed to this slave, although it looked before it took the    *)
(* lock and the other slave may have taken requests in between             *)
(* (out_of_order.c:218, 247; the ranges are BUS_ADDR_MAP, l.37-46).        *)
RequestInOwnRange ==
  \A n \in Slaves :
    pc[n] = "act" => AddrBusBuf.INX > 0 /\ AddrBusBuf.ToAddr[0] = n

(* What the master polled before it took the lock is still so under it:    *)
(* room for the Transmitter, an entry of the master for the Receiver       *)
(* unless the buffer has been overrun meanwhile (out_of_order.c:155, 190). *)
MasterPollStillValid ==
  /\ pc[Transmitter] = "act" => AddrBusBuf.INX < MAX_BUFF_DEEP
  /\ pc[Receiver] = "act" =>
       /\ RdDataBusBuf.INX > 0
       /\ RdDataBusBuf.FmAddr[0] = Master \/ RdDataBusBuf.INX > MAX_BUFF_DEEP

(* No entry is written past the end of the read-data buffer, as its        *)
(* declaration requires (out_of_order.c:61-67).                            *)
RdDataFits == RdDataBusBuf.INX <= MAX_BUFF_DEEP

(* The read data a master will be given, oldest first, then the requests   *)
(* that wait: each by the slave it concerns.                               *)
Outstanding ==
  [i \in 1 .. RdDataBusBuf.INX + AddrBusBuf.INX |->
     IF i <= RdDataBusBuf.INX THEN RdDataBusBuf.Data[i - 1]
     ELSE AddrBusBuf.ToAddr[i - RdDataBusBuf.INX - 1]]

Reads == INSTANCE AddressQueue
           WITH Entry <- Slaves, Depth <- 2 * MAX_BUFF_DEEP + 1,
                queue <- Outstanding

(* The two buffers together are one queue: the master is given the data of *)
(* its requests in the order it sent them, each from the slave it was sent *)
(* to; serving a request is invisible.  (The read data of the example are  *)
(* never out of order; out_of_order.c:95-139.)                             *)
ReadsInRequestOrder == Reads!Spec

(* The emulation ends: every thread returns, unless the read-data buffer   *)
(* is overrun (out_of_order.c:152, 180, 209, 238, 274-277).                *)
EndsUnlessOverrun == <>(AllExited \/ RdDataBusBuf.INX > MAX_BUFF_DEEP)
=============================================================================
