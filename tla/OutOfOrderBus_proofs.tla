------------------------ MODULE OutOfOrderBus_proofs ------------------------
(***************************************************************************)
(* The read channel of out_of_order.c for buffers of every depth, when the *)
(* build loads an address once for its range test.                         *)
(***************************************************************************)
EXTENDS OutOfOrderBus, ProofLemmas

Addresses ==
  [FmAddr : [Slots -> Page], ToAddr : [Slots -> Page],
   INX : 0 .. MAX_BUFF_DEEP, FULL : BOOLEAN, EMPTY : BOOLEAN]

ReadData ==
  [Data : [0 .. MAX_BUFF_DEEP -> {0} \union Slaves], FmAddr : [Slots -> Page],
   INX : 0 .. MAX_BUFF_DEEP + 1, FULL : BOOLEAN, EMPTY : BOOLEAN]

(* The flags tell what INX tells, an entry comes from the master and goes  *)
(* to a slave, and behind the last entry no slave finds its address.       *)
AddressesInPlace(buf) ==
  /\ buf \in Addresses
  /\ buf.FULL = (buf.INX = MAX_BUFF_DEEP)
  /\ buf.EMPTY = (buf.INX = 0)
  /\ \A i \in Slots :
       /\ i < buf.INX => buf.FmAddr[i] = Master /\ buf.ToAddr[i] \in Slaves
       /\ i >= buf.INX => buf.ToAddr[i] = 0

(* The same of the read data; a buffer that has been overrun has lost its  *)
(* addresses.                                                              *)
ReadDataInPlace(buf) ==
  /\ buf \in ReadData
  /\ buf.FULL = (buf.INX = MAX_BUFF_DEEP)
  /\ buf.EMPTY = (buf.INX = 0)
  /\ \A i \in Slots :
       IF i < buf.INX /\ buf.INX <= MAX_BUFF_DEEP
       THEN buf.FmAddr[i] = Master ELSE buf.FmAddr[i] = 0
-----------------------------------------------------------------------------
(* SetAddrBusBufStatus on a buffer that is not full puts the entry behind  *)
(* the others.                                                             *)
LEMMA AddressPut ==
  ASSUME NEW buf, AddressesInPlace(buf), buf.INX < MAX_BUFF_DEEP,
         NEW to \in Slaves,
         NEW new, new = CheckBufStatus(SetAddrBusBufStatus(buf, Master, to))
  PROVE  /\ AddressesInPlace(new)
         /\ new.INX = buf.INX + 1
         /\ new.ToAddr = [buf.ToAddr EXCEPT ![buf.INX] = to]
<1> USE BusAssumption DEF Slots, Page, Slaves, Master
<1>1. buf \in Addresses /\ buf.INX \in Slots
  BY DEF AddressesInPlace, Addresses
<1> DEFINE fm == [buf.FmAddr EXCEPT ![buf.INX] = Master]
           dest == [buf.ToAddr EXCEPT ![buf.INX] = to]
           inx == buf.INX + 1
           full == (inx = MAX_BUFF_DEEP)
           empty == (inx = 0)
<1>2. new = [FmAddr |-> fm, ToAddr |-> dest, INX |-> inx, FULL |-> full,
             EMPTY |-> empty]
  BY <1>1 DEF CheckBufStatus, SetAddrBusBufStatus, Addresses
<1>3. fm \in [Slots -> Page] /\ dest \in [Slots -> Page]
  BY <1>1 DEF Addresses
<1>4. \A i \in Slots :
        /\ i < buf.INX + 1 => fm[i] = Master /\ dest[i] \in Slaves
        /\ i >= buf.INX + 1 => dest[i] = 0
  BY <1>1 DEF AddressesInPlace, Addresses
<1>5. dest = [buf.ToAddr EXCEPT ![buf.INX] = to]
  OBVIOUS
<1> HIDE DEF fm, dest
<1>6. new \in Addresses
  <2>1. inx \in 0 .. MAX_BUFF_DEEP /\ full \in BOOLEAN /\ empty \in BOOLEAN
    BY <1>1
  <2> HIDE DEF inx, full, empty
  <2> QED
    BY <1>2, <1>3, <2>1 DEF Addresses
<1>7. /\ new.FmAddr = fm /\ new.ToAddr = dest /\ new.INX = inx
      /\ new.FULL = full /\ new.EMPTY = empty
  <2> HIDE DEF inx, full, empty
  <2> QED
    BY <1>2
<1> QED
  BY <1>4, <1>5, <1>6, <1>7 DEF AddressesInPlace

(* GetAddrBusBufStatus on a buffer that is not empty moves every entry one *)
(* slot to the front, and what it reads behind the last one is no address  *)
(* of a slave.                                                             *)
LEMMA AddressTaken ==
  ASSUME NEW buf, AddressesInPlace(buf), buf.INX > 0,
         NEW new, new = CheckBufStatus(GetAddrBusBufStatus(buf))
  PROVE  /\ AddressesInPlace(new)
         /\ new.INX = buf.INX - 1
         /\ \A i \in Slots : i < new.INX => new.ToAddr[i] = buf.ToAddr[i + 1]
<1> USE BusAssumption DEF Slots, Page, Slaves, Master
<1>1. buf \in Addresses /\ buf.INX \in 1 .. MAX_BUFF_DEEP /\ 1 \in Slots
  BY DEF AddressesInPlace, Addresses
<1>2. new = [FmAddr |-> Shift(buf.FmAddr, buf.INX, buf.ToAddr[1]),
             ToAddr |-> Shift(buf.ToAddr, buf.INX, 0),
             INX |-> buf.INX - 1,
             FULL |-> (buf.INX - 1 = MAX_BUFF_DEEP),
             EMPTY |-> (buf.INX - 1 = 0)]
  BY <1>1 DEF CheckBufStatus, GetAddrBusBufStatus, Addresses
<1>3. DOMAIN buf.FmAddr = Slots /\ DOMAIN buf.ToAddr = Slots
  BY <1>1 DEF Addresses
<1>4. \A i \in Slots : i + 1 \in Slots <=> i + 1 < MAX_BUFF_DEEP
  OBVIOUS
<1>5. new.FmAddr = [i \in Slots |-> IF i < buf.INX
                                    THEN IF i + 1 < MAX_BUFF_DEEP
                                         THEN buf.FmAddr[i + 1] ELSE buf.ToAddr[1]
                                    ELSE buf.FmAddr[i]]
  BY <1>2, <1>3, <1>4 DEF Shift
<1>6. new.ToAddr = [i \in Slots |-> IF i < buf.INX
                                    THEN IF i + 1 < MAX_BUFF_DEEP
                                         THEN buf.ToAddr[i + 1] ELSE 0
                                    ELSE buf.ToAddr[i]]
  BY <1>2, <1>3, <1>4 DEF Shift
<1>7. new.FmAddr \in [Slots -> Page] /\ new.ToAddr \in [Slots -> Page]
  BY <1>1, <1>4, <1>5, <1>6 DEF Addresses
<1>8. new \in Addresses
  BY <1>1, <1>2, <1>7 DEF Addresses
<1>9. ASSUME NEW i \in Slots
      PROVE  /\ i < new.INX => new.FmAddr[i] = Master /\ new.ToAddr[i] \in Slaves
             /\ i >= new.INX => new.ToAddr[i] = 0
  <2>1. CASE i < new.INX
    <3>1. i < buf.INX /\ i + 1 < buf.INX /\ i + 1 < MAX_BUFF_DEEP /\ i + 1 \in Slots
      BY <1>1, <1>2, <1>4, <2>1
    <3>2. new.FmAddr[i] = buf.FmAddr[i + 1] /\ new.ToAddr[i] = buf.ToAddr[i + 1]
      BY <1>5, <1>6, <3>1
    <3>3. buf.FmAddr[i + 1] = Master /\ buf.ToAddr[i + 1] \in Slaves
      BY <1>1, <3>1 DEF AddressesInPlace
    <3> QED
      BY <1>1, <1>2, <2>1, <3>2, <3>3
  <2>2. CASE i = new.INX
    BY <1>1, <1>2, <1>4, <1>6, <2>2 DEF AddressesInPlace
  <2>3. CASE i > new.INX
    <3>1. i >= buf.INX /\ ~(i < buf.INX)
      BY <1>1, <1>2, <2>3
    <3> QED
      BY <1>1, <1>2, <1>6, <2>3, <3>1 DEF AddressesInPlace
  <2> QED
    BY <1>1, <1>2, <2>1, <2>2, <2>3
<1>10. \A i \in Slots : i < new.INX => new.ToAddr[i] = buf.ToAddr[i + 1]
  BY <1>1, <1>2, <1>4, <1>6
<1> QED
  BY <1>1, <1>2, <1>8, <1>9, <1>10 DEF AddressesInPlace

(* SetRdDataBusBufStatus puts the data behind the others; at a full buffer *)
(* they land on the addresses.                                             *)
LEMMA ReadDataPut ==
  ASSUME NEW buf, ReadDataInPlace(buf), buf.INX \in 0 .. MAX_BUFF_DEEP,
         NEW n \in Slaves,
         NEW new, new = CheckBufStatus(SetRdDataBusBufStatus(buf, Master, n))
  PROVE  /\ ReadDataInPlace(new)
         /\ new.INX = buf.INX + 1
         /\ new.Data = [buf.Data EXCEPT ![buf.INX] = n]
<1> USE BusAssumption DEF Slots, Page, Slaves, Master
<1>1. buf \in ReadData
  BY DEF ReadDataInPlace
<1> DEFINE data == [buf.Data EXCEPT ![buf.INX] = n]
           fm == IF buf.INX \in Slots THEN [buf.FmAddr EXCEPT ![buf.INX] = Master]
                 ELSE [i \in Slots |-> 0]
           inx == buf.INX + 1
           full == (inx = MAX_BUFF_DEEP)
           empty == (inx = 0)
<1>2. new = [Data |-> data, FmAddr |-> fm, INX |-> inx, FULL |-> full,
             EMPTY |-> empty]
  BY <1>1 DEF CheckBufStatus, SetRdDataBusBufStatus, ReadData
<1>3. fm \in [Slots -> Page] /\ data \in [0 .. MAX_BUFF_DEEP -> {0} \union Slaves]
  BY <1>1 DEF ReadData
<1>4. \A i \in Slots :
        IF i < buf.INX + 1 /\ buf.INX + 1 <= MAX_BUFF_DEEP
        THEN fm[i] = Master ELSE fm[i] = 0
  BY <1>1 DEF ReadDataInPlace, ReadData
<1>5. data = [buf.Data EXCEPT ![buf.INX] = n]
  OBVIOUS
<1> HIDE DEF fm, data
<1>6. new \in ReadData
  <2>1. inx \in 0 .. MAX_BUFF_DEEP + 1 /\ full \in BOOLEAN /\ empty \in BOOLEAN
    OBVIOUS
  <2> HIDE DEF inx, full, empty
  <2> QED
    BY <1>2, <1>3, <2>1 DEF ReadData
<1> QED
  BY <1>2, <1>4, <1>5, <1>6 DEF ReadDataInPlace

(* GetRdDataBusBufStatus on a buffer that is neither empty nor overrun     *)
(* moves every entry one slot to the front.                                *)
LEMMA ReadDataTaken ==
  ASSUME NEW buf, ReadDataInPlace(buf), buf.INX \in 1 .. MAX_BUFF_DEEP,
         NEW new, new = CheckBufStatus(GetRdDataBusBufStatus(buf))
  PROVE  /\ ReadDataInPlace(new)
         /\ new.INX = buf.INX - 1
         /\ \A i \in Slots : i < new.INX => new.Data[i] = buf.Data[i + 1]
<1> USE BusAssumption DEF Slots, Page, Slaves, Master
<1>1. buf \in ReadData
  BY DEF ReadDataInPlace
<1> DEFINE data == [i \in DOMAIN buf.Data |->
                      IF i = MAX_BUFF_DEEP THEN 0 ELSE Shift(buf.Data, buf.INX, 0)[i]]
<1>2. new = [Data |-> data,
             FmAddr |-> Shift(buf.FmAddr, buf.INX, 0),
             INX |-> buf.INX - 1,
             FULL |-> (buf.INX - 1 = MAX_BUFF_DEEP),
             EMPTY |-> (buf.INX - 1 = 0)]
  BY <1>1 DEF CheckBufStatus, GetRdDataBusBufStatus, ReadData
<1>3. DOMAIN buf.FmAddr = Slots /\ DOMAIN buf.Data = 0 .. MAX_BUFF_DEEP
  BY <1>1 DEF ReadData
<1>4. \A i \in Slots : /\ i + 1 \in Slots <=> i + 1 < MAX_BUFF_DEEP
                       /\ i \in 0 .. MAX_BUFF_DEEP /\ i + 1 \in 0 .. MAX_BUFF_DEEP
                       /\ i # MAX_BUFF_DEEP
  OBVIOUS
<1>5. new.FmAddr = [i \in Slots |-> IF i < buf.INX
                                    THEN IF i + 1 < MAX_BUFF_DEEP
                                         THEN buf.FmAddr[i + 1] ELSE 0
                                    ELSE buf.FmAddr[i]]
  BY <1>2, <1>3, <1>4 DEF Shift
<1>6. data = [i \in 0 .. MAX_BUFF_DEEP |->
                IF i = MAX_BUFF_DEEP THEN 0
                ELSE IF i < buf.INX THEN buf.Data[i + 1] ELSE buf.Data[i]]
  BY <1>3, <1>4 DEF Shift
<1> HIDE DEF data
<1>7. new.FmAddr \in [Slots -> Page]
  BY <1>1, <1>4, <1>5 DEF ReadData
<1>8. data \in [0 .. MAX_BUFF_DEEP -> {0} \union Slaves]
  BY <1>1, <1>4, <1>6 DEF ReadData
<1>9. new \in ReadData
  BY <1>1, <1>2, <1>7, <1>8 DEF ReadData
<1>10. \A i \in Slots :
        IF i < new.INX /\ new.INX <= MAX_BUFF_DEEP
        THEN new.FmAddr[i] = Master ELSE new.FmAddr[i] = 0
  <2> SUFFICES ASSUME NEW i \in Slots
               PROVE  IF i < new.INX /\ new.INX <= MAX_BUFF_DEEP
                      THEN new.FmAddr[i] = Master ELSE new.FmAddr[i] = 0
    OBVIOUS
  <2>1. new.INX \in Nat /\ buf.INX \in Nat /\ new.INX + 1 = buf.INX
        /\ buf.INX <= MAX_BUFF_DEEP + 1 /\ i \in Nat
    BY <1>1, <1>2
  <2>2. new.FmAddr[i] = IF i < buf.INX
                        THEN IF i + 1 < MAX_BUFF_DEEP THEN buf.FmAddr[i + 1] ELSE 0
                        ELSE buf.FmAddr[i]
    BY <1>5, Zenon
  <2>3. \A k \in Slots : IF k < buf.INX /\ buf.INX <= MAX_BUFF_DEEP
                         THEN buf.FmAddr[k] = Master ELSE buf.FmAddr[k] = 0
    BY <1>1 DEF ReadDataInPlace
  <2>4. i + 1 \in Slots <=> i + 1 < MAX_BUFF_DEEP
    BY <1>4
  <2> QED
    BY <2>1, <2>2, <2>3, <2>4
<1>11. \A i \in Slots : i < new.INX => new.Data[i] = buf.Data[i + 1]
  BY <1>1, <1>2, <1>4, <1>6
<1> QED
  BY <1>1, <1>2, <1>9, <1>10, <1>11 DEF ReadDataInPlace
-----------------------------------------------------------------------------
ThreadsOK ==
  /\ TEST_COT \in 0 .. MAX_TEST_COT
  /\ pc \in [Threads -> {"top", "poll", "poll2", "lower", "act", "exited"}]
  /\ cot \in [Threads -> 0 .. MaxWait]
  /\ pc[Receiver] \notin {"top", "exited"} => TEST_COT < MAX_TEST_COT

IInv ==
  /\ AddressesInPlace(AddrBusBuf)
  /\ ReadDataInPlace(RdDataBusBuf)
  /\ ThreadsOK
  /\ RequestInOwnRange
  /\ MasterPollStillValid

(* Both buffers are empty and nobody has begun at first.                   *)
LEMMA InitIInv == Init => IInv
<1> SUFFICES ASSUME Init PROVE IInv
  OBVIOUS
<1> USE BusAssumption DEF Slots, Page, Slaves, Master, Threads, Transmitter, Receiver
<1>1. AddressesInPlace(AddrBusBuf)
  <2>1. /\ AddrBusBuf.INX = 0 /\ AddrBusBuf.FULL = FALSE /\ AddrBusBuf.EMPTY = TRUE
        /\ AddrBusBuf.ToAddr = [i \in Slots |-> 0]
    BY DEF Init
  <2>2. AddrBusBuf \in Addresses
    BY DEF Init, Addresses
  <2>3. MAX_BUFF_DEEP # 0
    OBVIOUS
  <2>4. /\ AddrBusBuf.FULL = (AddrBusBuf.INX = MAX_BUFF_DEEP)
        /\ AddrBusBuf.EMPTY = (AddrBusBuf.INX = 0)
    BY <2>1, <2>3, Zenon
  <2>5. \A i \in Slots : ~(i < AddrBusBuf.INX) /\ AddrBusBuf.ToAddr[i] = 0
    BY <2>1
  <2> QED
    BY <2>2, <2>4, <2>5 DEF AddressesInPlace
<1>2. ReadDataInPlace(RdDataBusBuf)
  <2>1. /\ RdDataBusBuf.INX = 0 /\ RdDataBusBuf.FULL = FALSE /\ RdDataBusBuf.EMPTY = TRUE
        /\ RdDataBusBuf.FmAddr = [i \in Slots |-> 0]
    BY DEF Init
  <2>2. RdDataBusBuf \in ReadData
    BY DEF Init, ReadData
  <2>3. MAX_BUFF_DEEP # 0
    OBVIOUS
  <2>4. /\ RdDataBusBuf.FULL = (RdDataBusBuf.INX = MAX_BUFF_DEEP)
        /\ RdDataBusBuf.EMPTY = (RdDataBusBuf.INX = 0)
    BY <2>1, <2>3, Zenon
  <2>5. \A i \in Slots : ~(i < RdDataBusBuf.INX) /\ RdDataBusBuf.FmAddr[i] = 0
    BY <2>1
  <2> QED
    BY <2>2, <2>4, <2>5 DEF ReadDataInPlace
<1>3. ThreadsOK
  BY DEF Init, ThreadsOK
<1>4. RequestInOwnRange /\ MasterPollStillValid
  BY DEF Init, RequestInOwnRange, MasterPollStillValid
<1> QED
  BY <1>1, <1>2, <1>3, <1>4 DEF IInv

(* Steps that leave the buffers alone: what a thread looks at before it    *)
(* takes the lock.                                                         *)
LEMMA LookIInv ==
  ASSUME ReadsOnce, IInv, UNCHANGED <<AddrBusBuf, RdDataBusBuf, TEST_COT>>,
         \/ \E t \in Threads : Top(t)
         \/ TransmitterPoll \/ ReceiverPoll \/ ReceiverTest
         \/ \E n \in Slaves : SlavePoll(n) \/ SlaveTest(n)
  PROVE  IInv'
<1> USE BusAssumption DEF Slaves, Master, Threads, Transmitter, Receiver, Goto
<1>1. AddressesInPlace(AddrBusBuf)' /\ ReadDataInPlace(RdDataBusBuf)'
  BY DEF IInv, AddressesInPlace, ReadDataInPlace, Addresses, ReadData
<1>2. /\ AddrBusBuf.INX \in 0 .. MAX_BUFF_DEEP /\ 0 \in Slots
      /\ ~AddrBusBuf.FULL => AddrBusBuf.INX < MAX_BUFF_DEEP
      /\ \A n \in Slaves : AddrBusBuf.ToAddr[0] = n => AddrBusBuf.INX > 0
      /\ RdDataBusBuf.INX \in 0 .. MAX_BUFF_DEEP + 1
      /\ RdDataBusBuf.FmAddr[0] = Master => RdDataBusBuf.INX > 0
  BY DEF IInv, AddressesInPlace, ReadDataInPlace, Addresses, ReadData, Slots
<1>3. ThreadsOK /\ RequestInOwnRange /\ MasterPollStillValid
  BY DEF IInv
<1>4. ASSUME NEW t \in Threads, Top(t)
      PROVE  ThreadsOK' /\ RequestInOwnRange' /\ MasterPollStillValid'
  BY <1>3, <1>4 DEF Top, ThreadsOK, RequestInOwnRange, MasterPollStillValid
<1>5. ASSUME TransmitterPoll
      PROVE  ThreadsOK' /\ RequestInOwnRange' /\ MasterPollStillValid'
  BY <1>2, <1>3, <1>5
     DEF TransmitterPoll, Wait, Leave, ThreadsOK, RequestInOwnRange, MasterPollStillValid
<1>6. ASSUME ReceiverPoll
      PROVE  ThreadsOK' /\ RequestInOwnRange' /\ MasterPollStillValid'
  BY <1>2, <1>3, <1>6
     DEF ReceiverPoll, Wait, Leave, ThreadsOK, RequestInOwnRange, MasterPollStillValid
<1>7. ASSUME ReceiverTest
      PROVE  ThreadsOK' /\ RequestInOwnRange' /\ MasterPollStillValid'
  BY <1>2, <1>3, <1>7
     DEF ReceiverTest, TestRange, ThreadsOK, RequestInOwnRange, MasterPollStillValid
<1>8. ASSUME NEW n \in Slaves, SlavePoll(n)
      PROVE  ThreadsOK' /\ RequestInOwnRange' /\ MasterPollStillValid'
  BY <1>3, <1>8
     DEF SlavePoll, Wait, Leave, ThreadsOK, RequestInOwnRange, MasterPollStillValid
<1>9. ASSUME NEW n \in Slaves, SlaveTest(n)
      PROVE  ThreadsOK' /\ RequestInOwnRange' /\ MasterPollStillValid'
  BY <1>2, <1>3, <1>9
     DEF SlaveTest, TestRange, ThreadsOK, RequestInOwnRange, MasterPollStillValid
<1> QED
  BY <1>1, <1>4, <1>5, <1>6, <1>7, <1>8, <1>9 DEF IInv

(* The Transmitter finds the room it saw, and a slave that is about to     *)
(* serve the oldest request still finds that one.                          *)
LEMMA TransmitterActIInv == IInv /\ TransmitterAct => IInv'
<1> SUFFICES ASSUME IInv, TransmitterAct PROVE IInv'
  OBVIOUS
<1> USE BusAssumption DEF Slaves, Master, Threads, Transmitter, Receiver, Goto
<1> DEFINE to == IF TEST_COT % 2 = 0 THEN 1 ELSE 2
<1>1. /\ AddrBusBuf.INX \in 0 .. MAX_BUFF_DEEP - 1
      /\ AddrBusBuf.ToAddr \in [Slots -> Page] /\ 0 \in Slots
  BY DEF IInv, AddressesInPlace, Addresses, MasterPollStillValid, TransmitterAct, Slots
<1>2. AddressesInPlace(AddrBusBuf)
  BY DEF IInv
<1>3. AddrBusBuf' = CheckBufStatus(SetAddrBusBufStatus(AddrBusBuf, Master, to))
  BY DEF TransmitterAct
<1>4. to \in Slaves
  OBVIOUS
<1> HIDE DEF to
<1>5. /\ AddressesInPlace(AddrBusBuf')
      /\ AddrBusBuf'.INX = AddrBusBuf.INX + 1
      /\ AddrBusBuf'.ToAddr = [AddrBusBuf.ToAddr EXCEPT ![AddrBusBuf.INX] = to]
  <2>1. AddrBusBuf.INX < MAX_BUFF_DEEP
    <3>1. AddrBusBuf.INX \in 0 .. MAX_BUFF_DEEP - 1
      BY <1>1, Zenon
    <3> QED
      BY <3>1
  <2> HIDE DEF Slaves, Master
  <2> QED
    BY <1>2, <1>3, <1>4, <2>1, AddressPut, Zenon
<1>6. AddressesInPlace(AddrBusBuf)'
  BY <1>5 DEF AddressesInPlace, Addresses
<1>7. ReadDataInPlace(RdDataBusBuf)'
  BY DEF IInv, TransmitterAct, ReadDataInPlace, ReadData
<1>8. ThreadsOK'
  BY DEF IInv, ThreadsOK, TransmitterAct
<1>9. RequestInOwnRange'
  BY <1>1, <1>5 DEF IInv, ThreadsOK, TransmitterAct, RequestInOwnRange
<1>10. MasterPollStillValid'
  BY DEF IInv, ThreadsOK, TransmitterAct, MasterPollStillValid
<1> QED
  BY <1>6, <1>7, <1>8, <1>9, <1>10 DEF IInv

(* The Receiver takes an entry that is there; TEST_COT was below its limit *)
(* when it began.                                                          *)
LEMMA ReceiverActIInv == IInv /\ ReceiverAct => IInv'
<1> SUFFICES ASSUME IInv, ReceiverAct PROVE IInv'
  OBVIOUS
<1> USE BusAssumption DEF Slaves, Master, Threads, Transmitter, Receiver, Goto
<1>1. RdDataBusBuf.INX \in 1 .. MAX_BUFF_DEEP
  BY DEF IInv, ReadDataInPlace, ReadData, MasterPollStillValid, ReceiverAct
<1>2. ReadDataInPlace(RdDataBusBuf)
  BY DEF IInv
<1>3. RdDataBusBuf' = CheckBufStatus(GetRdDataBusBufStatus(RdDataBusBuf))
  BY DEF ReceiverAct
<1>4. ReadDataInPlace(RdDataBusBuf')
  BY <1>1, <1>2, <1>3, ReadDataTaken
<1>5. ReadDataInPlace(RdDataBusBuf)'
  BY <1>4 DEF ReadDataInPlace, ReadData
<1>6. AddressesInPlace(AddrBusBuf)'
  BY DEF IInv, ReceiverAct, AddressesInPlace, Addresses
<1>7. ThreadsOK'
  <2>1. TEST_COT' \in 0 .. MAX_TEST_COT
    BY DEF IInv, ThreadsOK, ReceiverAct
  <2> QED
    BY <2>1 DEF IInv, ThreadsOK, ReceiverAct
<1>8. RequestInOwnRange' /\ MasterPollStillValid'
  BY DEF IInv, ThreadsOK, ReceiverAct, RequestInOwnRange, MasterPollStillValid
<1> QED
  BY <1>5, <1>6, <1>7, <1>8 DEF IInv

(* A slave serves the oldest request, which is its own: the other slave is *)
(* not about to serve one, for it would be the same.                       *)
LEMMA SlaveActIInv == \A n \in Slaves : IInv /\ SlaveAct(n) => IInv'
<1> SUFFICES ASSUME NEW n \in Slaves, IInv, SlaveAct(n) PROVE IInv'
  OBVIOUS
<1> USE BusAssumption DEF Slaves, Master, Threads, Transmitter, Receiver, Goto
<1>1. /\ AddrBusBuf.INX \in 1 .. MAX_BUFF_DEEP /\ 0 \in Slots
      /\ AddrBusBuf.ToAddr[0] = n
      /\ AddrBusBuf.FmAddr[0] = Master
  BY DEF IInv, AddressesInPlace, Addresses, RequestInOwnRange, SlaveAct, Slots
<1>2. AddressesInPlace(AddrBusBuf) /\ ReadDataInPlace(RdDataBusBuf)
      /\ RdDataBusBuf.INX \in 0 .. MAX_BUFF_DEEP
  BY DEF IInv, SlaveAct
<1>3. /\ AddrBusBuf' = CheckBufStatus(GetAddrBusBufStatus(AddrBusBuf))
      /\ RdDataBusBuf' = CheckBufStatus(SetRdDataBusBufStatus(RdDataBusBuf, Master, n))
  BY <1>1 DEF SlaveAct
<1>4. AddressesInPlace(AddrBusBuf') /\ AddrBusBuf'.INX = AddrBusBuf.INX - 1
  BY <1>1, <1>2, <1>3, AddressTaken
<1>5. ReadDataInPlace(RdDataBusBuf') /\ RdDataBusBuf'.INX = RdDataBusBuf.INX + 1
  BY <1>2, <1>3, ReadDataPut
<1>6. AddressesInPlace(AddrBusBuf)'
  BY <1>4 DEF AddressesInPlace, Addresses
<1>7. ReadDataInPlace(RdDataBusBuf)'
  BY <1>5 DEF ReadDataInPlace, ReadData
<1>8. ThreadsOK'
  BY DEF IInv, ThreadsOK, SlaveAct
<1>9. \A m \in Slaves : pc'[m] # "act"
  BY <1>1 DEF IInv, ThreadsOK, RequestInOwnRange, SlaveAct
<1>10. RequestInOwnRange'
  BY <1>9 DEF RequestInOwnRange
<1>11. pc'[Transmitter] = "act" => AddrBusBuf'.INX < MAX_BUFF_DEEP
  BY <1>1, <1>4
<1>12. RdDataBusBuf'.INX > 0
       /\ (RdDataBusBuf'.FmAddr[0] = Master \/ RdDataBusBuf'.INX > MAX_BUFF_DEEP)
  BY <1>1, <1>2, <1>5 DEF ReadDataInPlace
<1>13. MasterPollStillValid'
  BY <1>11, <1>12 DEF MasterPollStillValid
<1> QED
  BY <1>6, <1>7, <1>8, <1>10, <1>13 DEF IInv

(* Every step keeps the invariant.                                         *)
LEMMA NextIInv == ReadsOnce /\ IInv /\ [Next]_vars => IInv'
<1> SUFFICES ASSUME ReadsOnce, IInv, [Next]_vars PROVE IInv'
  OBVIOUS
<1>1. ASSUME \/ \E t \in Threads : Top(t)
             \/ TransmitterPoll \/ ReceiverPoll \/ ReceiverTest
             \/ \E n \in Slaves : SlavePoll(n) \/ SlaveTest(n)
      PROVE  IInv'
  <2>1. UNCHANGED <<AddrBusBuf, RdDataBusBuf, TEST_COT>>
    BY <1>1 DEF Top, TransmitterPoll, ReceiverPoll, ReceiverTest, SlavePoll,
                SlaveTest, TestRange
  <2> QED
    BY <1>1, <2>1, LookIInv
<1>2. CASE UNCHANGED vars
  BY <1>2 DEF vars, IInv, AddressesInPlace, Addresses, ReadDataInPlace, ReadData,
              ThreadsOK, RequestInOwnRange, MasterPollStillValid
<1> QED
  BY <1>1, <1>2, TransmitterActIInv, ReceiverActIInv, SlaveActIInv
     DEF Next, MASTER_1_Transmitter, MASTER_1_Receiver, SLAVE_DO, Joined, Threads

(* Types, with the one entry the read-data buffer may be overrun by.       *)
THEOREM TypesHold == ASSUME ReadsOnce PROVE Spec => []TypeOK
<1>1. IInv /\ [Next]_vars => IInv'
  BY NextIInv
<1>2. IInv => TypeOK
  BY DEF IInv, AddressesInPlace, Addresses, ReadDataInPlace, ReadData, ThreadsOK, TypeOK
<1> QED
  BY <1>1, <1>2, InitIInv, PTL DEF Spec

(* A slave never serves an empty buffer or a request of the other slave,   *)
(* although it looked before it had the lock.                              *)
THEOREM SlaveServesItsOwn == ASSUME ReadsOnce PROVE Spec => []RequestInOwnRange
<1>1. IInv /\ [Next]_vars => IInv'
  BY NextIInv
<1>2. IInv => RequestInOwnRange
  BY DEF IInv
<1> QED
  BY <1>1, <1>2, InitIInv, PTL DEF Spec

(* What the master polled without the lock is still so under it.           *)
THEOREM MasterFindsWhatItPolled == ASSUME ReadsOnce PROVE Spec => []MasterPollStillValid
<1>1. IInv /\ [Next]_vars => IInv'
  BY NextIInv
<1>2. IInv => MasterPollStillValid
  BY DEF IInv
<1> QED
  BY <1>1, <1>2, InitIInv, PTL DEF Spec
-----------------------------------------------------------------------------
(* Outstanding, as a function of the two buffers.                          *)
ReadsOf(rd, addr) ==
  [i \in 1 .. rd.INX + addr.INX |->
     IF i <= rd.INX THEN rd.Data[i - 1] ELSE addr.ToAddr[i - rd.INX - 1]]

(* The two buffers hold a sequence of pages of the length their indices    *)
(* tell.                                                                   *)
LEMMA ReadsAreSequence ==
  ASSUME NEW rd, ReadDataInPlace(rd), NEW addr, AddressesInPlace(addr)
  PROVE  /\ ReadsOf(rd, addr) \in Seq(Page)
         /\ Len(ReadsOf(rd, addr)) = rd.INX + addr.INX
         /\ rd.INX \in Nat /\ addr.INX \in Nat
         /\ \A i \in 1 .. rd.INX + addr.INX :
              ReadsOf(rd, addr)[i] = IF i <= rd.INX THEN rd.Data[i - 1]
                                     ELSE addr.ToAddr[i - rd.INX - 1]
<1> USE BusAssumption
<1>1. /\ rd.INX \in 0 .. MAX_BUFF_DEEP + 1 /\ addr.INX \in 0 .. MAX_BUFF_DEEP
      /\ rd.Data \in [0 .. MAX_BUFF_DEEP -> {0} \union Slaves]
      /\ addr.ToAddr \in [0 .. MAX_BUFF_DEEP - 1 -> Page]
  BY DEF ReadDataInPlace, ReadData, AddressesInPlace, Addresses, Slots
<1>2. ASSUME NEW i \in 1 .. rd.INX + addr.INX
      PROVE  (IF i <= rd.INX THEN rd.Data[i - 1]
              ELSE addr.ToAddr[i - rd.INX - 1]) \in Page
  <2>1. CASE i <= rd.INX
    <3>1. i - 1 \in 0 .. MAX_BUFF_DEEP
      BY <1>1, <2>1
    <3> QED
      BY <1>1, <2>1, <3>1 DEF Page
  <2>2. CASE ~(i <= rd.INX)
    <3>1. i - rd.INX - 1 \in 0 .. MAX_BUFF_DEEP - 1
      BY <1>1, <2>2
    <3> QED
      BY <1>1, <2>2, <3>1
  <2> QED
    BY <2>1, <2>2
<1>3. rd.INX + addr.INX \in Nat /\ rd.INX \in Nat /\ addr.INX \in Nat
  BY <1>1
<1>4. ReadsOf(rd, addr) \in [1 .. rd.INX + addr.INX -> Page]
  BY <1>2 DEF ReadsOf
<1>5. \A i \in 1 .. rd.INX + addr.INX :
        ReadsOf(rd, addr)[i] = IF i <= rd.INX THEN rd.Data[i - 1]
                               ELSE addr.ToAddr[i - rd.INX - 1]
  BY DEF ReadsOf
<1> QED
  BY <1>3, <1>4, <1>5, FunctionIsSequence

(* Nothing is outstanding at first.                                        *)
LEMMA InitRefines == Init => Reads!Init
<1> SUFFICES ASSUME Init PROVE Outstanding = <<>>
  BY DEF Reads!Init
<1>1. ReadDataInPlace(RdDataBusBuf) /\ AddressesInPlace(AddrBusBuf)
  BY InitIInv DEF IInv
<1>2. RdDataBusBuf.INX + AddrBusBuf.INX = 0
  BY DEF Init
<1>3. Outstanding = ReadsOf(RdDataBusBuf, AddrBusBuf)
  BY DEF Outstanding, ReadsOf
<1>4. Outstanding \in Seq(Page) /\ Len(Outstanding) = 0
  BY <1>1, <1>2, <1>3, ReadsAreSequence
<1> QED
  BY <1>4, EmptySeq

(* A request joins the queue at its end, where the queue has room.         *)
LEMMA TransmitterActPuts == IInv /\ TransmitterAct => Reads!Put
<1> SUFFICES ASSUME IInv, TransmitterAct PROVE Reads!Put
  OBVIOUS
<1> USE BusAssumption
<1> DEFINE to == IF TEST_COT % 2 = 0 THEN 1 ELSE 2
<1>1. /\ AddressesInPlace(AddrBusBuf) /\ ReadDataInPlace(RdDataBusBuf)
      /\ AddrBusBuf.INX < MAX_BUFF_DEEP
  BY DEF IInv, MasterPollStillValid, TransmitterAct
<1>2. /\ AddrBusBuf' = CheckBufStatus(SetAddrBusBufStatus(AddrBusBuf, Master, to))
      /\ RdDataBusBuf' = RdDataBusBuf
  BY DEF TransmitterAct
<1>3. to \in Slaves /\ to \in Page
  BY DEF Slaves, Page
<1> HIDE DEF to
<1>4. /\ AddressesInPlace(AddrBusBuf')
      /\ AddrBusBuf'.INX = AddrBusBuf.INX + 1
      /\ AddrBusBuf'.ToAddr = [AddrBusBuf.ToAddr EXCEPT ![AddrBusBuf.INX] = to]
  BY <1>1, <1>2, <1>3, AddressPut, Zenon
<1> DEFINE old == ReadsOf(RdDataBusBuf, AddrBusBuf)
           new == ReadsOf(RdDataBusBuf, AddrBusBuf')
<1>5. Outstanding = old /\ Outstanding' = new
  BY <1>2 DEF Outstanding, ReadsOf
<1>6. /\ old \in Seq(Page) /\ Len(old) = RdDataBusBuf.INX + AddrBusBuf.INX
      /\ RdDataBusBuf.INX \in Nat /\ AddrBusBuf.INX \in Nat
      /\ \A i \in 1 .. RdDataBusBuf.INX + AddrBusBuf.INX :
           old[i] = IF i <= RdDataBusBuf.INX THEN RdDataBusBuf.Data[i - 1]
                    ELSE AddrBusBuf.ToAddr[i - RdDataBusBuf.INX - 1]
  BY <1>1, ReadsAreSequence, Zenon
<1>7. /\ new \in Seq(Page) /\ Len(new) = RdDataBusBuf.INX + AddrBusBuf'.INX
      /\ \A i \in 1 .. RdDataBusBuf.INX + AddrBusBuf'.INX :
           new[i] = IF i <= RdDataBusBuf.INX THEN RdDataBusBuf.Data[i - 1]
                    ELSE AddrBusBuf'.ToAddr[i - RdDataBusBuf.INX - 1]
  BY <1>1, <1>4, ReadsAreSequence, Zenon
<1> HIDE DEF old, new
<1>0. /\ RdDataBusBuf.INX \in Nat /\ AddrBusBuf.INX \in Nat
      /\ Len(old) = RdDataBusBuf.INX + AddrBusBuf.INX
      /\ Len(new) = RdDataBusBuf.INX + AddrBusBuf'.INX
      /\ AddrBusBuf'.INX = AddrBusBuf.INX + 1
  BY <1>4, <1>6, <1>7, Zenon
<1>8. AddrBusBuf.INX \in Slots /\ DOMAIN AddrBusBuf.ToAddr = Slots
      /\ RdDataBusBuf.INX <= MAX_BUFF_DEEP + 1
  BY <1>1, <1>6 DEF AddressesInPlace, Addresses, ReadDataInPlace, ReadData, Slots
<1>9. \A k : k = Len(old) + 1 => new[k] = to
  <2> SUFFICES ASSUME NEW k, k = Len(old) + 1 PROVE new[k] = to
    OBVIOUS
  <2>1. /\ k \in 1 .. RdDataBusBuf.INX + AddrBusBuf'.INX /\ ~(k <= RdDataBusBuf.INX)
        /\ k - RdDataBusBuf.INX - 1 = AddrBusBuf.INX
    <3> DEFINE r == RdDataBusBuf.INX
               a == AddrBusBuf.INX
    <3>1. r \in Nat /\ a \in Nat /\ AddrBusBuf'.INX = a + 1 /\ k = r + a + 1
      BY <1>0, Zenon
    <3> HIDE DEF r, a
    <3>2. k \in 1 .. r + (a + 1) /\ ~(k <= r) /\ k - r - 1 = a
      BY <3>1
    <3> QED
      BY <3>1, <3>2, Zenon DEF r, a
  <2>2. AddrBusBuf'.ToAddr[AddrBusBuf.INX] = to
    BY <1>4, <1>8
  <2>3. new[k] = AddrBusBuf'.ToAddr[k - RdDataBusBuf.INX - 1]
    BY <1>7, <2>1, Zenon
  <2> QED
    BY <2>1, <2>2, <2>3, Zenon
<1>10. ASSUME NEW i \in 1 .. Len(old)
       PROVE  new[i] = old[i]
  <2>1. i \in 1 .. RdDataBusBuf.INX + AddrBusBuf'.INX
        /\ i \in 1 .. RdDataBusBuf.INX + AddrBusBuf.INX
    <3> DEFINE r == RdDataBusBuf.INX
               a == AddrBusBuf.INX
    <3>1. r \in Nat /\ a \in Nat /\ AddrBusBuf'.INX = a + 1 /\ i \in 1 .. r + a
      BY <1>0, Zenon
    <3> HIDE DEF r, a
    <3>2. i \in 1 .. r + (a + 1)
      BY <3>1
    <3> QED
      BY <3>1, <3>2, Zenon DEF r, a
  <2>2. CASE i <= RdDataBusBuf.INX
    <3>1. new[i] = RdDataBusBuf.Data[i - 1]
      BY <1>7, <2>1, <2>2
    <3>2. old[i] = RdDataBusBuf.Data[i - 1]
      BY <1>6, <2>1, <2>2
    <3> QED
      BY <3>1, <3>2, Zenon
  <2>3. CASE ~(i <= RdDataBusBuf.INX)
    <3>1. i - RdDataBusBuf.INX - 1 \in Slots /\ i - RdDataBusBuf.INX - 1 # AddrBusBuf.INX
      <4> DEFINE r == RdDataBusBuf.INX
                 a == AddrBusBuf.INX
      <4>1. r \in Nat /\ a \in Slots /\ i \in 1 .. r + a /\ ~(i <= r)
        BY <1>0, <1>8, <2>1, <2>3, Zenon
      <4> HIDE DEF r, a
      <4>2. i - r - 1 \in Slots /\ i - r - 1 # a
        BY <4>1 DEF Slots
      <4> QED
        BY <4>2, Zenon DEF r, a
    <3>2. AddrBusBuf'.ToAddr[i - RdDataBusBuf.INX - 1]
            = AddrBusBuf.ToAddr[i - RdDataBusBuf.INX - 1]
      BY <1>4, <1>8, <3>1
    <3>3. new[i] = AddrBusBuf'.ToAddr[i - RdDataBusBuf.INX - 1]
      BY <1>7, <2>1, <2>3
    <3>4. old[i] = AddrBusBuf.ToAddr[i - RdDataBusBuf.INX - 1]
      BY <1>6, <2>1, <2>3
    <3> QED
      BY <3>2, <3>3, <3>4, Zenon
  <2> QED
    BY <2>2, <2>3
<1>11. Len(new) = Len(old) + 1
  BY <1>0
<1>12. new = Append(old, to)
  BY <1>3, <1>6, <1>7, <1>9, <1>10, <1>11, AppendByIndex
<1>13. Len(old) < 2 * MAX_BUFF_DEEP + 1
  BY <1>0, <1>1, <1>8
<1> QED
  BY <1>3, <1>5, <1>12, <1>13 DEF Reads!Put

(* The Receiver takes the first of the queue.                              *)
LEMMA ReceiverActTakes == IInv /\ ReceiverAct => Reads!Take
<1> SUFFICES ASSUME IInv, ReceiverAct PROVE Reads!Take
  OBVIOUS
<1> USE BusAssumption
<1>1. /\ AddressesInPlace(AddrBusBuf) /\ ReadDataInPlace(RdDataBusBuf)
      /\ RdDataBusBuf.INX \in 1 .. MAX_BUFF_DEEP
  BY DEF IInv, ReadDataInPlace, ReadData, MasterPollStillValid, ReceiverAct
<1>2. /\ RdDataBusBuf' = CheckBufStatus(GetRdDataBusBufStatus(RdDataBusBuf))
      /\ AddrBusBuf' = AddrBusBuf
  BY DEF ReceiverAct
<1>3. /\ ReadDataInPlace(RdDataBusBuf')
      /\ RdDataBusBuf'.INX = RdDataBusBuf.INX - 1
      /\ \A i \in Slots : i < RdDataBusBuf'.INX
                            => RdDataBusBuf'.Data[i] = RdDataBusBuf.Data[i + 1]
  BY <1>1, <1>2, ReadDataTaken
<1> DEFINE old == ReadsOf(RdDataBusBuf, AddrBusBuf)
           new == ReadsOf(RdDataBusBuf', AddrBusBuf)
<1>4. Outstanding = old /\ Outstanding' = new
  BY <1>2 DEF Outstanding, ReadsOf
<1>5. /\ old \in Seq(Page) /\ Len(old) = RdDataBusBuf.INX + AddrBusBuf.INX
      /\ AddrBusBuf.INX \in Nat
      /\ \A i \in 1 .. RdDataBusBuf.INX + AddrBusBuf.INX :
           old[i] = IF i <= RdDataBusBuf.INX THEN RdDataBusBuf.Data[i - 1]
                    ELSE AddrBusBuf.ToAddr[i - RdDataBusBuf.INX - 1]
  BY <1>1, ReadsAreSequence, Zenon
<1>6. /\ new \in Seq(Page) /\ Len(new) = RdDataBusBuf'.INX + AddrBusBuf.INX
      /\ \A i \in 1 .. RdDataBusBuf'.INX + AddrBusBuf.INX :
           new[i] = IF i <= RdDataBusBuf'.INX THEN RdDataBusBuf'.Data[i - 1]
                    ELSE AddrBusBuf.ToAddr[i - RdDataBusBuf'.INX - 1]
  BY <1>1, <1>3, ReadsAreSequence, Zenon
<1> HIDE DEF old, new
<1>0. /\ RdDataBusBuf.INX \in 1 .. MAX_BUFF_DEEP /\ AddrBusBuf.INX \in Nat
      /\ RdDataBusBuf'.INX = RdDataBusBuf.INX - 1
      /\ Len(old) = RdDataBusBuf.INX + AddrBusBuf.INX
      /\ Len(new) = RdDataBusBuf'.INX + AddrBusBuf.INX
  BY <1>1, <1>3, <1>5, <1>6, Zenon
<1>7. ASSUME NEW i \in 1 .. Len(new)
      PROVE  new[i] = old[i + 1]
  <2>1. /\ i \in 1 .. RdDataBusBuf'.INX + AddrBusBuf.INX
        /\ i + 1 \in 1 .. RdDataBusBuf.INX + AddrBusBuf.INX
        /\ i <= RdDataBusBuf'.INX <=> i + 1 <= RdDataBusBuf.INX
        /\ (i + 1) - 1 = (i - 1) + 1
        /\ i - RdDataBusBuf'.INX - 1 = (i + 1) - RdDataBusBuf.INX - 1
    <3> DEFINE r == RdDataBusBuf.INX
               r1 == RdDataBusBuf'.INX
               a == AddrBusBuf.INX
    <3>1. r \in Nat /\ a \in Nat /\ r1 \in Nat /\ r = r1 + 1 /\ i \in 1 .. r1 + a
      BY <1>0
    <3> HIDE DEF r, r1, a
    <3>2. /\ i + 1 \in 1 .. r + a
          /\ i <= r1 <=> i + 1 <= r
          /\ (i + 1) - 1 = (i - 1) + 1
          /\ i - r1 - 1 = (i + 1) - r - 1
      BY <3>1
    <3> QED
      BY <3>1, <3>2, Zenon DEF r, r1, a
  <2>2. CASE i <= RdDataBusBuf'.INX
    <3>1. i - 1 \in Slots /\ i - 1 < RdDataBusBuf'.INX
      BY <1>0, <2>2 DEF Slots
    <3>2. RdDataBusBuf'.Data[i - 1] = RdDataBusBuf.Data[(i - 1) + 1]
      BY <1>3, <3>1
    <3> QED
      BY <1>5, <1>6, <2>1, <2>2, <3>2, Zenon
  <2>3. CASE ~(i <= RdDataBusBuf'.INX)
    BY <1>5, <1>6, <2>1, <2>3, Zenon
  <2> QED
    BY <2>2, <2>3
<1>8. Len(new) = Len(old) - 1 /\ Len(old) > 0
  BY <1>0
<1>9. old # <<>>
  BY <1>8, EmptySeq
<1>10. new = Tail(old)
  BY <1>5, <1>6, <1>7, <1>8, <1>9, TailByIndex
<1> QED
  BY <1>4, <1>9, <1>10 DEF Reads!Take

(* A slave moves the first request behind the read data, as an entry of    *)
(* its own, which is what the request was.                                 *)
LEMMA SlaveActStutters == \A n \in Slaves : IInv /\ SlaveAct(n) => UNCHANGED Outstanding
<1> SUFFICES ASSUME NEW n \in Slaves, IInv, SlaveAct(n) PROVE Outstanding' = Outstanding
  OBVIOUS
<1> USE BusAssumption
<1>1. /\ AddressesInPlace(AddrBusBuf) /\ ReadDataInPlace(RdDataBusBuf)
      /\ RdDataBusBuf.INX \in 0 .. MAX_BUFF_DEEP
      /\ AddrBusBuf.INX \in 1 .. MAX_BUFF_DEEP
      /\ AddrBusBuf.ToAddr[0] = n /\ AddrBusBuf.FmAddr[0] = Master
  BY DEF IInv, AddressesInPlace, Addresses, RequestInOwnRange, SlaveAct, Slots
<1>2. /\ AddrBusBuf' = CheckBufStatus(GetAddrBusBufStatus(AddrBusBuf))
      /\ RdDataBusBuf' = CheckBufStatus(SetRdDataBusBufStatus(RdDataBusBuf, Master, n))
  BY <1>1 DEF SlaveAct
<1>3. /\ AddressesInPlace(AddrBusBuf') /\ AddrBusBuf'.INX = AddrBusBuf.INX - 1
      /\ \A i \in Slots : i < AddrBusBuf'.INX
                            => AddrBusBuf'.ToAddr[i] = AddrBusBuf.ToAddr[i + 1]
  BY <1>1, <1>2, AddressTaken
<1>4. /\ ReadDataInPlace(RdDataBusBuf') /\ RdDataBusBuf'.INX = RdDataBusBuf.INX + 1
      /\ RdDataBusBuf'.Data = [RdDataBusBuf.Data EXCEPT ![RdDataBusBuf.INX] = n]
  BY <1>1, <1>2, ReadDataPut
<1> DEFINE old == ReadsOf(RdDataBusBuf, AddrBusBuf)
           new == ReadsOf(RdDataBusBuf', AddrBusBuf')
<1>5. Outstanding = old /\ Outstanding' = new
  BY DEF Outstanding, ReadsOf
<1>6. /\ old \in Seq(Page) /\ Len(old) = RdDataBusBuf.INX + AddrBusBuf.INX
      /\ \A i \in 1 .. RdDataBusBuf.INX + AddrBusBuf.INX :
           old[i] = IF i <= RdDataBusBuf.INX THEN RdDataBusBuf.Data[i - 1]
                    ELSE AddrBusBuf.ToAddr[i - RdDataBusBuf.INX - 1]
  BY <1>1, ReadsAreSequence, Zenon
<1>7. /\ new \in Seq(Page) /\ Len(new) = RdDataBusBuf'.INX + AddrBusBuf'.INX
      /\ \A i \in 1 .. RdDataBusBuf'.INX + AddrBusBuf'.INX :
           new[i] = IF i <= RdDataBusBuf'.INX THEN RdDataBusBuf'.Data[i - 1]
                    ELSE AddrBusBuf'.ToAddr[i - RdDataBusBuf'.INX - 1]
  BY <1>3, <1>4, ReadsAreSequence, Zenon
<1> HIDE DEF old, new
<1>8. DOMAIN RdDataBusBuf.Data = 0 .. MAX_BUFF_DEEP
  BY <1>1 DEF ReadDataInPlace, ReadData
<1>9. RdDataBusBuf'.INX + AddrBusBuf'.INX = RdDataBusBuf.INX + AddrBusBuf.INX
  BY <1>1, <1>3, <1>4
<1>10. ASSUME NEW i \in 1 .. Len(old)
       PROVE  new[i] = old[i]
  <2>1. /\ i \in 1 .. RdDataBusBuf.INX + AddrBusBuf.INX
        /\ i \in 1 .. RdDataBusBuf'.INX + AddrBusBuf'.INX
    BY <1>6, <1>9
  <2>2. CASE i <= RdDataBusBuf.INX
    <3>1. i <= RdDataBusBuf'.INX /\ i - 1 \in 0 .. MAX_BUFF_DEEP /\ i - 1 # RdDataBusBuf.INX
      BY <1>1, <1>4, <2>1, <2>2
    <3>2. RdDataBusBuf'.Data[i - 1] = RdDataBusBuf.Data[i - 1]
      BY <1>4, <1>8, <3>1
    <3> QED
      BY <1>6, <1>7, <2>1, <2>2, <3>1, <3>2
  <2>3. CASE i = RdDataBusBuf.INX + 1
    <3>1. /\ i <= RdDataBusBuf'.INX /\ ~(i <= RdDataBusBuf.INX)
          /\ i - 1 = RdDataBusBuf.INX /\ i - RdDataBusBuf.INX - 1 = 0
      BY <1>1, <1>4, <2>3
    <3>2. RdDataBusBuf'.Data[i - 1] = n
      BY <1>1, <1>4, <1>8, <3>1
    <3> QED
      BY <1>1, <1>6, <1>7, <2>1, <3>1, <3>2
  <2>4. CASE i > RdDataBusBuf.INX + 1
    <3>0. /\ MAX_BUFF_DEEP \in Nat /\ RdDataBusBuf.INX \in Nat /\ i \in Nat
          /\ AddrBusBuf.INX \in Nat /\ AddrBusBuf.INX <= MAX_BUFF_DEEP
          /\ i <= RdDataBusBuf.INX + AddrBusBuf.INX
          /\ RdDataBusBuf'.INX = RdDataBusBuf.INX + 1
          /\ AddrBusBuf'.INX = AddrBusBuf.INX - 1
      BY <1>1, <1>3, <1>4, <2>1
    <3>1. /\ ~(i <= RdDataBusBuf'.INX) /\ ~(i <= RdDataBusBuf.INX)
          /\ i - RdDataBusBuf'.INX - 1 \in Slots
          /\ i - RdDataBusBuf'.INX - 1 < AddrBusBuf'.INX
          /\ (i - RdDataBusBuf'.INX - 1) + 1 = i - RdDataBusBuf.INX - 1
      <4> DEFINE r == RdDataBusBuf.INX
                 a == AddrBusBuf.INX
      <4>1. /\ MAX_BUFF_DEEP \in Nat /\ r \in Nat /\ i \in Nat /\ a \in Nat
            /\ a <= MAX_BUFF_DEEP /\ i <= r + a /\ i > r + 1
        BY <2>4, <3>0, Zenon
      <4> HIDE DEF r, a
      <4>2. /\ ~(i <= r + 1) /\ ~(i <= r)
            /\ i - (r + 1) - 1 \in 0 .. MAX_BUFF_DEEP - 1
            /\ i - (r + 1) - 1 < a - 1
            /\ (i - (r + 1) - 1) + 1 = i - r - 1
        BY <4>1
      <4> QED
        BY <3>0, <4>2, Zenon DEF Slots, r, a
    <3>2. AddrBusBuf'.ToAddr[i - RdDataBusBuf'.INX - 1]
            = AddrBusBuf.ToAddr[i - RdDataBusBuf.INX - 1]
      BY <1>3, <3>1
    <3> QED
      BY <1>6, <1>7, <2>1, <3>1, <3>2
  <2> QED
    BY <1>1, <2>1, <2>2, <2>3, <2>4
<1> QED
  BY <1>5, <1>6, <1>7, <1>9, <1>10, SeqEqual

(* Every step puts a request, takes one, or leaves the queue as it is.     *)
LEMMA NextRefines == IInv /\ [Next]_vars => [Reads!Next]_Outstanding
<1> SUFFICES ASSUME IInv, [Next]_vars,
                    UNCHANGED <<AddrBusBuf, RdDataBusBuf>>
             PROVE  UNCHANGED Outstanding
  BY TransmitterActPuts, ReceiverActTakes, SlaveActStutters
     DEF Next, MASTER_1_Transmitter, MASTER_1_Receiver, SLAVE_DO, Joined, vars,
         Top, TransmitterPoll, ReceiverPoll, ReceiverTest, SlavePoll, SlaveTest,
         TestRange, Reads!Next
<1> QED
  BY DEF Outstanding

(* The two buffers together are one queue: the master is given the data of *)
(* its requests in the order it sent them, each from the slave the request *)
(* was sent to.                                                            *)
THEOREM BuffersAreOneQueue == ASSUME ReadsOnce PROVE Spec => ReadsInRequestOrder
<1>1. IInv /\ [Next]_vars => IInv'
  BY NextIInv
<1> QED
  BY <1>1, InitIInv, InitRefines, NextRefines, PTL DEF Spec, ReadsInRequestOrder, Reads!Spec
=============================================================================
