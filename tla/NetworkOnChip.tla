--------------------------- MODULE NetworkOnChip ---------------------------
(***************************************************************************)
(* The address phase of the 3x3 network on chip of network/network.c.      *)
(*                                                                         *)
(* Every node owns an address FIFO.  The thread SetAddrInf2NetNodeId_n     *)
(* pushes the tasks of TaskList that are at node n into the FIFO, the      *)
(* thread GetAddrInf2NetNodeId_n takes the oldest entry and moves the task *)
(* one hop towards its destination.  Both poll the FIFO's FULL or EMPTY    *)
(* flag without the lock, then do their work holding count_mutex; a thread *)
(* that owns the mutex only touches shared state the others read one flag  *)
(* at a time, so a critical section is one step here.                      *)
(*                                                                         *)
(* Only the nodes in Nodes are given threads: a node no task can reach     *)
(* never has anything to do.                                               *)
(***************************************************************************)
EXTENDS Integers, FiniteSets

CONSTANTS
  Nodes,          (* the nodes whose threads run                           *)
  Tasks,          (* the indices of TaskList                               *)
  InitNId,        (* TaskList[t].NId as compiled in                        *)
  DestNId,        (* the node whose base address is TaskList[t].ToAddr     *)
  DepTId,         (* TaskList[t].DepTId                                    *)
  MAX_FIFO_DEEP,  (* slots of an address FIFO                              *)
  MaxWait         (* polls of a flag before a thread gives up (cot)        *)

NoTask == -1
ERR    == -2   \* the NET_ERR_* results
SPIN   == -3   \* the routing loop does not return

MAX_NET_WORK_EXP == 9
Mesh == 0 .. MAX_NET_WORK_EXP - 1

(* The x and y a node identifier decodes to. *)
X(id) == id \div 3
Y(id) == id % 3

(* NET_WORK_<id>_ST *)
BaseAddr(id) == 256 * id

(* Both tests of every line of the source are "<=", so the first identifier *)
(* whose base address is not below the address wins.                        *)
DecoderAddr2NetNodeId(addr) ==
  IF \E id \in Mesh : addr <= BaseAddr(id)
  THEN CHOOSE id \in Mesh :
         /\ addr <= BaseAddr(id)
         /\ \A k \in Mesh : k < id => BaseAddr(k) < addr
  ELSE ERR

Between(a, m, b) == (a <= m /\ m <= b) \/ (b <= m /\ m <= a)

(* The nodes on the shortest paths of a task. *)
Rectangle(t) ==
  {m \in Mesh : /\ Between(X(InitNId[t]), X(m), X(DestNId[t]))
                /\ Between(Y(InitNId[t]), Y(m), Y(DestNId[t]))}

(* TaskList names the base address of a node everywhere, its TId fields are *)
(* its indices, and a dependency names another task of the list.            *)
ASSUME NetAssumption ==
  /\ Nodes \subseteq Mesh
  /\ Tasks \subseteq Nat /\ IsFiniteSet(Tasks) /\ 0 \in Tasks
  /\ InitNId \in [Tasks -> Mesh]
  /\ DestNId \in [Tasks -> Mesh]
  /\ DepTId \in [Tasks -> Tasks \union {NoTask}]
  /\ \A t \in Tasks : Rectangle(t) \subseteq Nodes
  /\ MAX_FIFO_DEEP \in Nat \ {0}
  /\ MaxWait \in Nat \ {0}

ToAddr == [t \in Tasks |-> BaseAddr(DestNId[t])]
-----------------------------------------------------------------------------
VARIABLES
  NId, FromAddr, AddrDone,                     \* TaskList
  AddrFIFO, Addr_INX, Addr_EMPTY, Addr_FULL,   \* NetNode
  setPc, setCot,                               \* the Set threads
  getPc, getCot,                               \* the Get threads
  hung                                         \* a thread spins with the mutex

taskVars == <<NId, FromAddr, AddrDone>>
fifoVars == <<AddrFIFO, Addr_INX, Addr_EMPTY, Addr_FULL>>
setVars  == <<setPc, setCot>>
getVars  == <<getPc, getCot>>
vars     == <<NId, FromAddr, AddrDone, AddrFIFO, Addr_INX, Addr_EMPTY,
              Addr_FULL, setPc, setCot, getPc, getCot, hung>>

Slots == 0 .. MAX_FIFO_DEEP - 1
Entry == [CurAddr : Int, EndAddr : Int, TId : Tasks]

Init ==
  /\ NId        = InitNId
  /\ FromAddr   = [t \in Tasks |-> BaseAddr(InitNId[t])]
  /\ AddrDone   = [t \in Tasks |-> FALSE]
  /\ AddrFIFO   = [n \in Nodes |->
                     [i \in Slots |-> [CurAddr |-> 0, EndAddr |-> 0, TId |-> 0]]]
  /\ Addr_INX   = [n \in Nodes |-> 0]
  /\ Addr_EMPTY = [n \in Nodes |-> TRUE]
  /\ Addr_FULL  = [n \in Nodes |-> FALSE]
  /\ setPc      = [n \in Nodes |-> "top"]
  /\ setCot     = [n \in Nodes |-> MaxWait]
  /\ getPc      = [n \in Nodes |-> "top"]
  /\ getCot     = [n \in Nodes |-> MaxWait]
  /\ hung       = FALSE
-----------------------------------------------------------------------------
(* The while condition of every thread: its argument is not used. *)
CheckOwnTaskListAddrDone == \A t \in Tasks : AddrDone[t]

UpdateIndex_FullLate(n, inx) ==
  /\ Addr_INX'   = [Addr_INX   EXCEPT ![n] = inx]
  /\ Addr_EMPTY' = [Addr_EMPTY EXCEPT ![n] = (inx = 0)]
  /\ Addr_FULL'  = [Addr_FULL  EXCEPT ![n] = (inx > MAX_FIFO_DEEP)]

(* The assignments to INX and the two flags that end a push and a pop. *)
UpdateIndex(n, inx) ==
  /\ Addr_INX'   = [Addr_INX   EXCEPT ![n] = inx]
  /\ Addr_EMPTY' = [Addr_EMPTY EXCEPT ![n] = (inx = 0)]
  /\ Addr_FULL'  = [Addr_FULL  EXCEPT ![n] = (inx = MAX_FIFO_DEEP)]

SetTaskListAddrInf2NetNoe(n, t) ==
  /\ AddrFIFO' = [AddrFIFO EXCEPT ![n][Addr_INX[n]] =
                    [CurAddr |-> FromAddr[t], EndAddr |-> ToAddr[t], TId |-> t]]
  /\ UpdateIndex(n, Addr_INX[n] + 1)

SetNetNodeInf2TaskListAddr_NoShift(n, addr, nnid, t) ==
  /\ FromAddr' = [FromAddr EXCEPT ![t] = addr]
  /\ NId'      = [NId EXCEPT ![t] = nnid]
  /\ UpdateIndex(n, Addr_INX[n] - 1)
  /\ UNCHANGED AddrFIFO

(* The pop shifts every slot down; the last one keeps a copy. *)
SetNetNodeInf2TaskListAddr(n, addr, nnid, t) ==
  /\ FromAddr' = [FromAddr EXCEPT ![t] = addr]
  /\ NId'      = [NId EXCEPT ![t] = nnid]
  /\ UpdateIndex(n, Addr_INX[n] - 1)
  /\ AddrFIFO' = [AddrFIFO EXCEPT ![n] =
                    [i \in Slots |-> IF i + 1 \in Slots
                                     THEN AddrFIFO[n][i + 1] ELSE AddrFIFO[n][i]]]

Issuable_AnyTime(n) == {t \in Tasks : NId[t] = n /\ ~AddrDone[t]}

(* The tasks node n may issue: at the node, not done, dependency done. *)
Issuable(n) ==
  {t \in Tasks : /\ NId[t] = n
                 /\ ~AddrDone[t]
                 /\ DepTId[t] # NoTask => AddrDone[DepTId[t]]}

(* The first of them is pushed; it is not marked, so the next call pushes  *)
(* it again as long as the task is still at the node.                      *)
CheckTaskListAndSetAddrInf2NetNode(n) ==
  \/ /\ Issuable(n) = {}
     /\ UNCHANGED fifoVars
  \/ \E t \in Issuable(n) :
       /\ \A u \in Issuable(n) : t <= u
       /\ SetTaskListAddrInf2NetNoe(n, t)

CheckAddrInfNetNode2NetNode_NoMark(n, remx, remy) ==
  CASE remx = 0 /\ remy = 0                 -> n
    [] remx > 0                             -> IF Addr_FULL[n + 3] THEN SPIN ELSE n + 3
    [] remx < 0                             -> IF Addr_FULL[n - 3] THEN SPIN ELSE n - 3
    [] remx = 0 /\ remy > 0                 -> IF Addr_FULL[n + 1] THEN SPIN ELSE n + 1
    [] remx = 0 /\ remy < 0                 -> IF Addr_FULL[n - 1] THEN SPIN ELSE n - 1

(* The vertical neighbour is tried first, the horizontal one only when the *)
(* vertical one is FULL.  LEFT is guarded by the flag of UP: it is skipped *)
(* after a FULL UP, and a FULL left neighbour leaves the guard as it was,  *)
(* so that the loop tries it for ever.                                     *)
CheckAddrInfNetNode2NetNode(n, remx, remy) ==
  IF remx = 0 /\ remy = 0                THEN n
  ELSE IF remx > 0 /\ ~Addr_FULL[n + 3]  THEN n + 3
  ELSE IF remx < 0 /\ ~Addr_FULL[n - 3]  THEN n - 3
  ELSE IF remy > 0 /\ ~Addr_FULL[n + 1]  THEN n + 1
  ELSE IF remy < 0 /\ remx >= 0          THEN IF Addr_FULL[n - 1] THEN SPIN ELSE n - 1
  ELSE ERR
-----------------------------------------------------------------------------
(* SetAddrInf2NetNodeId_n *)

SetTop(n) ==
  /\ setPc[n] = "top"
  /\ setPc' = [setPc EXCEPT ![n] = IF CheckOwnTaskListAddrDone THEN "exit" ELSE "poll"]
  /\ UNCHANGED <<setCot, taskVars, fifoVars, getVars, hung>>

SetPoll_NoTimeout(n) ==
  /\ setPc[n] = "poll"
  /\ ~Addr_FULL[n]
  /\ setPc' = [setPc EXCEPT ![n] = "act"]
  /\ UNCHANGED <<taskVars, fifoVars, setCot, getVars, hung>>

(* A thread that sees the flag clear only when cot has reached 0 has timed *)
(* out all the same.  cot is MaxWait again at the top of the loop; it is   *)
(* put back when the poll ends, since nothing reads it in between.         *)
SetPoll(n) ==
  /\ setPc[n] = "poll"
  /\ \/ /\ setCot[n] > 0 /\ Addr_FULL[n]
        /\ setCot' = [setCot EXCEPT ![n] = @ - 1]
        /\ UNCHANGED setPc
     \/ /\ setCot[n] > 0 /\ ~Addr_FULL[n]
        /\ setPc'  = [setPc EXCEPT ![n] = "act"]
        /\ setCot' = [setCot EXCEPT ![n] = MaxWait]
     \/ /\ setCot[n] = 0
        /\ setPc'  = [setPc EXCEPT ![n] = "top"]
        /\ setCot' = [setCot EXCEPT ![n] = MaxWait]
  /\ UNCHANGED <<taskVars, fifoVars, getVars, hung>>

SetAct(n) ==
  /\ setPc[n] = "act"
  /\ ~hung
  /\ CheckTaskListAndSetAddrInf2NetNode(n)
  /\ setPc' = [setPc EXCEPT ![n] = "top"]
  /\ UNCHANGED <<taskVars, setCot, getVars, hung>>
-----------------------------------------------------------------------------
(* GetAddrInf2NetNodeId_n *)

GetTop(n) ==
  /\ getPc[n] = "top"
  /\ getPc' = [getPc EXCEPT ![n] = IF CheckOwnTaskListAddrDone THEN "exit" ELSE "poll"]
  /\ UNCHANGED <<getCot, taskVars, fifoVars, setVars, hung>>

GetPoll_ActAnyway(n) ==
  /\ getPc[n] = "poll"
  /\ IF getCot[n] > 0 /\ Addr_EMPTY[n]
     THEN getCot' = [getCot EXCEPT ![n] = @ - 1] /\ UNCHANGED getPc
     ELSE /\ getPc'  = [getPc EXCEPT ![n] = "act"]
          /\ getCot' = [getCot EXCEPT ![n] = MaxWait]
  /\ UNCHANGED <<taskVars, fifoVars, setVars, hung>>

GetPoll_GiveUp(n) ==
  /\ getPc[n] = "poll"
  /\ IF getCot[n] > 0 /\ Addr_EMPTY[n]
     THEN getCot' = [getCot EXCEPT ![n] = @ - 1] /\ UNCHANGED getPc
     ELSE /\ getPc'  = [getPc EXCEPT ![n] = IF getCot[n] > 0 THEN "act" ELSE "exit"]
          /\ getCot' = [getCot EXCEPT ![n] = MaxWait]
  /\ UNCHANGED <<taskVars, fifoVars, setVars, hung>>

GetPoll(n) ==
  /\ getPc[n] = "poll"
  /\ \/ /\ getCot[n] > 0 /\ Addr_EMPTY[n]
        /\ getCot' = [getCot EXCEPT ![n] = @ - 1]
        /\ UNCHANGED getPc
     \/ /\ getCot[n] > 0 /\ ~Addr_EMPTY[n]
        /\ getPc'  = [getPc EXCEPT ![n] = "act"]
        /\ getCot' = [getCot EXCEPT ![n] = MaxWait]
     \/ /\ getCot[n] = 0
        /\ getPc'  = [getPc EXCEPT ![n] = "top"]
        /\ getCot' = [getCot EXCEPT ![n] = MaxWait]
  /\ UNCHANGED <<taskVars, fifoVars, setVars, hung>>

(* Where the oldest entry of node n is to go next. *)
NextHop(n) ==
  LET cur == DecoderAddr2NetNodeId(AddrFIFO[n][0].CurAddr)
      end == DecoderAddr2NetNodeId(AddrFIFO[n][0].EndAddr)
  IN  IF cur = ERR \/ end = ERR THEN ERR
      ELSE CheckAddrInfNetNode2NetNode(cur, X(end) - X(cur), Y(end) - Y(cur))

Forward_NoRebase(n, hop) ==
  LET e   == AddrFIFO[n][0]
      cur == DecoderAddr2NetNodeId(e.CurAddr)
  IN  /\ SetNetNodeInf2TaskListAddr(n, e.CurAddr, hop, e.TId)
      /\ AddrDone' = IF cur = hop THEN [AddrDone EXCEPT ![e.TId] = TRUE] ELSE AddrDone

Forward_Reassign(n, hop) ==
  LET e    == AddrFIFO[n][0]
      cur  == DecoderAddr2NetNodeId(e.CurAddr)
      addr == e.CurAddr - BaseAddr(cur) + BaseAddr(hop)
  IN  /\ SetNetNodeInf2TaskListAddr(n, addr, hop, e.TId)
      /\ AddrDone' = [AddrDone EXCEPT ![e.TId] = (cur = hop)]

Forward_OneEarly(n, hop) ==
  LET e    == AddrFIFO[n][0]
      cur  == DecoderAddr2NetNodeId(e.CurAddr)
      addr == e.CurAddr - BaseAddr(cur) + BaseAddr(hop)
  IN  /\ SetNetNodeInf2TaskListAddr(n, addr, hop, e.TId)
      /\ AddrDone' = IF BaseAddr(hop) = e.EndAddr
                     THEN [AddrDone EXCEPT ![e.TId] = TRUE] ELSE AddrDone

(* CheckAddrInfNetNode2TaskList when a hop was found.  The offset inside   *)
(* the node's address range is carried over.                               *)
Forward(n, hop) ==
  LET e    == AddrFIFO[n][0]
      cur  == DecoderAddr2NetNodeId(e.CurAddr)
      addr == e.CurAddr - BaseAddr(cur) + BaseAddr(hop)
  IN  /\ SetNetNodeInf2TaskListAddr(n, addr, hop, e.TId)
      /\ AddrDone' = IF cur = hop THEN [AddrDone EXCEPT ![e.TId] = TRUE] ELSE AddrDone

GetAct(n) ==
  /\ getPc[n] = "act"
  /\ ~hung
  /\ \/ /\ NextHop(n) \in Mesh
        /\ Forward(n, NextHop(n))
        /\ getPc' = [getPc EXCEPT ![n] = "top"]
        /\ UNCHANGED hung
     \/ /\ NextHop(n) = ERR
        /\ getPc' = [getPc EXCEPT ![n] = "top"]
        /\ UNCHANGED <<taskVars, fifoVars, hung>>
     \/ /\ NextHop(n) = SPIN
        /\ hung' = TRUE
        /\ UNCHANGED <<taskVars, fifoVars, getPc>>
  /\ UNCHANGED <<setVars, getCot>>
-----------------------------------------------------------------------------
SetThread(n) == SetTop(n) \/ SetPoll(n) \/ SetAct(n)
GetThread(n) == GetTop(n) \/ GetPoll(n) \/ GetAct(n)

(* main returns from its joins once every thread has left its loop. *)
AllExited == \A n \in Nodes : setPc[n] = "exit" /\ getPc[n] = "exit"
Joined    == AllExited /\ UNCHANGED vars

Next ==
  \/ \E n \in Nodes : SetThread(n) \/ GetThread(n)
  \/ Joined

Spec == Init /\ [][Next]_vars

(* Every thread keeps running, and the mutex is granted to a thread that   *)
(* waits for it: each thread sleeps for seconds between two critical       *)
(* sections.                                                               *)
FairSpec == Spec /\ \A n \in Nodes : WF_vars(SetThread(n)) /\ WF_vars(GetThread(n))
-----------------------------------------------------------------------------
(* The values the variables range over. *)
TypeOK ==
  /\ NId \in [Tasks -> Mesh]
  /\ FromAddr \in [Tasks -> Int]
  /\ AddrDone \in [Tasks -> BOOLEAN]
  /\ AddrFIFO \in [Nodes -> [Slots -> Entry]]
  /\ Addr_INX \in [Nodes -> 0 .. MAX_FIFO_DEEP]
  /\ Addr_EMPTY \in [Nodes -> BOOLEAN]
  /\ Addr_FULL \in [Nodes -> BOOLEAN]
  /\ setPc \in [Nodes -> {"top", "poll", "act", "exit"}]
  /\ setCot \in [Nodes -> 0 .. MaxWait]
  /\ getPc \in [Nodes -> {"top", "poll", "act", "exit"}]
  /\ getCot \in [Nodes -> 0 .. MaxWait]
  /\ hung \in BOOLEAN

(* The slots that hold an entry. *)
Occupied(n) == {i \in Slots : i < Addr_INX[n]}

(* The flags are read before the lock is taken and not again under it: a   *)
(* Set thread that decided to push still has a free slot, a Get thread     *)
(* that decided to take an entry still finds one, whatever the other       *)
(* threads did in between.                                                 *)
PollStillValid ==
  \A n \in Nodes :
    /\ setPc[n] = "act" => Addr_INX[n] < MAX_FIFO_DEEP
    /\ getPc[n] = "act" => Addr_INX[n] > 0

(* A task is in a FIFO, or done, only when the task it depends on is done. *)
DependencyRespected ==
  \A t \in Tasks : DepTId[t] # NoTask /\ ~AddrDone[DepTId[t]] =>
    /\ ~AddrDone[t]
    /\ NId[t] = InitNId[t]
    /\ \A n \in Nodes : \A i \in Occupied(n) : AddrFIFO[n][i].TId # t

(* Every entry decodes to the node whose FIFO it is in: the hop is chosen  *)
(* for the node that pops.  Duplicates of an entry never leave the task's  *)
(* shortest paths either, and neither does the task they set back.         *)
EntriesOnPath ==
  /\ \A t \in Tasks : /\ NId[t] \in Rectangle(t)
                      /\ FromAddr[t] = BaseAddr(NId[t])
  /\ \A n \in Nodes : \A i \in Occupied(n) :
       LET e == AddrFIFO[n][i]
       IN  /\ e.CurAddr = BaseAddr(n)
           /\ e.EndAddr = ToAddr[e.TId]
           /\ n \in Rectangle(e.TId)

(* The routing loop fails to return only for an entry that has to go LEFT  *)
(* to a FULL neighbour.                                                    *)
SpinsOnlyLeft ==
  hung => \E n \in Nodes : /\ getPc[n] = "act"
                           /\ Y(DestNId[AddrFIFO[n][0].TId]) < Y(n)
                           /\ Addr_FULL[n - 1]

(* What the FIFOs do is what a bounded queue does: entries leave in the    *)
(* order in which they came, and nothing is lost or overwritten.           *)
Queue(n) == [i \in 1 .. Addr_INX[n] |-> AddrFIFO[n][i - 1]]
IssuedAt(n) == [CurAddr : {BaseAddr(n)}, EndAddr : {ToAddr[t] : t \in Tasks}, TId : Tasks]
AQ(n) == INSTANCE AddressQueue
           WITH queue <- Queue(n), Entry <- IssuedAt(n), Depth <- MAX_FIFO_DEEP
FifosAreQueues ==
  /\ \A n \in Nodes : AQ(n)!Init
  /\ [][\A n \in Nodes : [AQ(n)!Next]_(Queue(n))]_vars

(* Tasks complete in the order of their dependencies and for good. *)
TD == INSTANCE TaskDelivery WITH done <- {t \in Tasks : AddrDone[t]}
ImplementsTaskDelivery == TD!Spec

(* A task is completed by the thread of its destination only: the entry    *)
(* that completes it is taken from the destination's FIFO.                 *)
DoneAtDestination ==
  [][\A t \in Tasks : AddrDone'[t] # AddrDone[t] =>
       Addr_INX'[DestNId[t]] = Addr_INX[DestNId[t]] - 1]_vars

(* Every task is eventually done, and stays done. *)
AllDelivered == <>[]CheckOwnTaskListAddrDone

(* Every thread eventually leaves its loop, so main returns. *)
AllThreadsExit == <>[]AllExited
=============================================================================
