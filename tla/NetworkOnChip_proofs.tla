------------------------ MODULE NetworkOnChip_proofs ------------------------
(***************************************************************************)
(* Safety of the network for every set of tasks, every set of nodes that   *)
(* holds their shortest paths, every FIFO depth and every number of polls. *)
(***************************************************************************)
EXTENDS NetworkOnChip, SequenceTheorems, TLAPS

(* The flags of a FIFO are those of its index. *)
FlagsAgree ==
  \A n \in Nodes : /\ Addr_EMPTY[n] <=> Addr_INX[n] = 0
                   /\ Addr_FULL[n] <=> Addr_INX[n] = MAX_FIFO_DEEP

IInv == /\ TypeOK
        /\ FlagsAgree
        /\ PollStillValid
        /\ EntriesOnPath
        /\ DependencyRespected
        /\ SpinsOnlyLeft
-----------------------------------------------------------------------------
(* The base address of a node decodes to the node. *)
LEMMA DecodeBase ==
  ASSUME NEW id \in Mesh
  PROVE  DecoderAddr2NetNodeId(BaseAddr(id)) = id
BY DEF DecoderAddr2NetNodeId, BaseAddr, Mesh, MAX_NET_WORK_EXP

(* The neighbours of a node that lie towards another node of the mesh. *)
LEMMA Neighbours ==
  ASSUME NEW n \in Mesh, NEW d \in Mesh
  PROVE  /\ X(n) \in Int /\ Y(n) \in Int /\ X(d) \in Int /\ Y(d) \in Int
         /\ X(d) > X(n) => n + 3 \in Mesh /\ X(n + 3) = X(n) + 1 /\ Y(n + 3) = Y(n)
         /\ X(d) < X(n) => n - 3 \in Mesh /\ X(n - 3) = X(n) - 1 /\ Y(n - 3) = Y(n)
         /\ Y(d) > Y(n) => n + 1 \in Mesh /\ Y(n + 1) = Y(n) + 1 /\ X(n + 1) = X(n)
         /\ Y(d) < Y(n) => n - 1 \in Mesh /\ Y(n - 1) = Y(n) - 1 /\ X(n - 1) = X(n)
         /\ X(d) = X(n) /\ Y(d) = Y(n) <=> d = n
BY DEF X, Y, Mesh, MAX_NET_WORK_EXP

(* Whatever the FULL flags are, a hop that is found is on the task's paths, *)
(* and it is the node itself only at the destination.                      *)
LEMMA HopOnPath ==
  ASSUME NEW t \in Tasks, NEW n \in Rectangle(t),
         NEW hop, hop = CheckAddrInfNetNode2NetNode(n, X(DestNId[t]) - X(n), Y(DestNId[t]) - Y(n))
  PROVE  /\ hop \in Rectangle(t) \/ hop = ERR \/ hop = SPIN
         /\ hop = n <=> n = DestNId[t]
         /\ hop = SPIN => Y(DestNId[t]) < Y(n) /\ Addr_FULL[n - 1]
<1> DEFINE d == DestNId[t]
           a == InitNId[t]
<1>1. n \in Mesh /\ d \in Mesh /\ a \in Mesh
  BY NetAssumption DEF Rectangle
<1>2. /\ X(n) \in Int /\ Y(n) \in Int /\ X(d) \in Int /\ Y(d) \in Int
      /\ X(a) \in Int /\ Y(a) \in Int
      /\ Between(X(a), X(n), X(d)) /\ Between(Y(a), Y(n), Y(d))
  BY <1>1, Neighbours DEF Rectangle
<1>3. /\ X(d) > X(n) => Between(X(a), X(n) + 1, X(d))
      /\ X(d) < X(n) => Between(X(a), X(n) - 1, X(d))
      /\ Y(d) > Y(n) => Between(Y(a), Y(n) + 1, Y(d))
      /\ Y(d) < Y(n) => Between(Y(a), Y(n) - 1, Y(d))
  BY <1>2 DEF Between
<1>4. ASSUME NEW m \in Mesh,
             Between(X(a), X(m), X(d)), Between(Y(a), Y(m), Y(d))
      PROVE  m \in Rectangle(t)
  BY <1>4 DEF Rectangle
<1>5. /\ X(d) > X(n) => n + 3 \in Rectangle(t)
      /\ X(d) < X(n) => n - 3 \in Rectangle(t)
      /\ Y(d) > Y(n) => n + 1 \in Rectangle(t)
      /\ Y(d) < Y(n) => n - 1 \in Rectangle(t)
  <2>1. X(d) > X(n) => n + 3 \in Rectangle(t)
    BY <1>1, <1>2, <1>3, <1>4, Neighbours
  <2>2. X(d) < X(n) => n - 3 \in Rectangle(t)
    BY <1>1, <1>2, <1>3, <1>4, Neighbours
  <2>3. Y(d) > Y(n) => n + 1 \in Rectangle(t)
    BY <1>1, <1>2, <1>3, <1>4, Neighbours
  <2>4. Y(d) < Y(n) => n - 1 \in Rectangle(t)
    BY <1>1, <1>2, <1>3, <1>4, Neighbours
  <2> QED
    BY <2>1, <2>2, <2>3, <2>4
<1>6. X(d) = X(n) /\ Y(d) = Y(n) <=> d = n
  BY <1>1, Neighbours
<1>7. CASE X(d) - X(n) = 0 /\ Y(d) - Y(n) = 0
  BY <1>1, <1>2, <1>6, <1>7 DEF ERR, SPIN, Mesh, CheckAddrInfNetNode2NetNode
<1>8. CASE ~(X(d) - X(n) = 0 /\ Y(d) - Y(n) = 0)
  <2>1. n # d
    BY <1>2, <1>6, <1>8
  <2>2. \/ X(d) > X(n) /\ hop = n + 3
        \/ X(d) < X(n) /\ hop = n - 3
        \/ Y(d) > Y(n) /\ hop = n + 1
        \/ Y(d) < Y(n) /\ hop = n - 1
        \/ Y(d) < Y(n) /\ hop = SPIN /\ Addr_FULL[n - 1]
        \/ hop = ERR
    BY <1>2, <1>8 DEF CheckAddrInfNetNode2NetNode
  <2>3. hop \in Rectangle(t) \/ hop = ERR \/ hop = SPIN
    BY <1>5, <2>2
  <2>4. hop # n
    BY <1>1, <2>2 DEF ERR, SPIN, Mesh
  <2>5. hop = SPIN => Y(d) < Y(n) /\ Addr_FULL[n - 1]
    <3>1. \A m \in Rectangle(t) : m # SPIN
      BY DEF Rectangle, SPIN, Mesh, MAX_NET_WORK_EXP
    <3> QED
      BY <1>5, <2>2, <3>1 DEF ERR, SPIN
  <2> QED
    BY <2>1, <2>3, <2>4, <2>5
<1> QED
  BY <1>7, <1>8
-----------------------------------------------------------------------------
LEMMA InitIInv == Init => IInv
<1> SUFFICES ASSUME Init PROVE IInv
  OBVIOUS
<1>1. TypeOK
  <2>1. NId \in [Tasks -> Mesh] /\ FromAddr \in [Tasks -> Int] /\ AddrDone \in [Tasks -> BOOLEAN]
    BY NetAssumption DEF Init, BaseAddr, Mesh, MAX_NET_WORK_EXP
  <2>2. AddrFIFO \in [Nodes -> [Slots -> Entry]]
    BY NetAssumption DEF Init, Entry
  <2>3. /\ Addr_INX \in [Nodes -> 0 .. MAX_FIFO_DEEP]
        /\ Addr_EMPTY \in [Nodes -> BOOLEAN] /\ Addr_FULL \in [Nodes -> BOOLEAN]
    BY NetAssumption DEF Init
  <2>4. /\ setCot \in [Nodes -> 0 .. MaxWait] /\ getCot \in [Nodes -> 0 .. MaxWait]
    BY NetAssumption DEF Init
  <2>5. /\ setPc \in [Nodes -> {"top", "poll", "act", "exit"}]
        /\ getPc \in [Nodes -> {"top", "poll", "act", "exit"}]
        /\ hung \in BOOLEAN
    BY DEF Init
  <2> QED
    BY <2>1, <2>2, <2>3, <2>4, <2>5 DEF TypeOK
<1>2. \A n \in Nodes : Occupied(n) = {}
  BY DEF Init, Occupied, Slots
<1>3. FlagsAgree /\ PollStillValid /\ SpinsOnlyLeft
  BY NetAssumption DEF Init, FlagsAgree, PollStillValid, SpinsOnlyLeft
<1>4. ASSUME NEW t \in Tasks PROVE InitNId[t] \in Rectangle(t)
  BY NetAssumption, Neighbours DEF Rectangle, Between
<1>5. EntriesOnPath
  BY <1>2, <1>4 DEF Init, EntriesOnPath
<1>6. DependencyRespected
  BY <1>2, NetAssumption DEF Init, DependencyRespected
<1> QED
  BY <1>1, <1>3, <1>5, <1>6 DEF IInv
-----------------------------------------------------------------------------
(* A push into a FIFO with a free slot. *)
LEMMA PushStep ==
  ASSUME IInv, NEW n \in Nodes, SetAct(n)
  PROVE  IInv'
<1> USE DEF IInv
<1> HIDE DEF X, Y
<1>0. /\ Addr_INX[n] \in Slots /\ Addr_INX[n] \in Int /\ Addr_INX[n] < MAX_FIFO_DEEP
      /\ ~hung /\ ~hung'
      /\ setPc[n] = "act"
      /\ setPc' = [setPc EXCEPT ![n] = "top"]
      /\ NId' = NId /\ FromAddr' = FromAddr /\ AddrDone' = AddrDone
      /\ setCot' = setCot /\ getPc' = getPc /\ getCot' = getCot /\ hung' = hung
  BY NetAssumption DEF SetAct, PollStillValid, TypeOK, Slots, taskVars, getVars
<1>1. CASE UNCHANGED fifoVars
  <2>0. /\ AddrFIFO' = AddrFIFO /\ Addr_INX' = Addr_INX
        /\ Addr_EMPTY' = Addr_EMPTY /\ Addr_FULL' = Addr_FULL
    BY <1>1 DEF fifoVars
  <2> USE <1>0, <2>0
  <2>1. TypeOK'
    BY DEF TypeOK
  <2>2. FlagsAgree'
    BY DEF FlagsAgree
  <2>3. PollStillValid'
    BY DEF PollStillValid, TypeOK
  <2>4. EntriesOnPath' /\ DependencyRespected'
    BY DEF EntriesOnPath, DependencyRespected, Occupied
  <2>5. SpinsOnlyLeft'
    BY DEF SpinsOnlyLeft
  <2> QED
    BY <2>1, <2>2, <2>3, <2>4, <2>5
<1>2. CASE \E t \in Issuable(n) : SetTaskListAddrInf2NetNoe(n, t)
  <2>1. PICK t \in Issuable(n) : SetTaskListAddrInf2NetNoe(n, t)
    BY <1>2
  <2> DEFINE e == [CurAddr |-> FromAddr[t], EndAddr |-> ToAddr[t], TId |-> t]
  <2>2. /\ t \in Tasks /\ NId[t] = n
        /\ DepTId[t] # NoTask => AddrDone[DepTId[t]]
    BY <2>1 DEF Issuable
  <2>3. /\ AddrFIFO' = [AddrFIFO EXCEPT ![n][Addr_INX[n]] = e]
        /\ Addr_INX'   = [Addr_INX   EXCEPT ![n] = Addr_INX[n] + 1]
        /\ Addr_EMPTY' = [Addr_EMPTY EXCEPT ![n] = (Addr_INX[n] + 1 = 0)]
        /\ Addr_FULL'  = [Addr_FULL  EXCEPT ![n] = (Addr_INX[n] + 1 = MAX_FIFO_DEEP)]
    BY <2>1 DEF SetTaskListAddrInf2NetNoe, UpdateIndex
  <2>4. /\ e \in Entry
        /\ e.CurAddr = BaseAddr(n) /\ e.EndAddr = ToAddr[e.TId] /\ e.TId = t
        /\ n \in Rectangle(t)
    <3>1. FromAddr[t] = BaseAddr(n) /\ n \in Rectangle(t)
      BY <2>2 DEF EntriesOnPath
    <3>2. ToAddr[t] \in Int /\ FromAddr[t] \in Int
      BY <2>2, NetAssumption DEF ToAddr, BaseAddr, TypeOK, Mesh, MAX_NET_WORK_EXP
    <3> QED
      BY <2>2, <3>1, <3>2 DEF Entry
  <2>5. AddrFIFO' \in [Nodes -> [Slots -> Entry]]
    BY <1>0, <2>3, <2>4 DEF TypeOK
  <2>6. TypeOK'
    BY <1>0, <2>3, <2>5, NetAssumption DEF TypeOK
  <2>7. FlagsAgree'
    BY <1>0, <2>3 DEF FlagsAgree, TypeOK
  <2>8. PollStillValid'
    BY <1>0, <2>3, NetAssumption DEF PollStillValid, TypeOK
  <2>9. ASSUME NEW m \in Nodes, NEW i \in Occupied(m)'
        PROVE  \/ i \in Occupied(m) /\ AddrFIFO'[m][i] = AddrFIFO[m][i]
               \/ m = n /\ AddrFIFO'[m][i] = e
    <3>1. CASE m = n
      <4>1. i \in Slots /\ i < Addr_INX[n] + 1
        BY <1>0, <2>3, <3>1 DEF Occupied, TypeOK
      <4>2. i = Addr_INX[n] \/ i < Addr_INX[n]
        BY <1>0, <4>1 DEF Slots
      <4> QED
        BY <1>0, <2>3, <3>1, <4>1, <4>2 DEF Occupied, TypeOK
    <3>2. CASE m # n
      BY <2>3, <3>2 DEF Occupied, TypeOK
    <3> QED
      BY <3>1, <3>2
  <2>10. EntriesOnPath'
    <3>1. \A u \in Tasks : NId'[u] \in Rectangle(u) /\ FromAddr'[u] = BaseAddr(NId'[u])
      BY <1>0 DEF EntriesOnPath
    <3>2. ASSUME NEW m \in Nodes, NEW i \in Occupied(m)'
          PROVE  /\ AddrFIFO'[m][i].CurAddr = BaseAddr(m)
                 /\ AddrFIFO'[m][i].EndAddr = ToAddr[AddrFIFO'[m][i].TId]
                 /\ m \in Rectangle(AddrFIFO'[m][i].TId)
      BY <2>4, <2>9 DEF EntriesOnPath
    <3> QED
      BY <3>1, <3>2 DEF EntriesOnPath
  <2>11. DependencyRespected'
    BY <1>0, <2>2, <2>4, <2>9 DEF DependencyRespected
  <2>12. SpinsOnlyLeft'
    BY <1>0 DEF SpinsOnlyLeft
  <2> QED
    BY <2>6, <2>7, <2>8, <2>10, <2>11, <2>12
<1> QED
  BY <1>1, <1>2 DEF SetAct, CheckTaskListAndSetAddrInf2NetNode
-----------------------------------------------------------------------------
(* The entry a Get thread is about to forward. *)
LEMMA HeadEntry ==
  ASSUME IInv, NEW n \in Nodes, getPc[n] = "act"
  PROVE  /\ 0 \in Occupied(n)
         /\ AddrFIFO[n][0] \in Entry
         /\ AddrFIFO[n][0].CurAddr = BaseAddr(n)
         /\ DecoderAddr2NetNodeId(AddrFIFO[n][0].CurAddr) = n
         /\ n \in Rectangle(AddrFIFO[n][0].TId)
         /\ NextHop(n) = CheckAddrInfNetNode2NetNode(n,
                            X(DestNId[AddrFIFO[n][0].TId]) - X(n),
                            Y(DestNId[AddrFIFO[n][0].TId]) - Y(n))
<1> DEFINE e == AddrFIFO[n][0]
           d == DestNId[e.TId]
<1>1. 0 \in Occupied(n) /\ 0 \in Slots
  BY NetAssumption DEF IInv, PollStillValid, TypeOK, Occupied, Slots
<1>2. e \in Entry /\ e.TId \in Tasks
  BY <1>1 DEF IInv, TypeOK, Entry
<1>3. e.CurAddr = BaseAddr(n) /\ e.EndAddr = ToAddr[e.TId] /\ n \in Rectangle(e.TId)
  BY <1>1 DEF IInv, EntriesOnPath
<1>4. n \in Mesh /\ d \in Mesh /\ e.EndAddr = BaseAddr(d)
  BY <1>2, <1>3, NetAssumption DEF ToAddr
<1>5. DecoderAddr2NetNodeId(e.CurAddr) = n /\ DecoderAddr2NetNodeId(e.EndAddr) = d
  BY <1>3, <1>4, DecodeBase
<1>6. n # ERR /\ d # ERR
  BY <1>4 DEF Mesh, MAX_NET_WORK_EXP, ERR
<1>7. NextHop(n) = CheckAddrInfNetNode2NetNode(n, X(d) - X(n), Y(d) - Y(n))
  BY <1>5, <1>6 DEF NextHop
<1> QED
  BY <1>1, <1>2, <1>3, <1>5, <1>7

(* What GetAct does to the task list and the FIFO when a hop is found. *)
LEMMA ForwardStep ==
  ASSUME IInv, NEW n \in Nodes, getPc[n] = "act", ~hung,
         NextHop(n) \in Mesh, Forward(n, NextHop(n)),
         getPc' = [getPc EXCEPT ![n] = "top"],
         setPc' = setPc, setCot' = setCot, getCot' = getCot, hung' = hung
  PROVE  IInv'
<1> DEFINE e   == AddrFIFO[n][0]
           t   == e.TId
           hop == NextHop(n)
<1>0. /\ TypeOK /\ FlagsAgree /\ PollStillValid /\ EntriesOnPath
      /\ DependencyRespected /\ SpinsOnlyLeft
  BY DEF IInv
<1>1. /\ 0 \in Occupied(n) /\ e \in Entry /\ t \in Tasks
      /\ e.CurAddr = BaseAddr(n) /\ DecoderAddr2NetNodeId(e.CurAddr) = n
      /\ n \in Rectangle(t)
  BY HeadEntry DEF Entry
<1>2. /\ hop \in Rectangle(t)
      /\ hop = n <=> n = DestNId[t]
  <2>1. hop # ERR /\ hop # SPIN
    BY DEF Mesh, MAX_NET_WORK_EXP, ERR, SPIN
  <2>2. hop = CheckAddrInfNetNode2NetNode(n, X(DestNId[t]) - X(n), Y(DestNId[t]) - Y(n))
    BY HeadEntry
  <2> HIDE DEF hop
  <2> QED
    BY <1>1, <2>1, <2>2, HopOnPath
<1>3. /\ FromAddr' = [FromAddr EXCEPT ![t] = BaseAddr(hop)]
      /\ NId' = [NId EXCEPT ![t] = hop]
      /\ AddrDone' = IF n = hop THEN [AddrDone EXCEPT ![t] = TRUE] ELSE AddrDone
      /\ Addr_INX' = [Addr_INX EXCEPT ![n] = Addr_INX[n] - 1]
      /\ Addr_EMPTY' = [Addr_EMPTY EXCEPT ![n] = (Addr_INX[n] - 1 = 0)]
      /\ Addr_FULL' = [Addr_FULL EXCEPT ![n] = (Addr_INX[n] - 1 = MAX_FIFO_DEEP)]
      /\ AddrFIFO' = [AddrFIFO EXCEPT ![n] =
                    [i \in Slots |-> IF i + 1 \in Slots
                                     THEN AddrFIFO[n][i + 1] ELSE AddrFIFO[n][i]]]
  <2>1. e.CurAddr - BaseAddr(n) + BaseAddr(hop) = BaseAddr(hop)
    <3>1. n \in Mesh /\ hop \in Mesh
      BY <1>1, <1>2 DEF Rectangle
    <3>2. BaseAddr(n) \in Int /\ BaseAddr(hop) \in Int
      BY <3>1 DEF Mesh, MAX_NET_WORK_EXP, BaseAddr
    <3> QED
      BY <1>1, <3>2
  <2> QED
    BY <1>1, <2>1 DEF Forward, SetNetNodeInf2TaskListAddr, UpdateIndex
<1> HIDE DEF hop
<1>4. hop \in Mesh /\ BaseAddr(hop) \in Int /\ Addr_INX[n] \in 1 .. MAX_FIFO_DEEP
  <2>1. Addr_INX[n] > 0 /\ Addr_INX[n] \in 0 .. MAX_FIFO_DEEP
    BY <1>0 DEF PollStillValid, TypeOK
  <2> QED
    BY <1>2, <2>1, NetAssumption DEF Rectangle, Mesh, MAX_NET_WORK_EXP, BaseAddr
<1>5. TypeOK'
  <2>1. AddrFIFO' \in [Nodes -> [Slots -> Entry]]
    BY <1>0, <1>3 DEF TypeOK
  <2>2. /\ NId' \in [Tasks -> Mesh] /\ FromAddr' \in [Tasks -> Int]
        /\ AddrDone' \in [Tasks -> BOOLEAN]
    BY <1>0, <1>1, <1>3, <1>4 DEF TypeOK
  <2>3. /\ Addr_INX' \in [Nodes -> 0 .. MAX_FIFO_DEEP]
        /\ Addr_EMPTY' \in [Nodes -> BOOLEAN] /\ Addr_FULL' \in [Nodes -> BOOLEAN]
    BY <1>0, <1>3, <1>4, NetAssumption DEF TypeOK
  <2>4. /\ getPc' \in [Nodes -> {"top", "poll", "act", "exit"}]
        /\ setPc' \in [Nodes -> {"top", "poll", "act", "exit"}]
        /\ setCot' \in [Nodes -> 0 .. MaxWait] /\ getCot' \in [Nodes -> 0 .. MaxWait]
        /\ hung' \in BOOLEAN
    BY <1>0 DEF TypeOK
  <2> QED
    BY <2>1, <2>2, <2>3, <2>4 DEF TypeOK
<1>6. FlagsAgree'
  BY <1>0, <1>3, <1>4 DEF FlagsAgree, TypeOK
<1>7. PollStillValid'
  BY <1>0, <1>3, <1>4, NetAssumption DEF PollStillValid, TypeOK
<1>8. ASSUME NEW m \in Nodes, NEW i \in Occupied(m)'
      PROVE  \E j \in Occupied(m) : AddrFIFO'[m][i] = AddrFIFO[m][j]
  <2>1. CASE m # n
    BY <1>0, <1>3, <2>1 DEF Occupied, TypeOK
  <2>2. CASE m = n
    <3>1. i \in Slots /\ i < Addr_INX[n] - 1
      BY <1>0, <1>3, <2>2 DEF Occupied, TypeOK
    <3>2. i + 1 \in Occupied(n) /\ i + 1 \in Slots
      BY <1>4, <3>1, NetAssumption DEF Occupied, Slots
    <3>3. AddrFIFO'[n][i] = AddrFIFO[n][i + 1]
      BY <1>0, <1>3, <3>1, <3>2 DEF TypeOK
    <3> QED
      BY <2>2, <3>2, <3>3
  <2> QED
    BY <2>1, <2>2
<1>9. EntriesOnPath'
  <2>1. \A u \in Tasks : NId'[u] \in Rectangle(u) /\ FromAddr'[u] = BaseAddr(NId'[u])
    BY <1>0, <1>1, <1>2, <1>3 DEF EntriesOnPath, TypeOK
  <2>2. ASSUME NEW m \in Nodes, NEW i \in Occupied(m)'
        PROVE  /\ AddrFIFO'[m][i].CurAddr = BaseAddr(m)
               /\ AddrFIFO'[m][i].EndAddr = ToAddr[AddrFIFO'[m][i].TId]
               /\ m \in Rectangle(AddrFIFO'[m][i].TId)
    BY <1>0, <1>8 DEF EntriesOnPath
  <2> QED
    BY <2>1, <2>2 DEF EntriesOnPath
<1>10. DependencyRespected'
  <2> SUFFICES ASSUME NEW u \in Tasks, DepTId[u] # NoTask, ~AddrDone'[DepTId[u]]
               PROVE  /\ ~AddrDone'[u] /\ NId'[u] = InitNId[u]
                      /\ \A m \in Nodes : \A i \in Occupied(m)' : AddrFIFO'[m][i].TId # u
    BY DEF DependencyRespected
  <2>1. DepTId[u] \in Tasks /\ ~AddrDone[DepTId[u]]
    BY <1>0, <1>1, <1>3, NetAssumption DEF TypeOK
  <2>2. u # t
    BY <1>0, <1>1, <2>1 DEF DependencyRespected
  <2>3. ~AddrDone'[u] /\ NId'[u] = InitNId[u]
    BY <1>0, <1>1, <1>3, <2>1, <2>2 DEF DependencyRespected, TypeOK
  <2>4. ASSUME NEW m \in Nodes, NEW i \in Occupied(m)' PROVE AddrFIFO'[m][i].TId # u
    BY <1>0, <1>8, <2>1 DEF DependencyRespected
  <2> QED
    BY <2>3, <2>4
<1>11. SpinsOnlyLeft'
  BY DEF SpinsOnlyLeft
<1> QED
  BY <1>5, <1>6, <1>7, <1>9, <1>10, <1>11 DEF IInv

(* A Get thread that forwards, that finds no hop, or that never returns. *)
LEMMA TakeStep ==
  ASSUME IInv, NEW n \in Nodes, GetAct(n)
  PROVE  IInv'
<1>0. /\ getPc[n] = "act" /\ ~hung
      /\ setPc' = setPc /\ setCot' = setCot /\ getCot' = getCot
  BY DEF GetAct, setVars
<1>1. CASE NextHop(n) \in Mesh /\ Forward(n, NextHop(n))
           /\ getPc' = [getPc EXCEPT ![n] = "top"] /\ UNCHANGED hung
  BY <1>0, <1>1, ForwardStep
<1>2. CASE NextHop(n) = ERR
           /\ getPc' = [getPc EXCEPT ![n] = "top"] /\ UNCHANGED <<taskVars, fifoVars, hung>>
  <2>1. /\ NId' = NId /\ FromAddr' = FromAddr /\ AddrDone' = AddrDone
        /\ AddrFIFO' = AddrFIFO /\ Addr_INX' = Addr_INX
        /\ Addr_EMPTY' = Addr_EMPTY /\ Addr_FULL' = Addr_FULL /\ hung' = hung
    BY <1>2 DEF taskVars, fifoVars
  <2>2. TypeOK'
    BY <1>0, <1>2, <2>1 DEF IInv, TypeOK
  <2>3. FlagsAgree' /\ PollStillValid'
    BY <1>0, <1>2, <2>1 DEF IInv, FlagsAgree, PollStillValid, TypeOK
  <2>4. EntriesOnPath' /\ DependencyRespected'
    BY <2>1 DEF IInv, EntriesOnPath, DependencyRespected, Occupied
  <2>5. SpinsOnlyLeft'
    BY <1>0, <2>1 DEF SpinsOnlyLeft
  <2> QED
    BY <2>2, <2>3, <2>4, <2>5 DEF IInv
<1>3. CASE NextHop(n) = SPIN /\ hung' = TRUE /\ UNCHANGED <<taskVars, fifoVars, getPc>>
  <2>1. /\ NId' = NId /\ FromAddr' = FromAddr /\ AddrDone' = AddrDone
        /\ AddrFIFO' = AddrFIFO /\ Addr_INX' = Addr_INX
        /\ Addr_EMPTY' = Addr_EMPTY /\ Addr_FULL' = Addr_FULL /\ getPc' = getPc
    BY <1>3 DEF taskVars, fifoVars
  <2>2. TypeOK'
    BY <1>0, <1>3, <2>1 DEF IInv, TypeOK
  <2>3. FlagsAgree' /\ PollStillValid'
    BY <1>0, <2>1 DEF IInv, FlagsAgree, PollStillValid
  <2>4. EntriesOnPath' /\ DependencyRespected'
    BY <2>1 DEF IInv, EntriesOnPath, DependencyRespected, Occupied
  <2>5. Y(DestNId[AddrFIFO[n][0].TId]) < Y(n) /\ Addr_FULL[n - 1]
    BY <1>0, <1>3, HeadEntry, HopOnPath DEF Entry
  <2>6. SpinsOnlyLeft'
    BY <1>0, <2>1, <2>5 DEF SpinsOnlyLeft
  <2> QED
    BY <2>2, <2>3, <2>4, <2>6 DEF IInv
<1> QED
  BY <1>1, <1>2, <1>3 DEF GetAct

(* The tests of a thread's loops read the shared state and leave it alone. *)
LEMMA SetLoopStep ==
  ASSUME IInv, NEW n \in Nodes, SetTop(n) \/ SetPoll(n)
  PROVE  IInv'
<1>0. /\ NId' = NId /\ FromAddr' = FromAddr /\ AddrDone' = AddrDone
      /\ AddrFIFO' = AddrFIFO /\ Addr_INX' = Addr_INX
      /\ Addr_EMPTY' = Addr_EMPTY /\ Addr_FULL' = Addr_FULL
      /\ getPc' = getPc /\ getCot' = getCot /\ hung' = hung
  BY DEF SetTop, SetPoll, taskVars, fifoVars, getVars
<1>1. /\ setPc' \in [Nodes -> {"top", "poll", "act", "exit"}]
      /\ setCot' \in [Nodes -> 0 .. MaxWait]
      /\ \A m \in Nodes : setPc'[m] = "act" => setPc[m] = "act" \/ ~Addr_FULL[m]
  <2>1. CASE SetTop(n)
    BY <2>1 DEF IInv, TypeOK, SetTop
  <2>2. CASE SetPoll(n)
    <3>1. setCot[n] \in 0 .. MaxWait /\ setPc[n] = "poll" /\ MaxWait \in 0 .. MaxWait
      BY <2>2, NetAssumption DEF IInv, TypeOK, SetPoll
    <3>2. setCot[n] > 0 => setCot[n] - 1 \in 0 .. MaxWait
      BY <3>1, NetAssumption
    <3>3. setCot' \in [Nodes -> 0 .. MaxWait]
      BY <2>2, <3>1, <3>2 DEF IInv, TypeOK, SetPoll
    <3>4. /\ setPc' \in [Nodes -> {"top", "poll", "act", "exit"}]
          /\ \A m \in Nodes : setPc'[m] = "act" => setPc[m] = "act" \/ ~Addr_FULL[m]
      BY <2>2 DEF IInv, TypeOK, SetPoll
    <3> QED
      BY <3>3, <3>4
  <2> QED
    BY <2>1, <2>2
<1>2. TypeOK'
  BY <1>0, <1>1 DEF IInv, TypeOK
<1>3. FlagsAgree'
  BY <1>0 DEF IInv, FlagsAgree
<1>4. PollStillValid'
  <2>1. ASSUME NEW m \in Nodes, ~Addr_FULL[m] PROVE Addr_INX[m] < MAX_FIFO_DEEP
    <3>1. Addr_INX[m] \in 0 .. MAX_FIFO_DEEP /\ Addr_INX[m] # MAX_FIFO_DEEP
      BY <2>1 DEF IInv, FlagsAgree, TypeOK
    <3> QED
      BY <3>1, NetAssumption
  <2> QED
    BY <1>0, <1>1, <2>1 DEF IInv, PollStillValid
<1>5. EntriesOnPath' /\ DependencyRespected' /\ SpinsOnlyLeft'
  BY <1>0 DEF IInv, EntriesOnPath, DependencyRespected, SpinsOnlyLeft, Occupied
<1> QED
  BY <1>2, <1>3, <1>4, <1>5 DEF IInv

LEMMA GetLoopStep ==
  ASSUME IInv, NEW n \in Nodes, GetTop(n) \/ GetPoll(n)
  PROVE  IInv'
<1>0. /\ NId' = NId /\ FromAddr' = FromAddr /\ AddrDone' = AddrDone
      /\ AddrFIFO' = AddrFIFO /\ Addr_INX' = Addr_INX
      /\ Addr_EMPTY' = Addr_EMPTY /\ Addr_FULL' = Addr_FULL
      /\ setPc' = setPc /\ setCot' = setCot /\ hung' = hung
  BY DEF GetTop, GetPoll, taskVars, fifoVars, setVars
<1>1. /\ getPc' \in [Nodes -> {"top", "poll", "act", "exit"}]
      /\ getCot' \in [Nodes -> 0 .. MaxWait]
      /\ \A m \in Nodes : getPc'[m] = "act" => getPc[m] = "act" \/ ~Addr_EMPTY[m]
      /\ \A m \in Nodes : getPc[m] = "act" => getPc'[m] = "act"
  <2>1. CASE GetTop(n)
    BY <2>1 DEF IInv, TypeOK, GetTop
  <2>2. CASE GetPoll(n)
    <3>1. getCot[n] \in 0 .. MaxWait /\ getPc[n] = "poll" /\ MaxWait \in 0 .. MaxWait
      BY <2>2, NetAssumption DEF IInv, TypeOK, GetPoll
    <3>2. getCot[n] > 0 => getCot[n] - 1 \in 0 .. MaxWait
      BY <3>1, NetAssumption
    <3>3. getCot' \in [Nodes -> 0 .. MaxWait]
      BY <2>2, <3>1, <3>2 DEF IInv, TypeOK, GetPoll
    <3>4. /\ getPc' \in [Nodes -> {"top", "poll", "act", "exit"}]
          /\ \A m \in Nodes : getPc'[m] = "act" => getPc[m] = "act" \/ ~Addr_EMPTY[m]
          /\ \A m \in Nodes : getPc[m] = "act" => getPc'[m] = "act"
      BY <2>2 DEF IInv, TypeOK, GetPoll
    <3> QED
      BY <3>3, <3>4
  <2> QED
    BY <2>1, <2>2
<1>2. TypeOK'
  BY <1>0, <1>1 DEF IInv, TypeOK
<1>3. FlagsAgree'
  BY <1>0 DEF IInv, FlagsAgree
<1>4. PollStillValid'
  <2>1. \A m \in Nodes : ~Addr_EMPTY[m] => Addr_INX[m] > 0
    BY NetAssumption DEF IInv, FlagsAgree, TypeOK
  <2> QED
    BY <1>0, <1>1, <2>1 DEF IInv, PollStillValid
<1>5. EntriesOnPath' /\ DependencyRespected' /\ SpinsOnlyLeft'
  BY <1>0, <1>1 DEF IInv, EntriesOnPath, DependencyRespected, SpinsOnlyLeft, Occupied
<1> QED
  BY <1>2, <1>3, <1>4, <1>5 DEF IInv

LEMMA NextIInv == IInv /\ [Next]_vars => IInv'
<1> SUFFICES ASSUME IInv, [Next]_vars PROVE IInv'
  OBVIOUS
<1>1. ASSUME NEW n \in Nodes, SetThread(n) PROVE IInv'
  BY <1>1, SetLoopStep, PushStep DEF SetThread
<1>2. ASSUME NEW n \in Nodes, GetThread(n) PROVE IInv'
  BY <1>2, GetLoopStep, TakeStep DEF GetThread
<1>3. CASE UNCHANGED vars
  BY <1>3 DEF vars, IInv, TypeOK, FlagsAgree, PollStillValid, EntriesOnPath,
              DependencyRespected, SpinsOnlyLeft, Occupied
<1> QED
  BY <1>1, <1>2, <1>3 DEF Next, Joined

(* The inductive invariant holds of the program. *)
THEOREM Inductive == Spec => []IInv
BY InitIInv, NextIInv, PTL DEF Spec

(* Every variable keeps its type. *)
THEOREM TypeCorrect == Spec => []TypeOK
BY Inductive, PTL DEF IInv

(* What a thread polled before it took the lock still holds when it acts. *)
THEOREM PollsStayValid == Spec => []PollStillValid
BY Inductive, PTL DEF IInv

(* No task is issued or completed before the task it depends on. *)
THEOREM Dependencies == Spec => []DependencyRespected
BY Inductive, PTL DEF IInv

(* Every entry, duplicates included, stays on a shortest path of its task. *)
THEOREM OnPath == Spec => []EntriesOnPath
BY Inductive, PTL DEF IInv

(* The routing loop fails to return only for LEFT traffic. *)
THEOREM SpinsLeft == Spec => []SpinsOnlyLeft
BY Inductive, PTL DEF IInv
-----------------------------------------------------------------------------
(* What a step does to the completed tasks: nothing, or it completes the   *)
(* task at the head of its destination's FIFO.                             *)
LEMMA DoneStep ==
  ASSUME IInv, [Next]_vars
  PROVE  \/ AddrDone' = AddrDone
         \/ \E t \in Tasks : /\ AddrDone' = [AddrDone EXCEPT ![t] = TRUE]
                             /\ DestNId[t] \in Nodes
                             /\ Addr_INX' = [Addr_INX EXCEPT ![DestNId[t]] = @ - 1]
                             /\ DepTId[t] # NoTask => AddrDone[DepTId[t]]
<1>1. ASSUME NEW n \in Nodes, SetThread(n) PROVE AddrDone' = AddrDone
  BY <1>1 DEF SetThread, SetTop, SetPoll, SetAct, taskVars
<1>2. ASSUME NEW n \in Nodes, GetTop(n) \/ GetPoll(n) PROVE AddrDone' = AddrDone
  BY <1>2 DEF GetTop, GetPoll, taskVars
<1>3. ASSUME NEW n \in Nodes, GetAct(n), AddrDone' # AddrDone
      PROVE  \E t \in Tasks : /\ AddrDone' = [AddrDone EXCEPT ![t] = TRUE]
                              /\ DestNId[t] \in Nodes
                              /\ Addr_INX' = [Addr_INX EXCEPT ![DestNId[t]] = @ - 1]
                              /\ DepTId[t] # NoTask => AddrDone[DepTId[t]]
  <2> DEFINE t   == AddrFIFO[n][0].TId
             hop == NextHop(n)
  <2>1. getPc[n] = "act" /\ hop \in Mesh /\ Forward(n, hop)
    BY <1>3 DEF GetAct, taskVars
  <2>2. /\ 0 \in Occupied(n) /\ t \in Tasks /\ n \in Rectangle(t)
        /\ DecoderAddr2NetNodeId(AddrFIFO[n][0].CurAddr) = n
        /\ hop = CheckAddrInfNetNode2NetNode(n, X(DestNId[t]) - X(n), Y(DestNId[t]) - Y(n))
    BY <2>1, HeadEntry DEF Entry
  <2>3. AddrDone' = [AddrDone EXCEPT ![t] = TRUE] /\ n = hop
    BY <1>3, <2>1, <2>2 DEF Forward
  <2>4. n = DestNId[t]
    BY <2>2, <2>3, HopOnPath
  <2>5. Addr_INX' = [Addr_INX EXCEPT ![n] = Addr_INX[n] - 1]
    BY <2>1 DEF Forward, SetNetNodeInf2TaskListAddr, UpdateIndex
  <2>6. DepTId[t] # NoTask => AddrDone[DepTId[t]]
    BY <2>2 DEF IInv, DependencyRespected
  <2> QED
    BY <2>2, <2>3, <2>4, <2>5, <2>6
<1>4. CASE UNCHANGED vars
  BY <1>4 DEF vars
<1> QED
  BY <1>1, <1>2, <1>3, <1>4 DEF Next, GetThread, Joined

(* A task is completed at its destination only. *)
THEOREM CompletedAtDestination == Spec => DoneAtDestination
<1>1. IInv /\ [Next]_vars =>
        \A t \in Tasks : AddrDone'[t] # AddrDone[t] =>
          Addr_INX'[DestNId[t]] = Addr_INX[DestNId[t]] - 1
  <2> SUFFICES ASSUME IInv, [Next]_vars, NEW t \in Tasks, AddrDone'[t] # AddrDone[t]
               PROVE  Addr_INX'[DestNId[t]] = Addr_INX[DestNId[t]] - 1
    OBVIOUS
  <2>1. PICK u \in Tasks : /\ AddrDone' = [AddrDone EXCEPT ![u] = TRUE]
                           /\ DestNId[u] \in Nodes
                           /\ Addr_INX' = [Addr_INX EXCEPT ![DestNId[u]] = @ - 1]
    BY DoneStep
  <2>2. u = t
    BY <2>1 DEF IInv, TypeOK
  <2> QED
    BY <2>1, <2>2 DEF IInv, TypeOK
<1> QED
  BY <1>1, Inductive, PTL DEF Spec, DoneAtDestination

(* The network implements the delivery of tasks in dependency order. *)
THEOREM Delivery == Spec => ImplementsTaskDelivery
<1>1. Init => TD!Init
  BY DEF Init, TD!Init
<1>2. IInv /\ [Next]_vars => [TD!Next]_{t \in Tasks : AddrDone[t]}
  <2> SUFFICES ASSUME IInv, [Next]_vars
               PROVE  TD!Next \/ {t \in Tasks : AddrDone'[t]} = {t \in Tasks : AddrDone[t]}
    OBVIOUS
  <2>1. CASE AddrDone' = AddrDone
    BY <2>1
  <2>2. ASSUME NEW t \in Tasks, AddrDone' = [AddrDone EXCEPT ![t] = TRUE],
               DepTId[t] # NoTask => AddrDone[DepTId[t]]
        PROVE  TD!Next \/ {u \in Tasks : AddrDone'[u]} = {u \in Tasks : AddrDone[u]}
    <3>1. {u \in Tasks : AddrDone'[u]} = {u \in Tasks : AddrDone[u]} \union {t}
      BY <2>2 DEF IInv, TypeOK
    <3>2. DepTId[t] # NoTask => DepTId[t] \in {u \in Tasks : AddrDone[u]}
      BY <2>2, NetAssumption
    <3>3. CASE AddrDone[t]
      BY <3>1, <3>3
    <3>4. CASE ~AddrDone[t]
      BY <3>1, <3>2, <3>4 DEF TD!Next, TD!Complete
    <3> QED
      BY <3>3, <3>4
  <2> QED
    BY <2>1, <2>2, DoneStep
<1> QED
  BY <1>1, <1>2, Inductive, PTL DEF Spec, ImplementsTaskDelivery, TD!Spec
-----------------------------------------------------------------------------
(* The other FIFOs keep their entries when one FIFO changes. *)
LEMMA SameQueue ==
  ASSUME NEW m \in Nodes, AddrFIFO'[m] = AddrFIFO[m], Addr_INX'[m] = Addr_INX[m]
  PROVE  Queue(m)' = Queue(m)
BY DEF Queue

(* A push appends an entry to the queue of its node. *)
LEMMA PushQueue ==
  ASSUME IInv, NEW n \in Nodes, NEW t \in Issuable(n), setPc[n] = "act",
         SetTaskListAddrInf2NetNoe(n, t)
  PROVE  AQ(n)!Put
<1> DEFINE e == [CurAddr |-> FromAddr[t], EndAddr |-> ToAddr[t], TId |-> t]
           k == Addr_INX[n]
<1>1. k \in 0 .. MAX_FIFO_DEEP /\ k < MAX_FIFO_DEEP /\ k \in Slots /\ MAX_FIFO_DEEP \in Nat
  BY NetAssumption DEF IInv, PollStillValid, TypeOK, Slots
<1>2. Addr_INX'[n] = k + 1 /\ AddrFIFO'[n] = [AddrFIFO[n] EXCEPT ![k] = e]
  BY <1>1 DEF SetTaskListAddrInf2NetNoe, UpdateIndex, IInv, TypeOK
<1>3. e \in IssuedAt(n)
  BY DEF IssuedAt, Issuable, IInv, EntriesOnPath
<1>4. AddrFIFO[n] \in [Slots -> Entry]
  BY DEF IInv, TypeOK
<1>5. Queue(n) \in Seq(Entry) /\ Len(Queue(n)) = k
  <2>1. \A i \in 1 .. k : i - 1 \in Slots
    BY <1>1 DEF Slots
  <2>2. Queue(n) \in [1 .. k -> Entry]
    BY <1>4, <2>1 DEF Queue
  <2> QED
    BY <1>1, <2>2
<1>6. Queue(n)' = Append(Queue(n), e)
  <2>1. Queue(n)' = [i \in 1 .. k + 1 |-> IF i = k + 1 THEN e ELSE AddrFIFO[n][i - 1]]
    <3>1. Queue(n)' = [i \in 1 .. k + 1 |-> AddrFIFO'[n][i - 1]]
      BY <1>2 DEF Queue
    <3>2. \A i \in 1 .. k + 1 : AddrFIFO'[n][i - 1] = IF i = k + 1 THEN e ELSE AddrFIFO[n][i - 1]
      BY <1>1, <1>2, <1>4 DEF Slots
    <3> QED
      BY <3>1, <3>2
  <2>2. Append(Queue(n), e) = [i \in 1 .. k + 1 |-> IF i = k + 1 THEN e ELSE Queue(n)[i]]
    BY <1>1, <1>5
  <2>3. \A i \in 1 .. k + 1 : i # k + 1 => Queue(n)[i] = AddrFIFO[n][i - 1]
    BY <1>1 DEF Queue
  <2> QED
    BY <2>1, <2>2, <2>3
<1> QED
  BY <1>1, <1>3, <1>5, <1>6 DEF AQ!Put

(* A pop removes the front of the queue of its node. *)
LEMMA TakeQueue ==
  ASSUME IInv, NEW n \in Nodes, getPc[n] = "act",
         NEW addr, NEW hop, NEW t, SetNetNodeInf2TaskListAddr(n, addr, hop, t)
  PROVE  AQ(n)!Take
<1> DEFINE k == Addr_INX[n]
<1>1. k \in 0 .. MAX_FIFO_DEEP /\ k > 0 /\ MAX_FIFO_DEEP \in Nat
  BY NetAssumption DEF IInv, PollStillValid, TypeOK
<1>2. /\ Addr_INX'[n] = k - 1
      /\ AddrFIFO'[n] = [i \in Slots |-> IF i + 1 \in Slots
                                         THEN AddrFIFO[n][i + 1] ELSE AddrFIFO[n][i]]
  BY <1>1 DEF SetNetNodeInf2TaskListAddr, UpdateIndex, IInv, TypeOK
<1>3. AddrFIFO[n] \in [Slots -> Entry]
  BY DEF IInv, TypeOK
<1>4. Queue(n) \in Seq(Entry) /\ Len(Queue(n)) = k
  <2>1. \A i \in 1 .. k : i - 1 \in Slots
    BY <1>1 DEF Slots
  <2>2. Queue(n) \in [1 .. k -> Entry]
    BY <1>3, <2>1 DEF Queue
  <2> QED
    BY <1>1, <2>2
<1>5. Queue(n)' = Tail(Queue(n))
  <2>1. Queue(n)' = [i \in 1 .. k - 1 |-> AddrFIFO'[n][i - 1]]
    BY <1>2 DEF Queue
  <2>2. \A i \in 1 .. k - 1 : AddrFIFO'[n][i - 1] = AddrFIFO[n][i]
    BY <1>1, <1>2 DEF Slots
  <2>3. Tail(Queue(n)) = [i \in 1 .. k - 1 |-> Queue(n)[i + 1]]
    <3>1. Queue(n) # <<>>
      BY <1>1, <1>4
    <3>2. /\ Tail(Queue(n)) \in Seq(Entry)
          /\ Len(Tail(Queue(n))) = k - 1
          /\ \A i \in 1 .. k - 1 : Tail(Queue(n))[i] = Queue(n)[i + 1]
      BY <1>1, <1>4, <3>1, HeadTailProperties
    <3>3. \A s \in Seq(Entry) : s = [i \in 1 .. Len(s) |-> s[i]]
      OBVIOUS
    <3> QED
      BY <1>1, <3>2, <3>3
  <2>4. \A i \in 1 .. k - 1 : Queue(n)[i + 1] = AddrFIFO[n][i]
    BY <1>1 DEF Queue
  <2> QED
    BY <2>1, <2>2, <2>3, <2>4
<1>6. Queue(n) # <<>>
  BY <1>1, <1>4
<1> QED
  BY <1>5, <1>6 DEF AQ!Take

(* Every address FIFO behaves as a bounded queue, whatever the threads'    *)
(* interleaving: the array, the index and the shift never lose or reorder  *)
(* an entry.                                                               *)
THEOREM FifosImplementQueues == Spec => FifosAreQueues
<1>1. Init => \A n \in Nodes : AQ(n)!Init
  BY DEF Init, AQ!Init, Queue
<1>2. IInv /\ [Next]_vars => \A n \in Nodes : [AQ(n)!Next]_(Queue(n))
  <2> SUFFICES ASSUME IInv, [Next]_vars, NEW n \in Nodes
               PROVE  AQ(n)!Next \/ Queue(n)' = Queue(n)
    OBVIOUS
  <2>1. CASE UNCHANGED fifoVars
    BY <2>1, SameQueue DEF fifoVars
  <2>2. ASSUME NEW m \in Nodes, SetAct(m), ~UNCHANGED fifoVars
        PROVE  AQ(n)!Next \/ Queue(n)' = Queue(n)
    <3>1. PICK t \in Issuable(m) : SetTaskListAddrInf2NetNoe(m, t)
      BY <2>2 DEF SetAct, CheckTaskListAndSetAddrInf2NetNode
    <3>2. CASE n = m
      BY <2>2, <3>1, <3>2, PushQueue DEF SetAct, AQ!Next
    <3>3. CASE n # m
      BY <3>1, <3>3, SameQueue DEF SetTaskListAddrInf2NetNoe, UpdateIndex, IInv, TypeOK
    <3> QED
      BY <3>2, <3>3
  <2>3. ASSUME NEW m \in Nodes, GetAct(m), ~UNCHANGED fifoVars
        PROVE  AQ(n)!Next \/ Queue(n)' = Queue(n)
    <3>1. getPc[m] = "act" /\ Forward(m, NextHop(m))
      BY <2>3 DEF GetAct
    <3>2. PICK addr, hop, t : SetNetNodeInf2TaskListAddr(m, addr, hop, t)
      BY <3>1 DEF Forward
    <3>3. CASE n = m
      BY <3>1, <3>2, <3>3, TakeQueue DEF AQ!Next
    <3>4. CASE n # m
      BY <3>2, <3>4, SameQueue DEF SetNetNodeInf2TaskListAddr, UpdateIndex, IInv, TypeOK
    <3> QED
      BY <3>3, <3>4
  <2>4. ASSUME NEW m \in Nodes, SetTop(m) \/ SetPoll(m) \/ GetTop(m) \/ GetPoll(m)
        PROVE  UNCHANGED fifoVars
    BY <2>4 DEF SetTop, SetPoll, GetTop, GetPoll
  <2>5. UNCHANGED vars => UNCHANGED fifoVars
    BY DEF vars, fifoVars
  <2> QED
    BY <2>1, <2>2, <2>3, <2>4, <2>5 DEF Next, SetThread, GetThread, Joined
<1> QED
  BY <1>1, <1>2, Inductive, PTL DEF Spec, FifosAreQueues
=============================================================================
